SPECIFICATION FairSpec
CONSTANTS
    MaxFiles = 2
    Arguments = {"null", "good", "bad", "typed"}
CHECK_DEADLOCK FALSE
INVARIANT ExistingKept
INVARIANT FailuresCounted
INVARIANT VerifiedPairExact
PROPERTY BulkReturns
