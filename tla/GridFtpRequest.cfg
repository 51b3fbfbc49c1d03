SPECIFICATION FairSpec
CONSTANTS
    MarkerTimeout = 2
CHECK_DEADLOCK FALSE
INVARIANT RequestOutlivesUsers
INVARIANT SuccessIsReported
PROPERTY CopyEnds
