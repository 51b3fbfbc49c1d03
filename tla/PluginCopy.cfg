SPECIFICATION Spec
CONSTANTS
    Plugins = {"gridftp", "http", "srm"}
    MaxMeddling = 2
    StrictModes = {TRUE, FALSE}
CHECK_DEADLOCK FALSE
INVARIANT NothingLeft
INVARIANT ExistingSurvives
PROPERTY VerifiedExact
