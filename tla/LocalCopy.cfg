SPECIFICATION FairSpec
CONSTANTS
    SrcLen = 2
    OldLen = 3
    MaxLen = 3
    Timeout = 2
    MaxMeddling = 2
    StrictModes = {TRUE, FALSE}
CHECK_DEADLOCK FALSE
INVARIANT CopyExact
INVARIANT KeepExisting
PROPERTY Terminates
