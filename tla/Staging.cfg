SPECIFICATION FairStaging
CONSTANTS
    Plugins = {"srm", "http", "xrootd"}
    Paths = {p1, p2}
    MaxFiles = 3
INVARIANT OnlineMeansOnline NothingForgotten
PROPERTY StagingEnds
CHECK_DEADLOCK FALSE
