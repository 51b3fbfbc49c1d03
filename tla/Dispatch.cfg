SPECIFICATION PosixSpec
CONSTANTS
    Threads = {t1, t2}
    Busy = {t1}
    Dirs <- MCDirs
    Kind <- MCKind
    Fallible = {"http"}
    Clients = {"mine"}
    Name <- MCName
    Priority <- MCPriority
    Serves <- MCServes
    Confused <- MCConfused
    MaxPluginList = 3
    MaxLoads <- MCMaxLoads
    Codes = {"EEXIST"}
    Urls = {"u1", "u2"}
    NoUrl = "NULL"
INVARIANT LoadedAsListed
INVARIANT FirstByPriority
INVARIANT PluginsReleased
INVARIANT FailureExplained
CHECK_DEADLOCK FALSE
