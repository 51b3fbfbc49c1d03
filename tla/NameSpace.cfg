SPECIFICATION Spec
CONSTANTS
    Paths = {"d", "e", "f", "g", "h", "x"}
    Root = "/"
    Parent <- MCParent
    FirstTree <- MCFirstTree
    Contested <- MCContested
    MaxMeddling <- MCMaxMeddling
    Targets = {"h"}
    Threads = {"t1", "t2"}
    Urls = {"d", "e", "f", "g", "x", "fullf", "bad"}
    PathOf <- MCPathOf
    FormOf <- MCFormOf
    HostOf <- MCHostOf
    Bdii <- MCBdii
    Default <- MCDefault
    Protocols = {"gsiftp", "https"}
    Served = {"gsiftp", "file"}
    Mapped = {"x"}
    DefaultCred = ""
    Menus <- MCMenus
    MaxCalls <- MCMaxCalls
    CacheSize = 2
    Order <- MCOrder
    ServerLimit = 1
    ChunkSize = 1
    Windows <- MCWindows
    Renames <- MCRenames
    CredOrder <- MCCredOrder
    Up <- MCUp
    Settings <- MCSettings
    Slash <- MCSlash
    Reserved <- MCReserved
    BaseOf <- MCBaseOf
    Moves <- MCMoves
    HttpMenus <- MCHttpMenus
    MaxHttpCalls = 3
    MaxSets = 2
    Groups <- MCGroups
    KeyConfs <- MCKeyConfs
    SftpMenus <- MCSftpMenus
    Servers = {"s1", "s2", "s3"}
    Slots = {1, 2}
    Offered <- MCOffered
    Working <- MCWorking
    SftpMoves <- MCMoves
    MaxSftpCalls = 4
    MaxSessions = 3
    Flags = {"rdonly", "wronly", "rdwr", "rdwr+creat", "rdonly+creat"}
    Before <- MCBefore
    Offsets = {0, 1, 2}
    Counts = {1, 2}
    MaxIoCalls = 5
INVARIANT MkdirRecDone
INVARIANT ContextOfCall
INVARIANT LockAccounted
INVARIANT NoStaleEntry
INVARIANT ListedOnce
INVARIANT TokenFits
INVARIANT PairOfOneGroup
INVARIANT SessionInOnePlace
INVARIANT FileAsWritten
CHECK_DEADLOCK FALSE
