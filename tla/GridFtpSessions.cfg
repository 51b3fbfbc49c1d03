SPECIFICATION Spec
CONSTANTS
    Threads = {t1, t2}
    Sessions = {s1, s2}
    Urls <- TwoHosts
    Host <- HostOfTwo
    Creds = {c1, c2}
    size_cache = 0
    NoSession = NoSession
    NoThread = NoThread
    NoCred = NoCred
    NoUrl = NoUrl
CHECK_DEADLOCK FALSE
SYMMETRY Symmetric
INVARIANT SessionOwned
PROPERTY LoginWithOwnCredential
