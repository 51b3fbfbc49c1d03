SPECIFICATION Spec
CONSTANTS
    Threads = {t1, t2}
    Handles = {h1, h2, h3}
    Keys = {1, 2, 3}
    MaxOpen = 1
    Offsets = {0, 1}
    IntRange = 2
    MixedIO = FALSE
    Freeing = {h1}
    NoHandle = NoHandle
    NoThread = NoThread
INVARIANT NoUseAfterFree
INVARIANT PreadAtOffset
CHECK_DEADLOCK FALSE
