SPECIFICATION FairSpec
CONSTANTS
    Workers = {w1, w2}
    Cancellers = {c1, c2}
    MaxDepth = 2
    NoThread = NoThread
INVARIANT IInv
INVARIANT CancelDrains
INVARIANT HooksAlive
PROPERTY CancelReturns
