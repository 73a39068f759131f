CONSTANTS
    NRanks = 3
    Threads = {a, b, c, d}
    NoThread = NoThread
    NoRank = NoRank
    MaxForks = 3
    MaxMoves = 1
SPECIFICATION FairSpec
INVARIANTS
    NoUseAfterFree
    OneContinuation
    PoppedIsParent
    FramesIntact
PROPERTIES
    RootExecReturns
