CONSTANTS
    NRanks = 3
    K = 6
    MaxDepth = 2
    MinSize = 5
    MaxVersion = 9
    Hints <- MCHints
    Threads = {root, a, b, c}
    NoThread = NoThread
    Root = root
    MaxForks = 3
    MaxGroups = 2
    MaxRoots = 1
SPECIFICATION FairSpec
INVARIANTS
    MailboxFree
    OneContinuation
    FramesIntact
    CrossWorkerHome
    TreeConsistent
PROPERTIES
    RootExecReturns
CHECK_DEADLOCK FALSE
