CONSTANTS
    Ranks = {r1, r2, r3}
    Reader = r3
    MaxHandlers = 2
    MaxWrites <- MCWrites
SPECIFICATION FairSpec
INVARIANTS
    PollServed
    CleanWhileWaiting
    AcquireSeesRelease
PROPERTIES
    AcquireReturns
