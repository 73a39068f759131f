CONSTANTS
    Ranks = {r1, r2, r3, r4}
    NoRank = NoRank
SPECIFICATION FairSpec
INVARIANTS
    MutualExclusion
PROPERTIES
    PriolockReturns
    ImplementsPrioMutex
