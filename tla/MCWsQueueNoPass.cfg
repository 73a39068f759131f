CONSTANTS
    Ranks = {o, t1, t2}
    NoRank = NoRank
    Owner = o
    N = 3
    MarginDiv = 10
    EnablePass = FALSE
    Entry = {e1, e2, e3, e4}
    NoEntry = NoEntry
SPECIFICATION FairSpec
INVARIANTS
    LocalEmptySound
PROPERTIES
    OwnerReturns
CHECK_DEADLOCK FALSE
