CONSTANTS
    Ranks = {o, t1, t2}
    NoRank = NoRank
    Owner = o
    N = 4
    MarginDiv = 4
    EnablePass = TRUE
    Entry = {e1, e2, e3, e4, e5}
    NoEntry = NoEntry
SPECIFICATION Spec
SYMMETRY Symmetry
INVARIANTS
    ExactlyOnce
    FullMeansFull
    PopEmptyIsEmpty
PROPERTIES
    ImplementsDeque
CHECK_DEADLOCK FALSE
