CONSTANTS
    NRanks = 5
    MaxCalls = 2
    NoRank = NoRank
SPECIFICATION FairSpec
INVARIANTS
    TaskAlive
    ExecuteTogether
PROPERTIES
    CollExecReturns
