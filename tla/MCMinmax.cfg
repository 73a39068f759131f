SPECIFICATION Spec
CONSTANTS
    Ranks = {0, 1}
    Allocators = {0}
    LocalMax = 8
    HeaderSize = 1
    AllocBlock = 4
    PageSize = 2
    FirstThreshold = 4
    MaxUnflushed = 2
    Requests <- MCRequests
    Vectors = {v1, v2}
    Values = {e1, e2}
    MaxLen = 3
    MaxCalls = 4
    Raw = Raw
    Moved = Moved
    Broken = Broken
    Me = 0
    HomeEntries = 2
    TlbSize = 2
    Mappers <- MCMappers
    Regions <- MCRegions
    Spans = {c1, c2, c3}
    NoSeg = NoSeg
    Workers = {w1, w2, w3}
    Items = 4
    Nobody = Nobody
    ElemKeys = {1, 2, 3}
    MaxMerge = 5
    MaxSort = 6
    MaxRange = 5
    MaxHinted = 9
    MaxCutoff = 3
    MaxByte = 5
    MaxMemory = 9
INVARIANTS
    FirstMaximum
SYMMETRY Symmetry
CHECK_DEADLOCK FALSE
