CONSTANTS
    Blocks = {A, B}
    NoBlock = NoBlock
    BlockSize = 2
    sub_block_size = 2
    NSlots = 1
    NoSlot = NoSlot
    max_dirty_cache_blocks = 1
    MaxHeld = 2
    SetAfterAcquire = TRUE
SPECIFICATION Spec
SYMMETRY Symmetry
INVARIANTS
    CheckedOutLatest
    HomeLatest
    DieOnlyIfExhausted
CHECK_DEADLOCK FALSE
