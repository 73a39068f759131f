CONSTANTS
    Blocks = {A, B}
    NoBlock = NoBlock
    BlockSize = 2
    sub_block_size = 2
    NSlots = 1
    NoSlot = NoSlot
    max_dirty_cache_blocks = 1
    MaxHeld = 1
    SetAfterAcquire = FALSE
SPECIFICATION Spec
SYMMETRY Symmetry
INVARIANTS
    CheckedOutLatest
CHECK_DEADLOCK FALSE
