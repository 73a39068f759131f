CONSTANTS
    Blocks = {A, B, C}
    NoBlock = NoBlock
    BlockSize = 1
    sub_block_size = 1
    NSlots = 2
    NoSlot = NoSlot
    max_dirty_cache_blocks = 2
    MaxHeld = 2
    SetAfterAcquire = TRUE
SPECIFICATION Spec
SYMMETRY Symmetry
INVARIANTS
    NoLostWrite
    RmaDisjoint
CHECK_DEADLOCK FALSE
