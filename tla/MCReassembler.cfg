SPECIFICATION ReassemblerBehaviour
CONSTANTS
    SizeMod = 64
    Capacity = 6
    StreamLen = 8
    EmptyReordered = FALSE
INVARIANTS
    OutputInOrder
    StoreWellFormed
    NothingLost
    NeverThrows
    EndsAtTheEnd
CHECK_DEADLOCK FALSE
