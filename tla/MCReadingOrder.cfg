CONSTANTS
    U64 = 64
    Chunks <- MCChunks
    Caps = {1, 2, 4, 8}
    MaxRead = 12
SPECIFICATION ReadingSpec
INVARIANTS ReadsInStreamOrder
CHECK_DEADLOCK FALSE
