CONSTANTS
    U64 = 64
    Chunks <- MCChunks
    Caps = {1, 2, 4, 8}
    MaxRead = 12
SPECIFICATION ReadingSpec
INVARIANTS ReadingTypeOK CursorBehindData
PROPERTIES LateChunkBlocksForever
CHECK_DEADLOCK FALSE
