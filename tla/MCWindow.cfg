CONSTANTS
    SEND_BUFFER_SIZE = 3
    OUT_LEN = 4
    DataLen = 8
    Windows = {0, 4, 7}
    Interrupt = TRUE
SPECIFICATION WindowSpec
INVARIANTS WindowTypeOK DropsExactlySettled ChunksDisjoint WithinOneBlock LenCoversUnsent
CHECK_DEADLOCK FALSE
