CONSTANTS
    SEND_BUFFER_SIZE = 3
    OUT_LEN = 4
    DataLen = 8
    Windows = {4, 7}
    Interrupt = FALSE
SPECIFICATION WindowFairSpec
INVARIANTS WindowDrained
PROPERTIES Completes
CHECK_DEADLOCK FALSE
