CONSTANTS
    SEND_BUFFER_SIZE = 1
    OUT_LEN = 1
    PACKET_SIZE = 1
    MAX_SEND_UDP_PAYLOAD_SIZE = 1
    INITIAL_WINDOW_PACKETS = 2
    U64 = 64
    norm2_vec <- Norms2
    PriorityBlock = 1
    DataLen = 2
    ELICT_FLAG = 2
    AckRoom = 2
    ReadCaps = {}
    Eager = FALSE
    MaxInFlight = 2
    MaxFaults = 1
    MaxRounds = 0
    Endless = TRUE
SPECIFICATION TransferFairSpec
INVARIANTS NoSilentDrop
PROPERTIES PanicOnlyWhenExhausted ImplementsDelivery TransferCompletes
CHECK_DEADLOCK FALSE
