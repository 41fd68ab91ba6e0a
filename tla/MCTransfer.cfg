CONSTANTS
    SEND_BUFFER_SIZE = 3
    OUT_LEN = 3
    PACKET_SIZE = 1
    MAX_SEND_UDP_PAYLOAD_SIZE = 1
    INITIAL_WINDOW_PACKETS = 2
    U64 = 64
    norm2_vec <- Norms2
    PriorityBlock = 3
    DataLen = 4
    ELICT_FLAG = 1
    AckRoom = 2
    ReadCaps = {1}
    Eager = TRUE
    MaxInFlight = 2
    MaxFaults = 2
    MaxRounds = 2
    Endless = FALSE
SPECIFICATION TransferSpec
INVARIANTS TransferTypeOK FeedbackAnswered ElictAckFull
PROPERTIES OversizedAckStays ImplementsDelivery
CHECK_DEADLOCK FALSE
