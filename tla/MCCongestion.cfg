CONSTANTS
    PACKET_SIZE = 5
    MAX_SEND_UDP_PAYLOAD_SIZE = 6
    INITIAL_WINDOW_PACKETS = 8
    Reports <- MCReports
    Bursts = {100}
    MaxSent = 100
    MaxHigh = 8
    MaxSwing = 50
SPECIFICATION CongestionSpec
INVARIANTS
    CongestionTypeOK
    OnlyZeroRecorded
    WindowZeroOrInitial
    AtMostOneZeroWindow
