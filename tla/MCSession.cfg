CONSTANTS
    SEND_BUFFER_SIZE = 16
    OUT_LEN = 17
    GROUP = 4
    Inputs <- MCTexts
    Windows = {0, 16, 24}
    MaxSets = 3
SPECIFICATION SessionSpec
INVARIANTS OnlyLateReportsPanic FlagForEveryChunk OffsetsFresh
CHECK_DEADLOCK FALSE
