CONSTANTS
    SEND_BUFFER_SIZE = 16
    OUT_LEN = 17
    GROUP = 4
    Inputs <- MCTexts
    Windows = {0, 16, 24}
    MaxSets = 2
SPECIFICATION SessionSpec
INVARIANTS FalseMeansAllTaken
CHECK_DEADLOCK FALSE
