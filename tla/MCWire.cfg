CONSTANTS
    StreamOffs = {0, 1, 2}
    Payload = 7
    ChunkCells = 2
    ELICT_FLAG = 2
    Room = 5
SPECIFICATION WireSpec
INVARIANT ReadsWhatWasMeant
