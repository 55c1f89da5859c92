SPECIFICATION FairSpec
CONSTANTS
    microphone = microphone
    Sources = {microphone}
    ChunkLength = 2
    MaxTime = 3
    MaxStarts = 2
    MaxFlips = 1
    MaxSlack = 1
    Hangs = TRUE
INVARIANTS
    BlocksInOrder
    TailLeftBound
    StartsInOrder
PROPERTIES
    CutsOnlyOffSchedule
    ShipsOnSchedule
    Reconnects
CHECK_DEADLOCK FALSE
