SPECIFICATION FairSpec
CONSTANTS
    MaxChunks = 4
    MaxCrashes = 2
    SlowDrain = TRUE
    WriteFaults = TRUE
INVARIANTS
    IndicesIncrease
    PendingCountsInFlight
    CheckpointIsDurable
    StopIsComplete
    TextMissesOnePerCrash
PROPERTIES
    RefinesDurable
    BacklogDrains
CHECK_DEADLOCK FALSE
