SPECIFICATION FairSpec
CONSTANTS
    Preferences = {"gpu", "cpu"}
    StorageFails = FALSE
    MaxFlips = 1
    MaxStarts = 1
    MaxRestarts = 1
INVARIANTS
    HealthFollowsProbes
    CpuMeansCpu
PROPERTIES
    ModelKept
    LoadingEnds
    RecoveryIsSeen
CHECK_DEADLOCK FALSE
