SPECIFICATION FairSpec
CONSTANTS
    m1 = m1
    t1 = t1
    t2 = t2
    None = None
    Meetings = {m1}
    Threads = {t1, t2}
    Requests = {"start", "stop", "recover", "retry"}
    MaxCrashes = 1
    TornAppends = TRUE
    Faults = FALSE
PROPERTIES
    SlotNeverOverwritten
    StopFreesSlot
CHECK_DEADLOCK FALSE
