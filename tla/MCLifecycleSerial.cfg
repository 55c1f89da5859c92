SPECIFICATION Spec
CONSTANTS
    m1 = m1
    m2 = m2
    t1 = t1
    None = None
    Meetings = {m1, m2}
    Threads = {t1}
    Requests = {"start", "pause", "resume", "stop", "recover", "abandon", "delete"}
    MaxCrashes = 2
    TornAppends = FALSE
    Faults = FALSE
SYMMETRY Symmetry
INVARIANTS
    StoresAgree
    DevicesFollowState
    NothingStranded
    NeverDeletesRecording
CHECK_DEADLOCK FALSE
