SPECIFICATION Spec
CONSTANTS
    m1 = m1
    t1 = t1
    None = None
    Meetings = {m1}
    Threads = {t1}
    Requests = {"start", "pause", "resume", "stop", "recover", "abandon", "retry", "delete"}
    MaxCrashes = 1
    TornAppends = FALSE
    Faults = FALSE
SYMMETRY Symmetry
INVARIANTS
    NeverDeletesRecording
CHECK_DEADLOCK FALSE
