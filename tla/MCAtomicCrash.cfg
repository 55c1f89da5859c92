SPECIFICATION Spec
CONSTANTS
    w1 = w1
    w2 = w2
    Writers = {w1, w2}
    Overlap = FALSE
    ClosedReplace = FALSE
    MaxVersions = 7
    MaxCrashes = 3
SYMMETRY Symmetry
INVARIANTS
    AlwaysComplete
CHECK_DEADLOCK FALSE
