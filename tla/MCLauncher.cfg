SPECIFICATION FairSpec
CONSTANTS
    Modes = {"launcher", "diagnostics", "standalone"}
    Attempts = 3
    MaxEngineRestarts = 2
    MaxPolls = 4
    UnhandledSignals = FALSE
    LateIntruder = FALSE
    ShellRestarts = FALSE
    Stubborn = FALSE
    MaxCrashes = 3
    MaxReopens = 1
    MaxSignals = 2
    MaxIntruders = 1
INVARIANTS
    NothingLeftBehind
    DesktopGoneFirst
    ReadyIsOurs
PROPERTIES
    ClosingEnds
    DeathIsAnswered
CHECK_DEADLOCK FALSE
