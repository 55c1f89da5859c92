SPECIFICATION FairSpec
CONSTANTS
    startup = startup
    recheck = recheck
    KeySets = {{}, {"groq"}, {"gemini", "groq"}}
    MissingSdks = {{}, {"gemini"}}
    Refreshers = {startup, recheck}
    Startup = startup
    MaxRetries = 2
    OverlapRefresh = FALSE
    MaxRechecks = 1
    MaxChanges = 1
    MaxRequests = 1
INVARIANTS
    ServedIfChecked
    CheckSticks
PROPERTIES
    CheckingEnds
CHECK_DEADLOCK FALSE
