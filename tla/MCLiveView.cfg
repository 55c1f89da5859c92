SPECIFICATION Spec
CONSTANTS
    MaxMeetings = 2
    MaxChunks = 2
    MaxClicks = 5
    MaxAttempts = 2
    MaxFaults = 1
    MaxReloads = 1
    SlowEvents = FALSE
INVARIANTS
    
    StateShown
    OneMeetingPerClick
CHECK_DEADLOCK FALSE
