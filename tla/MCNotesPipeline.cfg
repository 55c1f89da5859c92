SPECIFICATION Spec
CONSTANTS
    j1 = j1
    Jobs = {j1}
    Providers = {"gemini", "groq"}
    Sections = {"decisions"}
    Entities = {"owner"}
    Overlap = FALSE
    MaxRuns = 2
    MaxEdits = 1
    MaxCrashes = 1
INVARIANTS
    NotesMatchReport
    FlawsWereRewritten
    NotStranded
CHECK_DEADLOCK FALSE
