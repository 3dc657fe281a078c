SPECIFICATION Spec
CONSTANTS
    MaxIds = 3
    MaxMessages = 4
    MaxRuns = 2
    IdleCap = 1
    OddReplies = TRUE
    MaxRestarts = 1
INVARIANTS
    TranscriptTellsGoal
CHECK_DEADLOCK FALSE
