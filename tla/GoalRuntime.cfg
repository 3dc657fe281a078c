SPECIFICATION Spec
CONSTANTS
    MaxIds = 3
    MaxMessages = 4
    MaxRuns = 2
    IdleCap = 1
    OddReplies = FALSE
    MaxRestarts = 1
INVARIANTS
    TranscriptTellsGoal
    IdleWakesBounded
PROPERTIES
    VerdictsAreCurrent
    StopIsQuiet
CHECK_DEADLOCK FALSE
