SPECIFICATION Spec
CONSTANTS
    a = a
    Tasks = {a}
    Nobody = Nobody
    Kept = {}
    Rules <- FarOnce
    Day = 2
    Week = 2
    Horizon = 5
    DaysAhead = 4
    MaxChainDepth = 2
    MaxEdits = 1
    MaxManual = 0
    MaxCrashes = 0
INVARIANTS
    FutureIsPlanned
CHECK_DEADLOCK FALSE
