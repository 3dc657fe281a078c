SPECIFICATION Spec
CONSTANTS
    a = a
    Tasks = {a}
    Nobody = Nobody
    Kept = {}
    Rules <- Daily
    Day = 2
    Week = 2
    Horizon = 5
    DaysAhead = 4
    MaxChainDepth = 2
    MaxEdits = 1
    MaxManual = 0
    MaxCrashes = 1
INVARIANTS
    MissedIsSkipped
CHECK_DEADLOCK FALSE
