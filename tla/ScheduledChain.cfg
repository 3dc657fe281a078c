SPECIFICATION Spec
CONSTANTS
    a = a
    b = b
    Tasks = {a, b}
    Nobody = Nobody
    Kept = {}
    Rules <- Daily
    Day = 2
    Week = 2
    Horizon = 5
    DaysAhead = 4
    MaxChainDepth = 2
    MaxEdits = 3
    MaxManual = 0
    MaxCrashes = 0
INVARIANTS
    ChainIsParentPlusOne
CHECK_DEADLOCK FALSE
