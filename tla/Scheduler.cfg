SPECIFICATION Spec
CONSTANTS
    a = a
    b = b
    Tasks = {a, b}
    Nobody = Nobody
    Kept = {a}
    Rules <- Mixed
    Day = 2
    Week = 2
    Horizon = 3
    DaysAhead = 4
    MaxChainDepth = 1
    MaxEdits = 1
    MaxManual = 1
    MaxCrashes = 1
INVARIANTS
    OneAtATime
    AccountedOnce
    TimerArmed
    FutureIsPlanned
PROPERTIES
    NothingStaysDue
CHECK_DEADLOCK FALSE
