SPECIFICATION Spec
CONSTANTS
    Keep = 2
    MaxEvents = 4
    MaxMounts = 2
    MaxSkips = 0
    MaxFailures = 0
    Connected = TRUE
CHECK_DEADLOCK FALSE
INVARIANT GapMeansSkip
