SPECIFICATION Spec
CONSTANTS
    Keep = 2
    MaxEvents = 4
    MaxMounts = 2
    MaxSkips = 1
    MaxFailures = 2
    Connected = FALSE
CHECK_DEADLOCK FALSE
INVARIANTS
    InStep
    IsFollowed
