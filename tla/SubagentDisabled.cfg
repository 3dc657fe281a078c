CONSTANTS
    m1 = m1
    s1 = s1
    s2 = s2
    s3 = s3
    Mains = {m1}
    Subs = {s1, s2, s3}
    NoRun = NoRun
    MaxDepth = 2
    MaxQueuedPerParent = 2
    MaxQueuedTotal = 2
    Capacities <- OnOrOff
    Reaps = FALSE
    InitialCapacity <- OneSlot
SPECIFICATION Spec
PROPERTIES WaiterResolved
CHECK_DEADLOCK FALSE
