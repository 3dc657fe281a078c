CONSTANTS
    m1 = m1
    m2 = m2
    s1 = s1
    s2 = s2
    s3 = s3
    Mains = {m1, m2}
    Subs = {s1, s2, s3}
    NoRun = NoRun
    MaxDepth = 2
    MaxQueuedPerParent = 2
    MaxQueuedTotal = 2
    Capacities <- TightOrWide
    Reaps = TRUE
    InitialCapacity <- OneSlot
SPECIFICATION Spec
INVARIANT ChainReachesRoot
CHECK_DEADLOCK FALSE
