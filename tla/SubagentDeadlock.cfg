CONSTANTS
    m1 = m1
    m2 = m2
    s1 = s1
    s2 = s2
    s3 = s3
    s4 = s4
    Mains = {m1, m2}
    Subs = {s1, s2, s3, s4}
    NoRun = NoRun
    MaxDepth = 2
    MaxQueuedPerParent = 2
    MaxQueuedTotal = 2
    Capacities <- OnlyOnePerRun
    Reaps = FALSE
    InitialCapacity <- OnePerRun
SPECIFICATION Spec
SYMMETRY DispatchesAreAlike

PROPERTIES DeadlockMeansStuck
CHECK_DEADLOCK FALSE
