CONSTANTS
    Resources = {r1, r2}
    Controllers = {c1, c2}
    Ttls = {1}
    MaxLeases = 1
    NoLease = NoLease
    ClockMayStepBack = FALSE
    MaxClock = 3
    MaxToken = 3
SPECIFICATION LeaseSpec
INVARIANT LimitMeansActive
