CONSTANTS
    Resources = {r1, r2}
    Controllers = {c1, c2}
    Ttls = {1, 2}
    MaxLeases = 1
    NoLease = NoLease
    ClockMayStepBack = TRUE
    MaxClock = 2
    MaxToken = 3
SPECIFICATION LeaseSpec
SYMMETRY LeaseSymmetry
INVARIANTS LeaseTypeOK FencedInput TokensIdentifyGrants TokensSurviveRestart
PROPERTIES NoTakeoverBeforeExpiry
