CONSTANTS
    Resources = {r1, r2, r3}
    Controllers = {c1, c2}
    Workspaces = {w1, w2}
    Ttls = {1}
    MaxLeases = 1
    MaxPerWorkspace = 2
    MaxTotal = 2
    NoLease = NoLease
    NoTerminal = NoTerminal
    ClockMayStepBack = FALSE
    MaxClock = 2
    MaxToken = 2
SPECIFICATION TermSpec
SYMMETRY TermSymmetry
INVARIANTS TermTypeOK TotalLimit RevokedHoldOnlyCreated
