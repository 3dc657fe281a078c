CONSTANTS
    Resources = {r1, r2}
    Controllers = {c1, c2}
    Workspaces = {w1, w2}
    Ttls = {1}
    MaxLeases = 2
    MaxPerWorkspace = 1
    MaxTotal = 2
    NoLease = NoLease
    NoTerminal = NoTerminal
    ClockMayStepBack = FALSE
    MaxClock = 3
    MaxToken = 3
SPECIFICATION TermSpec
SYMMETRY TermSymmetry
INVARIANTS WorkspaceLimit
