SPECIFICATION Spec
CONSTANTS
    m1 = m1
    m2 = m2
    Messages = {m1, m2}
    Long = {}
    Reports = {}
    MaxItems = 2
    MaxAttempts = 2
    ReceiptsMayFail = FALSE
    HistoryOps = FALSE
    ScheduledSession = FALSE
    MaxEdits = 1
    MaxFaults = 1
INVARIANTS
    RefusedStaysOut
