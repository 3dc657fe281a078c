SPECIFICATION Spec
CONSTANTS
    m1 = m1
    m2 = m2
    r1 = r1
    Messages = {m1, m2}
    Long = {}
    Reports = {r1}
    MaxItems = 2
    MaxAttempts = 2
    ReceiptsMayFail = FALSE
    HistoryOps = FALSE
    ScheduledSession = FALSE
    MaxEdits = 1
    MaxFaults = 1
INVARIANTS
    QueueWaitsAfterStop
