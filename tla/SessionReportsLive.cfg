SPECIFICATION FairSpec
CONSTANTS
    m1 = m1
    r1 = r1
    r2 = r2
    Messages = {m1}
    Long = {}
    Reports = {r1, r2}
    MaxItems = 1
    MaxAttempts = 2
    ReceiptsMayFail = FALSE
    HistoryOps = TRUE
    ScheduledSession = FALSE
    MaxEdits = 0
    MaxFaults = 1
PROPERTIES
    ReportResolved
