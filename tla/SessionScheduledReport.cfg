SPECIFICATION FairSpec
CONSTANTS
    m1 = m1
    r1 = r1
    Messages = {m1}
    Long = {}
    Reports = {r1}
    MaxItems = 1
    MaxAttempts = 2
    ReceiptsMayFail = FALSE
    HistoryOps = FALSE
    ScheduledSession = TRUE
    MaxEdits = 0
    MaxFaults = 1
PROPERTIES
    ReportResolved
