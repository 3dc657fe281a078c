SPECIFICATION Spec
CONSTANTS
    m1 = m1
    m2 = m2
    m3 = m3
    Messages = {m1, m2, m3}
    Long = {m1, m2}
    Reports = {}
    MaxItems = 3
    MaxAttempts = 2
    ReceiptsMayFail = FALSE
    HistoryOps = FALSE
    ScheduledSession = FALSE
    MaxEdits = 0
    MaxFaults = 0
PROPERTIES
    SentInPromotedOrder
