SPECIFICATION Spec
CONSTANTS
    m1 = m1
    m2 = m2
    m3 = m3
    Messages = {m1, m2, m3}
    Long = {m1, m2}
    Reports = {}
    MaxItems = 2
    MaxAttempts = 2
    ReceiptsMayFail = FALSE
    HistoryOps = FALSE
    ScheduledSession = TRUE
    MaxEdits = 1
    MaxFaults = 2
SYMMETRY Alike
INVARIANTS
    NothingTwice
    Accounted
    CleanMeansSaved
    MailboxIsCurrent
    WithdrawnStaysOut
PROPERTIES
    AckedIsSaved
