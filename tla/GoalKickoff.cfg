SPECIFICATION Spec
CONSTANTS
    MaxIds = 3
    MaxMessages = 4
    MaxRuns = 2
    IdleCap = 1
    OddReplies = FALSE
    MaxRestarts = 0
PROPERTIES
    KickoffDelivered
CHECK_DEADLOCK FALSE
