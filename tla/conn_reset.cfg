SPECIFICATION HistorySpec
CONSTANTS
    u1 = u1
    u2 = u2
    Users = {u1}
    UserOps = {"connect", "reset"}
    MaxReconnectAttempts = 2
    MaxCalls = 2
    MaxDials = 2
    MaxFailures = 0
    MaxLosses = 0
    MaxContexts = 0
PROPERTY ResetTearsDown
CHECK_DEADLOCK FALSE
