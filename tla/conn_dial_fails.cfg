SPECIFICATION FairSpec
CONSTANTS
    u1 = u1
    u2 = u2
    Users = {u1}
    UserOps = {"connect"}
    MaxReconnectAttempts = 4
    MaxCalls = 1
    MaxDials = 4
    MaxFailures = 1
    MaxLosses = 1
    MaxContexts = 0
PROPERTY AutoReconnects
CHECK_DEADLOCK FALSE
