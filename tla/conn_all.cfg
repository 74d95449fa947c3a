SPECIFICATION FairSpec
CONSTANTS
    u1 = u1
    u2 = u2
    Users = {u1, u2}
    UserOps = {"connect", "disconnect", "reset"}
    MaxReconnectAttempts = 2
    MaxCalls = 2
    MaxDials = 4
    MaxFailures = 1
    MaxLosses = 2
    MaxContexts = 1
INVARIANTS TypeOK SingleReconnector DialsWithinBudget LiveSocketIsRead LossIsHandled
PROPERTY LostSocketIsReplaced
CHECK_DEADLOCK FALSE
