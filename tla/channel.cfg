SPECIFICATION FairSpec
CONSTANTS
    Connectors = {r1}
    Whole = whole
    NoHandler = nil
    None = none
    c1 = c1
    c2 = c2
    e1 = e1
    h1 = h1
    h2 = h2
    Callers <- SomeCallers
    Events = {e1}
    Handlers <- SomeHandlers
    CallerOps <- AllOps
    MaxCalls = 2
    MaxConnects = 2
    MaxFaults = 1
INVARIANTS TypeOK ViewAgreesWithServer NeverDeaf PendingIsAnswered
PROPERTIES CallsReturn ReconnectRestoresSubscription
CHECK_DEADLOCK FALSE
