SPECIFICATION Spec
CONSTANTS
    g1 = g1
    g2 = g2
    j1 = j1
    j2 = j2
    Runners = {g1}
    Jobs = {j1}
    BatchSize = 1
    MaxRuns = 1
    MaxStops = 2
    MaxHandlerErrors = 0
    MaxTroubles = 0
INVARIANT StopNeverPanics
CHECK_DEADLOCK FALSE
