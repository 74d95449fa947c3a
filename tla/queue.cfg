SPECIFICATION FairSpec
CONSTANTS
    g1 = g1
    g2 = g2
    j1 = j1
    j2 = j2
    Runners = {g1, g2}
    Jobs = {j1, j2}
    BatchSize = 2
    MaxRuns = 2
    MaxStops = 2
    MaxHandlerErrors = 1
    MaxTroubles = 1
INVARIANTS TypeOK SingleWorker LeasedIsHeld HandledOnce
PROPERTIES StopIsHeeded JobsGetDone
CHECK_DEADLOCK FALSE
