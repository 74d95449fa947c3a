SPECIFICATION FairSpec
CONSTANTS
    p1 = p1
    p2 = p2
    r1 = r1
    r2 = r2
    Pingers = {p1, p2}
    Readers = {r1, r2}
    MaxPings = 3
    MaxCopies = 1
    MaxAbandoned = 2
INVARIANTS TypeOK ReaderNeverBlocks NoEntryLeaks
PROPERTY PingReturns
CHECK_DEADLOCK FALSE
