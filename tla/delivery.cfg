SPECIFICATION FairSpec
CONSTANTS
    Reader = reader
    None = none
    NoHandler = nil
    c1 = c1
    c2 = c2
    h1 = h1
    h2 = h2
    h3 = h3
    Callers = {c1, c2}
    Handlers = {h1, h2, h3}
    EventHandlers <- TwoHandlers
    CatchAll = h3
    WithEvent <- AllButLast
    Ops = {"pause", "pauseAndDrop", "resume", "clear", "reset"}
    MaxFrame = 2
    MaxMessages = 3
    MaxCalls = 5
INVARIANTS TypeOK BufferOnlyWhilePaused
PROPERTIES KeepsPromise MessagesSettle OvertakesBuffered
CHECK_DEADLOCK FALSE
