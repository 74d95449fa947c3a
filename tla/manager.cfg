SPECIFICATION FairSpec
CONSTANTS
    u1 = u1
    u2 = u2
    n1 = n1
    n2 = n2
    Users = {u1, u2}
    Names = {n1, n2}
    Uses <- SharesOne
    Subscribers = {u1}
    Connectors = {r1}
    r1 = r1
    MaxChannels = 2
    MaxConnects = 2
    MaxCalls = 3
    MaxLosses = 1
INVARIANTS TypeOK HandlesAreCounted KeptForCallback
PROPERTIES IsRegistry ChannelsComeBack
CHECK_DEADLOCK FALSE
