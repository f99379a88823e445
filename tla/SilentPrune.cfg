CONSTANTS
    c1 = c1
    c2 = c2
    u1 = u1
    g1 = g1
    g2 = g2
    Conns = {c1, c2}
    Users = {u1}
    OwnerOf <- OneOwner
    NoOwner = NoOwner
    Timeout = 2
    Skew = 0
    MaxTime = 2
    Gateways = {g1, g2}
    HostOf <- EachItsGateway
    Offset <- SameClock
    Nothing = Nothing
    MaxNews = 1
    MaxFaults = 0
SPECIFICATION BroadcastSpec
CHECK_DEADLOCK FALSE
PROPERTY PrunesAreAnnounced
