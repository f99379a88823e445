CONSTANTS
    c1 = c1
    c2 = c2
    u1 = u1
    g1 = g1
    g2 = g2
    Conns = {c1, c2}
    Users = {u1}
    OwnerOf <- OneOwner
    NoOwner = NoOwner
    Timeout = 1
    Skew = 1
    MaxTime = 1
    Gateways = {g1, g2}
    HostOf <- EachItsGateway
    Offset <- OneAhead
    Nothing = Nothing
    MaxNews = 1
    MaxFaults = 1
SPECIFICATION BroadcastSpec
CHECK_DEADLOCK FALSE
INVARIANTS BroadcastTypeOK CountedUsersAreHere LiveConnectionsCount LeftIsForgotten
PROPERTY CountsSettle
