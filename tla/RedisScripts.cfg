CONSTANTS
    a1 = a1
    a2 = a2
    r1 = r1
    u1 = u1
    u2 = u2
    Auctions = {a1, a2}
    Rooms = {r1}
    RoomOf <- SharedRoom
    Users = {u1, u2}
    Requests = {q1}
    Prices = {2, 3, 4}
    Times = {0, 1}
    Rules <- OneRule
    Countdown = 1
    MaxBids = 3
    NoAuction = NoAuction
    NoUser = NoUser
SPECIFICATION RedisSpec
INVARIANTS
    BidsExplainPrice
    OutcomeFollowsBids
    LeaderIsRanked
    VersionCountsWrites
    RoomExclusive
PROPERTY ClosedUntilReloaded
SYMMETRY Symmetric
