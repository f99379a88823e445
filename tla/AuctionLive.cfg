CONSTANTS
    a1 = a1
    a2 = a2
    r1 = r1
    u1 = u1
    u2 = u2
    b1 = b1
    b2 = b2
    q1 = q1
    q2 = q2
    q3 = q3
    m1 = m1
    m2 = m2
    Auctions = {a1}
    Rooms = {r1}
    RoomOf <- SharedRoom
    GoodsOf <- OwnGoods
    Users = {u1}
    Requests = {q1}
    Prices = {2}
    Times = {0, 1, 2, 3}
    Rules <- OneRule
    Updates <- NoUpdate
    Countdown = 1
    MaxBids = 1
    NoAuction = NoAuction
    NoUser = NoUser
    Merchants = {m1}
    Bidders = {b1}
    Scanners = {s1}
    BidIdAsDouble <- ExactIds
    UserIdAsDouble <- ExactUsers
    DefaultRun = 2
    Delay = 1
    BatchSize = 1
    MaxReconsume = 1
    MaxTime = 1
    Faults = {"db", "consumer"}
    MaxFaults = 1
SPECIFICATION FairSpec
CHECK_DEADLOCK FALSE
INVARIANTS OneOutcome RunningIsIndexed
PROPERTIES RunningEnds RowLearnsOutcome BidsAreRecorded FinalRowStays KeepsPromise
