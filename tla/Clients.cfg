CONSTANTS
    c1 = c1
    e1 = e1
    e2 = e2
    w1 = w1
    w2 = w2
    Conns = {c1}
    Events = {e1, e2}
    Consumers = {w1, w2}
    QueueSize = 2
    Connected = Connected
    Answer = Answer
    Idle = Idle
    MaxDeliveries <- OneTwice
    MaxRequests = 1
    l1 = l1
    l2 = l2
    x1 = x1
    x2 = x2
    FeedRooms = {l1, l2}
    Auctions = {x1, x2}
    AuctionRoom <- MCAuctionRoom
    Opened = {x1}
    Nothing = Nothing
    MaxChanges = 3
    MaxVisits = 2
    MaxFetches = 2
    MaxLists = 1
    MaxFailures = 1
SPECIFICATION ClientsSpec
CHECK_DEADLOCK FALSE
INVARIANTS ClientsTypeOK NoGaps GreetedAreReached OncePerEvent QuietPageIsCurrent ShowsItsRoom
PROPERTY ClosedLeaves
