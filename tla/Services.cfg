CONSTANTS
    Rooms = {r1}
    Shops = {s1}
    Calls = {c1, c2}
    NoRoom = NoRoom
    Free = Free
    MaxRoomTime = 4
    Goods = {1, 2}
    Texts = {"x", "y"}
    Matching = {"x"}
    Editors = {e1}
    NoGoods = NoGoods
    Unread = Unread
    PageSize = 1
    Users = {u1, u2}
    Names = {"n1", "n2"}
    Phones = {"p1"}
    NoPhone = NoPhone
    Addresses = {a1, a2, a3}
    OwnerOf <- MCOwnerOf
    Details = {"d"}
    UserCalls = {k1}
    AddressCalls = {k1, k2}
    NoRow = NoRow
    NoCall = NoCall
    Workers = {0, 1}
    WorkerIds = 2
    Sequences = 2
    MaxMilli = 4
    u1 = u1
    u2 = u2
    a1 = a1
    a2 = a2
    a3 = a3
SPECIFICATION ServicesSpec
CHECK_DEADLOCK FALSE
INVARIANTS
    ServicesTypeOK
    RowsTellOneBroadcast
    LastWordStands
    MissesAreExplained
    OneDefaultAddress
    IdsNeverRepeat
PROPERTY ListsEnd
