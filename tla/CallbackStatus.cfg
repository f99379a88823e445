CONSTANTS
    Rooms = {r1}
    Shops = {s1}
    Calls = {c1, c2}
    NoRoom = NoRoom
    Free = Free
    MaxRoomTime = 3
SPECIFICATION RoomsSpec
CHECK_DEADLOCK FALSE
PROPERTY ShopsDecideStatus
