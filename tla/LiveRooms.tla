------------------------------ MODULE LiveRooms ------------------------------
(* live-service: a shop's requests and the callbacks of SRS on rows of the    *)
(* live_room table.  Every handler reads a whole row, decides by it, and      *)
(* writes every column of it back: between the two, others read and write.    *)
EXTENDS Naturals

CONSTANTS
    Rooms,        \* live room ids
    Shops,
    Calls,        \* requests and callbacks served at the same time
    NoRoom,       \* no row yet
    Free,         \* a call slot that serves nothing
    MaxRoomTime   \* bound: the clock stops here

ASSUME RoomsAssumption == MaxRoomTime \in Nat \ {0}

VARIABLES
    rooms,     \* the live_room table
    calls,     \* what each call is about to write
    roomTime   \* the service's clock, from 1: time 0 is a NULL column

roomsVars == <<rooms, calls, roomTime>>

Unset == 0

(* actual_start_time and actual_end_time are NULL until the first broadcast.  *)
NewRoom(shop) ==
    [shop |-> shop, status |-> "not_live", media |-> "offline", start |-> Unset, end |-> Unset]

RoomsInit ==
    /\ rooms = [r \in Rooms |-> NoRoom]
    /\ calls = [c \in Calls |-> Free]
    /\ roomTime = 1

-----------------------------------------------------------------------------
(* An INSERT under new ids.  Rooms are never deleted. *)
CreateLiveRoom(r, shop) ==
    /\ rooms[r] = NoRoom
    /\ rooms' = [rooms EXCEPT ![r] = NewRoom(shop)]
    /\ UNCHANGED <<calls, roomTime>>

(* The call has read the row and made its decision; what it will write.       *)
Decides(c, op, r, row) ==
    /\ calls[c] = Free
    /\ calls' = [calls EXCEPT ![c] = [op |-> op, room |-> r, row |-> row]]
    /\ UNCHANGED <<rooms, roomTime>>

(* findOwnedRoom: other shops are refused, which is no step. *)
Owns(shop, r) == rooms[r] # NoRoom /\ rooms[r].shop = shop

(* Mutant of Started: the end of the last broadcast is kept. *)
StartedKeepsEnd(row, now) == [row EXCEPT !.status = "living", !.start = now]

Started(row, now) == [row EXCEPT !.status = "living", !.start = now, !.end = Unset]

Ended(row, now) == [row EXCEPT !.status = "not_live", !.end = now]

(* A room that is living already is an idempotent success without a write.    *)
StartLive(c, r, shop) ==
    /\ Owns(shop, r) /\ rooms[r].status = "not_live"
    /\ Decides(c, "start", r, Started(rooms[r], roomTime))

EndLive(c, r, shop) ==
    /\ Owns(shop, r) /\ rooms[r].status = "living"
    /\ Decides(c, "end", r, Ended(rooms[r], roomTime))

(* on_publish with the room's stream code; any other code is refused.         *)
HandleSRSPublishCallback(c, r) ==
    /\ rooms[r] # NoRoom /\ rooms[r].status = "living"
    /\ Decides(c, "publish", r, [rooms[r] EXCEPT !.media = "online"])

(* on_unpublish asks neither for a code nor for a status.                     *)
HandleSRSUnpublishCallback(c, r) ==
    /\ rooms[r] # NoRoom
    /\ Decides(c, "unpublish", r, [rooms[r] EXCEPT !.media = "offline"])

(* GormLiveRoomRepository.Update: all columns, whatever the row is by now.    *)
Update(c) ==
    /\ calls[c] # Free
    /\ rooms' = [rooms EXCEPT ![calls[c].room] = calls[c].row]
    /\ calls' = [calls EXCEPT ![c] = Free]
    /\ UNCHANGED roomTime

(* The database refuses, or the gateway's timeout cancels the call.           *)
UpdateFails(c) ==
    /\ calls[c] # Free
    /\ calls' = [calls EXCEPT ![c] = Free]
    /\ UNCHANGED <<rooms, roomTime>>

RoomTick ==
    /\ roomTime < MaxRoomTime
    /\ roomTime' = roomTime + 1
    /\ UNCHANGED <<rooms, calls>>

RoomsNext ==
    \/ \E r \in Rooms, shop \in Shops : CreateLiveRoom(r, shop)
    \/ \E c \in Calls, r \in Rooms, shop \in Shops : StartLive(c, r, shop) \/ EndLive(c, r, shop)
    \/ \E c \in Calls, r \in Rooms : HandleSRSPublishCallback(c, r) \/ HandleSRSUnpublishCallback(c, r)
    \/ \E c \in Calls : Update(c) \/ UpdateFails(c)
    \/ RoomTick

RoomsSpec == RoomsInit /\ [][RoomsNext]_roomsVars

-----------------------------------------------------------------------------
RoomRow == [shop : Shops, status : {"not_live", "living"}, media : {"offline", "online"},
            start : 0..roomTime, end : 0..roomTime]

Call == [op : {"start", "end", "publish", "unpublish"}, room : Rooms, row : RoomRow]

RoomsTypeOK ==
    /\ roomTime \in 1..MaxRoomTime
    /\ rooms \in [Rooms -> RoomRow \cup {NoRoom}]
    /\ calls \in [Calls -> Call \cup {Free}]

(* What status and times say of a broadcast: one that is on has begun and has *)
(* not ended, one that is over ended after it began.                          *)
TellsOneBroadcast(row) ==
    /\ row.status = "living" => row.start # Unset /\ row.end = Unset
    /\ row.status = "not_live" => IF row.start = Unset THEN row.end = Unset
                                                       ELSE row.end # Unset /\ row.start <= row.end

(* However starts, ends and callbacks overwrite each other's rows, a row      *)
(* never mixes two broadcasts: what is stored was true together at some time. *)
RowsTellOneBroadcast == \A r \in Rooms : rooms[r] # NoRoom => TellsOneBroadcast(rooms[r])

(* "on_unpublish ... does not end the live room" (docs/services/live-service/ *)
(* srs.md:121): a broadcast begins and ends by a shop's request only.  A      *)
(* callback writes back the status it read, and so ends a broadcast that      *)
(* began, or revives one that ended, in between.                              *)
ShopsDecideStatus ==
    [][\A r \in Rooms :
          rooms[r] # NoRoom /\ rooms'[r].status # rooms[r].status =>
              \E c \in Calls : /\ calls[c] # Free /\ calls'[c] = Free
                               /\ calls[c].room = r /\ calls[c].op \in {"start", "end"}]_roomsVars
=============================================================================
