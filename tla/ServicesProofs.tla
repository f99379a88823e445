---------------------------- MODULE ServicesProofs ----------------------------
(* The rows of live-service and user-service and the ids of pkg/idgen, each   *)
(* for any constants, and what the composition of the four services keeps.    *)
EXTENDS Services, CatalogProofs

-----------------------------------------------------------------------------
(* live-service *)

(* What is stored tells one broadcast because what is about to be stored does: *)
(* every pending write is a row that was true when it was read.               *)
WritesTellOneBroadcast == \A c \in Calls : calls[c] # Free => TellsOneBroadcast(calls[c].row)

RoomsInv == RoomsTypeOK /\ RowsTellOneBroadcast /\ WritesTellOneBroadcast

(* A row stays well-typed while the clock goes on. *)
LEMMA RowsOutliveTicks ==
    ASSUME NEW row \in RoomRow, roomTime \in Nat, roomTime' = roomTime + 1
    PROVE  row \in RoomRow'
BY DEF RoomRow

(* Starting or ending a broadcast, and what the callbacks change of a row,    *)
(* leaves a row that tells one broadcast.                                     *)
LEMMA RowsAreEditedWell ==
    ASSUME roomTime \in 1..MaxRoomTime, RoomsAssumption,
           NEW row \in RoomRow, TellsOneBroadcast(row)
    PROVE  /\ Started(row, roomTime) \in RoomRow
           /\ TellsOneBroadcast(Started(row, roomTime))
           /\ row.status = "living" => /\ Ended(row, roomTime) \in RoomRow
                                       /\ TellsOneBroadcast(Ended(row, roomTime))
           /\ \A media \in {"online", "offline"} :
                 /\ [row EXCEPT !.media = media] \in RoomRow
                 /\ TellsOneBroadcast([row EXCEPT !.media = media])
<1>1. /\ row.start \in 0..roomTime /\ row.end \in 0..roomTime /\ roomTime \in Nat \ {0}
      /\ roomTime \in 0..roomTime /\ 0 \in 0..roomTime
      /\ row.status \in {"not_live", "living"}
    BY DEF RoomRow, RoomsAssumption
<1>2. Started(row, roomTime) \in RoomRow /\ TellsOneBroadcast(Started(row, roomTime))
    <2>1. Started(row, roomTime) \in RoomRow
        BY <1>1 DEF Started, RoomRow, Unset
    <2>2. Started(row, roomTime).start = roomTime /\ Started(row, roomTime).end = Unset
        BY DEF Started, RoomRow
    <2>3. Started(row, roomTime).status = "living"
        BY DEF Started, RoomRow
    <2> QED BY <1>1, <2>1, <2>2, <2>3 DEF TellsOneBroadcast, Unset
<1>3. ASSUME row.status = "living"
      PROVE  Ended(row, roomTime) \in RoomRow /\ TellsOneBroadcast(Ended(row, roomTime))
    <2>1. Ended(row, roomTime) \in RoomRow
        BY <1>1 DEF Ended, RoomRow
    <2>2. Ended(row, roomTime).start = row.start /\ Ended(row, roomTime).end = roomTime
        BY DEF Ended, RoomRow
    <2>3. Ended(row, roomTime).status = "not_live"
        BY DEF Ended, RoomRow
    <2> QED BY <1>1, <1>3, <2>1, <2>2, <2>3 DEF TellsOneBroadcast, Unset
<1>4. ASSUME NEW media \in {"online", "offline"}
      PROVE  [row EXCEPT !.media = media] \in RoomRow /\ TellsOneBroadcast([row EXCEPT !.media = media])
    BY <1>1 DEF RoomRow, TellsOneBroadcast, Unset
<1> QED BY <1>2, <1>3, <1>4

(* A call that decides to write a good row keeps the invariant. *)
LEMMA DecisionsKeepRoomsInv ==
    ASSUME RoomsInv, NEW c \in Calls, NEW op \in {"start", "end", "publish", "unpublish"},
           NEW r \in Rooms, NEW row \in RoomRow, TellsOneBroadcast(row), Decides(c, op, r, row)
    PROVE  RoomsInv'
<1>1. [op |-> op, room |-> r, row |-> row] \in Call
    BY DEF Call
<1>2. /\ UNCHANGED <<rooms, roomTime>>
      /\ calls' = [calls EXCEPT ![c] = [op |-> op, room |-> r, row |-> row]]
      /\ calls \in [Calls -> Call \cup {Free}]
    BY DEF Decides, RoomsInv, RoomsTypeOK
<1>3. Call' = Call /\ RoomRow' = RoomRow
    BY <1>2 DEF Call, RoomRow
<1>4. RoomsTypeOK'
    BY <1>1, <1>2, <1>3 DEF RoomsInv, RoomsTypeOK
<1>5. RowsTellOneBroadcast'
    BY <1>2 DEF RoomsInv, RowsTellOneBroadcast
<1>6. WritesTellOneBroadcast'
    <2> SUFFICES ASSUME NEW d \in Calls, calls'[d] # Free PROVE TellsOneBroadcast(calls'[d].row)
        BY DEF WritesTellOneBroadcast
    <2>1. CASE d = c  BY <2>1, <1>2
    <2>2. CASE d # c  BY <2>2, <1>2 DEF RoomsInv, WritesTellOneBroadcast
    <2> QED BY <2>1, <2>2
<1> QED BY <1>4, <1>5, <1>6 DEF RoomsInv

(* Every row read tells one broadcast and is well-typed. *)
LEMMA RoomsReadAreGood ==
    ASSUME RoomsInv, NEW r \in Rooms, rooms[r] # NoRoom
    PROVE  rooms[r] \in RoomRow /\ TellsOneBroadcast(rooms[r])
BY DEF RoomsInv, RoomsTypeOK, RowsTellOneBroadcast

LEMMA RoomsStartInInv ==
    ASSUME RoomsInit PROVE RoomsInv
BY RoomsAssumption DEF RoomsInit, RoomsInv, RoomsTypeOK, RowsTellOneBroadcast, WritesTellOneBroadcast,
       RoomsAssumption

LEMMA RoomStepsKeepInv ==
    ASSUME RoomsInv, [RoomsNext]_roomsVars
    PROVE  RoomsInv'
<1> USE RoomsAssumption
<1>1. roomTime \in 1..MaxRoomTime /\ roomTime \in Nat
    BY DEF RoomsInv, RoomsTypeOK, RoomsAssumption
<1>2. ASSUME NEW r \in Rooms, NEW shop \in Shops, CreateLiveRoom(r, shop)
      PROVE  RoomsInv'
    <2>1. NewRoom(shop) \in RoomRow /\ TellsOneBroadcast(NewRoom(shop))
        BY <1>1 DEF NewRoom, RoomRow, TellsOneBroadcast, Unset
    <2>2. UNCHANGED <<calls, roomTime>> /\ rooms' = [rooms EXCEPT ![r] = NewRoom(shop)]
        BY <1>2 DEF CreateLiveRoom
    <2>3. Call' = Call /\ RoomRow' = RoomRow
        BY <2>2 DEF Call, RoomRow
    <2>4. RoomsTypeOK'
        BY <2>1, <2>2, <2>3 DEF RoomsInv, RoomsTypeOK
    <2>5. RowsTellOneBroadcast'
        <3> SUFFICES ASSUME NEW q \in Rooms, rooms'[q] # NoRoom PROVE TellsOneBroadcast(rooms'[q])
            BY DEF RowsTellOneBroadcast
        <3>1. CASE q = r  BY <3>1, <2>1, <2>2 DEF RoomsInv, RoomsTypeOK
        <3>2. CASE q # r  BY <3>2, <2>2 DEF RoomsInv, RoomsTypeOK, RowsTellOneBroadcast
        <3> QED BY <3>1, <3>2
    <2>6. WritesTellOneBroadcast'
        BY <2>2 DEF RoomsInv, WritesTellOneBroadcast
    <2> QED BY <2>4, <2>5, <2>6 DEF RoomsInv
<1>3. ASSUME NEW c \in Calls, NEW r \in Rooms, NEW shop \in Shops, StartLive(c, r, shop)
      PROVE  RoomsInv'
    <2>1. rooms[r] \in RoomRow /\ TellsOneBroadcast(rooms[r])
        BY <1>3, RoomsReadAreGood DEF StartLive, Owns
    <2> QED BY <1>1, <1>3, <2>1, RowsAreEditedWell, DecisionsKeepRoomsInv DEF StartLive
<1>4. ASSUME NEW c \in Calls, NEW r \in Rooms, NEW shop \in Shops, EndLive(c, r, shop)
      PROVE  RoomsInv'
    <2>1. rooms[r] \in RoomRow /\ TellsOneBroadcast(rooms[r])
        BY <1>4, RoomsReadAreGood DEF EndLive, Owns
    <2> QED BY <1>1, <1>4, <2>1, RowsAreEditedWell, DecisionsKeepRoomsInv DEF EndLive
<1>5. ASSUME NEW c \in Calls, NEW r \in Rooms, HandleSRSPublishCallback(c, r)
      PROVE  RoomsInv'
    <2>1. rooms[r] \in RoomRow /\ TellsOneBroadcast(rooms[r])
        BY <1>5, RoomsReadAreGood DEF HandleSRSPublishCallback
    <2> QED BY <1>1, <1>5, <2>1, RowsAreEditedWell, DecisionsKeepRoomsInv DEF HandleSRSPublishCallback
<1>6. ASSUME NEW c \in Calls, NEW r \in Rooms, HandleSRSUnpublishCallback(c, r)
      PROVE  RoomsInv'
    <2>1. rooms[r] \in RoomRow /\ TellsOneBroadcast(rooms[r])
        BY <1>6, RoomsReadAreGood DEF HandleSRSUnpublishCallback
    <2> QED BY <1>1, <1>6, <2>1, RowsAreEditedWell, DecisionsKeepRoomsInv DEF HandleSRSUnpublishCallback
<1>7. ASSUME NEW c \in Calls, Update(c)
      PROVE  RoomsInv'
    <2>1. /\ calls[c] \in Call /\ TellsOneBroadcast(calls[c].row) /\ UNCHANGED roomTime
          /\ rooms' = [rooms EXCEPT ![calls[c].room] = calls[c].row]
          /\ calls' = [calls EXCEPT ![c] = Free]
        BY <1>7 DEF Update, RoomsInv, RoomsTypeOK, WritesTellOneBroadcast
    <2>2. calls[c].room \in Rooms /\ calls[c].row \in RoomRow
        BY <2>1 DEF Call
    <2>3. Call' = Call /\ RoomRow' = RoomRow
        BY <2>1 DEF Call, RoomRow
    <2>4. RoomsTypeOK'
        BY <2>1, <2>2, <2>3 DEF RoomsInv, RoomsTypeOK
    <2>5. RowsTellOneBroadcast'
        BY <2>1, <2>2 DEF RoomsInv, RoomsTypeOK, RowsTellOneBroadcast
    <2>6. WritesTellOneBroadcast'
        BY <2>1 DEF RoomsInv, RoomsTypeOK, WritesTellOneBroadcast
    <2> QED BY <2>4, <2>5, <2>6 DEF RoomsInv
<1>8. ASSUME NEW c \in Calls, UpdateFails(c)
      PROVE  RoomsInv'
    <2>1. UNCHANGED <<rooms, roomTime>> /\ calls' = [calls EXCEPT ![c] = Free]
        BY <1>8 DEF UpdateFails
    <2>2. Call' = Call /\ RoomRow' = RoomRow
        BY <2>1 DEF Call, RoomRow
    <2> QED BY <2>1, <2>2 DEF RoomsInv, RoomsTypeOK, RowsTellOneBroadcast, WritesTellOneBroadcast
<1>9. CASE RoomTick
    <2>1. UNCHANGED <<rooms, calls>> /\ roomTime' = roomTime + 1 /\ roomTime' \in 1..MaxRoomTime
        BY <1>1, <1>9 DEF RoomTick, RoomsAssumption
    <2>2. \A row \in RoomRow : row \in RoomRow'
        BY <1>1, <2>1, RowsOutliveTicks
    <2>3. \A call \in Call : call \in Call'
        BY <2>2 DEF Call
    <2>4. RoomsTypeOK'
        BY <2>1, <2>2, <2>3 DEF RoomsInv, RoomsTypeOK
    <2> QED BY <2>1, <2>4 DEF RoomsInv, RowsTellOneBroadcast, WritesTellOneBroadcast
<1>10. CASE UNCHANGED roomsVars
    BY <1>10 DEF roomsVars, RoomsInv, RoomsTypeOK, RowsTellOneBroadcast, WritesTellOneBroadcast,
           Call, RoomRow
<1> QED BY <1>2, <1>3, <1>4, <1>5, <1>6, <1>7, <1>8, <1>9, <1>10 DEF RoomsNext

LEMMA RoomsInvHolds == RoomsSpec => []RoomsInv
<1>1. RoomsInit => RoomsInv
    BY RoomsStartInInv
<1>2. RoomsInv /\ [RoomsNext]_roomsVars => RoomsInv'
    BY RoomStepsKeepInv
<1> QED BY <1>1, <1>2, PTL DEF RoomsSpec

(* A room's row never mixes two broadcasts, whatever starts, ends and         *)
(* callbacks of any number of calls overwrite.                                *)
THEOREM RowsNeverMixBroadcasts == RoomsSpec => []RowsTellOneBroadcast
<1>1. RoomsInv => RowsTellOneBroadcast
    BY DEF RoomsInv
<1> QED BY <1>1, RoomsInvHolds, PTL

(* Rows and the rows that calls are about to write have their times in order. *)
THEOREM RoomsTyped == RoomsSpec => []RoomsTypeOK
<1>1. RoomsInv => RoomsTypeOK
    BY DEF RoomsInv
<1> QED BY <1>1, RoomsInvHolds, PTL

-----------------------------------------------------------------------------
(* user-service: addresses *)

AddressesTypeOK ==
    /\ addresses \in [Addresses -> AddressRow \cup {NoRow}]
    /\ addressCalls \in [AddressCalls -> [address : Addresses, row : AddressRow] \cup {NoCall}]

AddressesInv == AddressesTypeOK /\ OneDefaultAddress

(* unsetDefaultAddresses leaves of the user's other addresses none that is    *)
(* the default one, and those of other users as they are.                     *)
LEMMA OthersAreUnset ==
    ASSUME NEW table \in [Addresses -> AddressRow \cup {NoRow}], NEW u, NEW keep \in Addresses
    PROVE  LET unset == UnsetDefaultAddresses(table, u, keep) IN
           /\ unset \in [Addresses -> AddressRow \cup {NoRow}]
           /\ \A a \in Addresses :
                 \/ a # keep /\ OwnerOf[a] = u /\ (unset[a] = NoRow \/ unset[a].deleted \/ ~unset[a].default)
                 \/ (a = keep \/ OwnerOf[a] # u) /\ unset[a] = table[a]
<1> DEFINE unset == UnsetDefaultAddresses(table, u, keep)
<1>1. ASSUME NEW a \in Addresses, a # keep, OwnerOf[a] = u, table[a] # NoRow, ~table[a].deleted
      PROVE  unset[a] \in AddressRow /\ ~unset[a].default
    <2>1. table[a] \in AddressRow
        BY <1>1
    <2>2. [table[a] EXCEPT !.default = FALSE] \in AddressRow /\ ~[table[a] EXCEPT !.default = FALSE].default
        BY <2>1 DEF AddressRow
    <2>3. unset[a] = [table[a] EXCEPT !.default = FALSE]
        BY <1>1 DEF UnsetDefaultAddresses
    <2> QED BY <2>2, <2>3
<1>2. ASSUME NEW a \in Addresses, ~(a # keep /\ OwnerOf[a] = u /\ table[a] # NoRow /\ ~table[a].deleted)
      PROVE  unset[a] = table[a]
    BY <1>2 DEF UnsetDefaultAddresses
<1>3. unset \in [Addresses -> AddressRow \cup {NoRow}]
    <2>1. unset = [a \in Addresses |-> unset[a]]
        BY DEF UnsetDefaultAddresses
    <2>2. \A a \in Addresses : unset[a] \in AddressRow \cup {NoRow}
        BY <1>1, <1>2
    <2> HIDE DEF unset
    <2> QED BY <2>1, <2>2
<1> QED BY <1>1, <1>2, <1>3

(* The transactions keep the invariant, whatever row they store. *)
LEMMA StoresKeepOneDefault ==
    ASSUME AddressesInv, NEW a \in Addresses, NEW row \in AddressRow, Store(a, row)
    PROVE  addresses' \in [Addresses -> AddressRow \cup {NoRow}] /\ OneDefaultAddress'
<1> DEFINE unset == UnsetDefaultAddresses(addresses, OwnerOf[a], a)
<1>1. addresses \in [Addresses -> AddressRow \cup {NoRow}]
    BY DEF AddressesInv, AddressesTypeOK
<1>2. CASE row.default
    <2>1. addresses' = [unset EXCEPT ![a] = row]
        BY <1>2 DEF Store
    <2>2. unset \in [Addresses -> AddressRow \cup {NoRow}]
        BY <1>1, OthersAreUnset
    <2>3. \A b \in Addresses \ {a} :
             IF OwnerOf[b] = OwnerOf[a]
             THEN unset[b] = NoRow \/ unset[b].deleted \/ ~unset[b].default
             ELSE unset[b] = addresses[b]
        BY <1>1, OthersAreUnset
    <2> HIDE DEF unset
    <2>4. \A b \in Addresses \ {a} : addresses'[b] = unset[b]
        BY <2>1, <2>2
    <2>5. ASSUME NEW b \in Addresses, NEW c \in Addresses,
                 Kept(b)', Kept(c)', OwnerOf[b] = OwnerOf[c],
                 addresses'[b].default, addresses'[c].default
          PROVE  b = c
        <3>1. CASE OwnerOf[b] = OwnerOf[a]
            BY <2>3, <2>4, <2>5, <3>1 DEF Kept
        <3>2. CASE OwnerOf[b] # OwnerOf[a]
            <4>1. addresses'[b] = addresses[b] /\ addresses'[c] = addresses[c]
                BY <2>3, <2>4, <2>5, <3>2
            <4> QED BY <2>5, <4>1 DEF AddressesInv, OneDefaultAddress, Kept
        <3> QED BY <3>1, <3>2
    <2>6. OneDefaultAddress'
        BY <2>5 DEF OneDefaultAddress
    <2> QED BY <2>1, <2>2, <2>6
<1>3. CASE ~row.default
    <2>1. addresses' = [addresses EXCEPT ![a] = row]
        BY <1>3 DEF Store
    <2>2. \A b \in Addresses : b = a \/ addresses'[b] = addresses[b]
        BY <1>1, <2>1
    <2>3. addresses'[a] = row
        BY <1>1, <2>1
    <2>4. OneDefaultAddress'
        BY <1>3, <2>2, <2>3 DEF AddressesInv, OneDefaultAddress, Kept
    <2> QED BY <1>1, <2>1, <2>4
<1> QED BY <1>2, <1>3

LEMMA AddressStepsKeepInv ==
    ASSUME AddressesInv, [AccountsNext]_accountsVars
    PROVE  AddressesInv'
<1>1. ASSUME UNCHANGED <<addresses, addressCalls>>
      PROVE  AddressesInv'
    BY <1>1 DEF AddressesInv, AddressesTypeOK, OneDefaultAddress, Kept
<1>2. ASSUME NEW c \in UserCalls, NEW u \in Users, NEW phone,
             UpdateCurrentUser(c, u, phone) \/ (\E name \in Names : RegisterUser(c, u, name, phone))
      PROVE  AddressesInv'
    BY <1>1, <1>2 DEF UpdateCurrentUser, RegisterUser, UserGoes
<1>3. ASSUME NEW c \in UserCalls, SaveUser(c)
      PROVE  AddressesInv'
    BY <1>1, <1>3 DEF SaveUser, UserGoes
<1>4. ASSUME NEW a \in Addresses, NEW detail \in Details, NEW default \in BOOLEAN,
             CreateAddress(a, detail, default)
      PROVE  AddressesInv'
    <2> DEFINE row == [detail |-> detail, default |-> default, deleted |-> FALSE]
    <2>1. row \in AddressRow
        BY DEF AddressRow
    <2>2. Store(a, row) /\ UNCHANGED addressCalls
        BY <1>4 DEF CreateAddress
    <2> HIDE DEF row
    <2> QED BY <2>1, <2>2, StoresKeepOneDefault DEF AddressesInv, AddressesTypeOK
<1>5. ASSUME NEW c \in AddressCalls, NEW a \in Addresses, NEW detail \in Details,
             NEW default \in BOOLEAN, UpdateAddress(c, a, detail, default)
      PROVE  AddressesInv'
    <2> DEFINE row == [addresses[a] EXCEPT !.detail = detail, !.default = default]
    <2>1. addresses[a] \in AddressRow
        BY <1>5 DEF UpdateAddress, Kept, AddressesInv, AddressesTypeOK
    <2>2. row \in AddressRow
        BY <2>1 DEF AddressRow
    <2>3. /\ UNCHANGED addresses
          /\ addressCalls' = [addressCalls EXCEPT ![c] = [address |-> a, row |-> row]]
        BY <1>5 DEF UpdateAddress
    <2> HIDE DEF row
    <2> QED BY <2>2, <2>3 DEF AddressesInv, AddressesTypeOK, OneDefaultAddress, Kept
<1>6. ASSUME NEW a \in Addresses, SetDefaultAddress(a)
      PROVE  AddressesInv'
    <2> DEFINE row == [addresses[a] EXCEPT !.default = TRUE]
    <2>1. addresses[a] \in AddressRow
        BY <1>6 DEF SetDefaultAddress, Kept, AddressesInv, AddressesTypeOK
    <2>2. row \in AddressRow
        BY <2>1 DEF AddressRow
    <2>3. Store(a, row) /\ UNCHANGED addressCalls
        BY <1>6 DEF SetDefaultAddress
    <2> HIDE DEF row
    <2> QED BY <2>2, <2>3, StoresKeepOneDefault DEF AddressesInv, AddressesTypeOK
<1>7. ASSUME NEW a \in Addresses, DeleteAddress(a)
      PROVE  AddressesInv'
    <2> DEFINE row == [addresses[a] EXCEPT !.deleted = TRUE]
    <2>1. addresses[a] \in AddressRow /\ addresses \in [Addresses -> AddressRow \cup {NoRow}]
        BY <1>7 DEF DeleteAddress, Kept, AddressesInv, AddressesTypeOK
    <2>2. row \in AddressRow /\ row.deleted
        BY <2>1 DEF AddressRow
    <2>3. addresses' = [addresses EXCEPT ![a] = row] /\ UNCHANGED addressCalls
        BY <1>7, <2>1 DEF DeleteAddress
    <2> HIDE DEF row
    <2>4. AddressesTypeOK'
        BY <2>1, <2>2, <2>3 DEF AddressesInv, AddressesTypeOK
    <2>5. \A b \in Addresses : b = a \/ addresses'[b] = addresses[b]
        BY <2>1, <2>3
    <2>6. addresses'[a].deleted
        BY <2>1, <2>2, <2>3
    <2> QED BY <2>4, <2>5, <2>6 DEF AddressesInv, OneDefaultAddress, Kept
<1>8. ASSUME NEW c \in AddressCalls, SaveAddress(c)
      PROVE  AddressesInv'
    <2>1. /\ addressCalls[c].address \in Addresses /\ addressCalls[c].row \in AddressRow
          /\ addressCalls' = [addressCalls EXCEPT ![c] = NoCall]
          /\ Store(addressCalls[c].address, addressCalls[c].row) \/ UNCHANGED addresses
        BY <1>8 DEF SaveAddress, AddressesInv, AddressesTypeOK
    <2>2. addresses' \in [Addresses -> AddressRow \cup {NoRow}] /\ OneDefaultAddress'
        BY <2>1, StoresKeepOneDefault DEF AddressesInv, AddressesTypeOK, OneDefaultAddress, Kept
    <2> QED BY <2>1, <2>2 DEF AddressesInv, AddressesTypeOK
<1>9. CASE UNCHANGED accountsVars
    BY <1>1, <1>9 DEF accountsVars
<1> QED BY <1>2, <1>3, <1>4, <1>5, <1>6, <1>7, <1>8, <1>9 DEF AccountsNext

LEMMA AddressesInvHolds == AccountsSpec => []AddressesInv
<1>1. AccountsInit => AddressesInv
    BY DEF AccountsInit, AddressesInv, AddressesTypeOK, OneDefaultAddress, Kept
<1>2. AddressesInv /\ [AccountsNext]_accountsVars => AddressesInv'
    BY AddressStepsKeepInv
<1> QED BY <1>1, <1>2, PTL DEF AccountsSpec

(* However creations, updates, switches and deletions overlap, a user has at  *)
(* most one default address.                                                  *)
THEOREM DefaultIsOne == AccountsSpec => []OneDefaultAddress
<1>1. AddressesInv => OneDefaultAddress
    BY DEF AddressesInv
<1> QED BY <1>1, AddressesInvHolds, PTL

-----------------------------------------------------------------------------
(* user-service: users. *)

UsersTypeOK ==
    /\ users \in [Users -> UserRow \cup {NoRow}]
    /\ userCalls \in [UserCalls -> [user : Users, row : UserRow] \cup {NoCall}]

(* Any number of user requests at once keep the types. *)
LEMMA UserStepsKeepTypes ==
    ASSUME UsersTypeOK, [AccountsNext]_accountsVars
    PROVE  UsersTypeOK'
<1>1. ASSUME UNCHANGED <<users, userCalls>>
      PROVE  UsersTypeOK'
    BY <1>1 DEF UsersTypeOK
<1>2. ASSUME NEW c \in UserCalls, NEW u \in Users, NEW row \in UserRow, UNCHANGED users,
             userCalls' = [userCalls EXCEPT ![c] = [user |-> u, row |-> row]]
      PROVE  UsersTypeOK'
    BY <1>2 DEF UsersTypeOK
<1>3. ASSUME NEW c \in UserCalls, NEW u \in Users, NEW phone \in Phones \cup {NoPhone},
             UpdateCurrentUser(c, u, phone)
      PROVE  UsersTypeOK'
    <2>1. users[u] \in UserRow
        BY <1>3 DEF UpdateCurrentUser, UsersTypeOK
    <2>2. [users[u] EXCEPT !.phone = phone] \in UserRow
        BY <2>1 DEF UserRow
    <2> QED BY <1>2, <1>3, <2>2 DEF UpdateCurrentUser, UserGoes
<1>4. ASSUME NEW c \in UserCalls, NEW u \in Users, NEW phone \in Phones \cup {NoPhone},
             NEW name \in Names, RegisterUser(c, u, name, phone)
      PROVE  UsersTypeOK'
    <2>1. [name |-> name, phone |-> phone] \in UserRow
        BY DEF UserRow
    <2> QED BY <1>2, <1>4, <2>1 DEF RegisterUser, UserGoes
<1>5. ASSUME NEW c \in UserCalls, SaveUser(c)
      PROVE  UsersTypeOK'
    <2>1. userCalls[c].user \in Users /\ userCalls[c].row \in UserRow
        BY <1>5 DEF SaveUser, UsersTypeOK
    <2> QED BY <1>5, <2>1 DEF SaveUser, UserGoes, UsersTypeOK
<1>6. ASSUME NEW a \in Addresses,
             \/ SetDefaultAddress(a) \/ DeleteAddress(a)
             \/ \E detail \in Details, default \in BOOLEAN :
                   CreateAddress(a, detail, default)
                   \/ \E c \in AddressCalls : UpdateAddress(c, a, detail, default)
      PROVE  UsersTypeOK'
    BY <1>1, <1>6 DEF SetDefaultAddress, DeleteAddress, CreateAddress, UpdateAddress
<1>7. ASSUME NEW c \in AddressCalls, SaveAddress(c)
      PROVE  UsersTypeOK'
    BY <1>1, <1>7 DEF SaveAddress
<1>8. CASE UNCHANGED accountsVars
    BY <1>1, <1>8 DEF accountsVars
<1> QED BY <1>3, <1>4, <1>5, <1>6, <1>7, <1>8 DEF AccountsNext

(* Profiles, addresses and the rows requests carry between their statements.  *)
THEOREM AccountsTyped == AccountsSpec => []AccountsTypeOK
<1>1. AccountsInit => UsersTypeOK
    BY DEF AccountsInit, UsersTypeOK
<1>2. UsersTypeOK /\ [AccountsNext]_accountsVars => UsersTypeOK'
    BY UserStepsKeepTypes
<1>3. UsersTypeOK /\ AddressesInv => AccountsTypeOK
    BY DEF UsersTypeOK, AddressesInv, AddressesTypeOK, AccountsTypeOK
<1> QED BY <1>1, <1>2, <1>3, AddressesInvHolds, PTL DEF AccountsSpec

-----------------------------------------------------------------------------
(* pkg/idgen: bit fields do not overlap. *)

LEMMA Distribute ==
    ASSUME NEW n \in Nat, NEW a \in Nat, NEW d \in Nat
    PROVE  (a + d) * n = a * n + d * n /\ d * n \in Nat
BY SMT

LEMMA SmallerPacksSmaller ==
    ASSUME NEW n \in Nat \ {0}, NEW a \in Nat, NEW b \in Nat, a < b,
           NEW x \in 0..(n - 1), NEW y \in 0..(n - 1)
    PROVE  a * n + x < b * n + y
<1> DEFINE d == b - (a + 1)
<1>1. d \in Nat /\ b = (a + 1) + d /\ a + 1 \in Nat
    OBVIOUS
<1>2. b * n = (a + 1) * n + d * n /\ d * n \in Nat
    <2> HIDE DEF d
    <2> QED BY <1>1, Distribute
<1>3. (a + 1) * n = a * n + 1 * n /\ 1 * n = n
    BY Distribute
<1>4. a * n \in Nat
    BY Distribute
<1> HIDE DEF d
<1> QED BY <1>2, <1>3, <1>4

LEMMA PackingIsInjective ==
    ASSUME NEW n \in Nat \ {0}, NEW a \in Nat, NEW b \in Nat,
           NEW x \in 0..(n - 1), NEW y \in 0..(n - 1), a * n + x = b * n + y
    PROVE  a = b /\ x = y
<1>1. a * n + x \in Nat /\ b * n + y \in Nat
    BY Distribute
<1>2. ~(a < b) /\ ~(b < a)
    BY <1>1, SmallerPacksSmaller
<1>3. a = b
    BY <1>2
<1> QED BY <1>3, Distribute

LEMMA IdsAreInjective ==
    ASSUME NEW t1 \in Nat, NEW t2 \in Nat, NEW w1 \in Workers, NEW w2 \in Workers,
           NEW s1 \in 0..(Sequences - 1), NEW s2 \in 0..(Sequences - 1),
           Id(t1, w1, s1) = Id(t2, w2, s2)
    PROVE  t1 = t2 /\ w1 = w2 /\ s1 = s2
<1> USE IdGenAssumption DEF IdGenAssumption
<1> DEFINE p1 == t1 * WorkerIds + w1
           p2 == t2 * WorkerIds + w2
<1>1. w1 \in 0..(WorkerIds - 1) /\ w2 \in 0..(WorkerIds - 1)
    OBVIOUS
<1>2. p1 \in Nat /\ p2 \in Nat
    BY <1>1, Distribute
<1>3. p1 * Sequences + s1 = p2 * Sequences + s2
    BY DEF Id
<1>4. p1 = p2 /\ s1 = s2
    <2> HIDE DEF p1, p2
    <2> QED BY <1>2, <1>3, PackingIsInjective
<1>5. t1 = t2 /\ w1 = w2
    BY <1>1, <1>4, PackingIsInjective
<1> QED BY <1>4, <1>5

-----------------------------------------------------------------------------
(* The types, without the bound on the clock. *)
ClocksTypeOK ==
    /\ generators \in [Workers -> [last : Nat, sequence : 0..(Sequences - 1)]]
    /\ milli \in Nat \ {0}
    /\ restarted \subseteq Workers
    /\ handedOut \in Nat

(* The generator of w will not hand out (t, w, s) again: it is past it, or it *)
(* started anew with the clock past it, which it will not be set back from.   *)
Spent(t, w, s) ==
    \/ t < generators[w].last
    \/ t = generators[w].last /\ s <= generators[w].sequence
    \/ w \in restarted /\ t < milli

AllSpent ==
    \A i \in ids : \E t \in Nat, w \in Workers, s \in 0..(Sequences - 1) :
        i = Id(t, w, s) /\ Spent(t, w, s)

IdsInv == ClocksTypeOK /\ AllSpent /\ IsFiniteSet(ids) /\ IdsNeverRepeat

LEMMA IdsStartInInv ==
    ASSUME IdsInit PROVE IdsInv
BY IdGenAssumption, FS_EmptySet
   DEF IdsInit, IdsInv, New, ClocksTypeOK, AllSpent, IdsNeverRepeat, IdGenAssumption

(* Steps that leave every spent id spent and issue none. *)
LEMMA QuietStepsKeepIdsInv ==
    ASSUME IdsInv, ClocksTypeOK', UNCHANGED <<ids, handedOut>>,
           \A t \in Nat, w \in Workers, s \in 0..(Sequences - 1) : Spent(t, w, s) => Spent(t, w, s)'
    PROVE  IdsInv'
BY DEF IdsInv, AllSpent, IdsNeverRepeat, Id

(* What a generator hands out is new, and spent from then on. *)
LEMMA NextIsNew ==
    ASSUME IdsInv, NEW w \in Workers, NextId(w)
    PROVE  IdsInv'
<1> DEFINE g == generators[w]
<1>1. PICK t \in Nat, s \in 0..(Sequences - 1) :
         /\ ~Spent(t, w, s)
         /\ g.last < t \/ (g.last = t /\ g.sequence <= s)
         /\ generators' = [generators EXCEPT ![w] = [last |-> t, sequence |-> s]]
         /\ ids' = ids \cup {Id(t, w, s)}
         /\ handedOut' = handedOut + 1
         /\ UNCHANGED <<milli, restarted>>
    <2>0. /\ g.last \in Nat /\ g.sequence \in 0..(Sequences - 1) /\ milli \in Nat
          /\ Sequences \in Nat \ {0}
        BY IdGenAssumption DEF IdsInv, ClocksTypeOK, IdGenAssumption
    <2>1. CASE Now(w) # g.last /\ Issue(w, Now(w), 0)
        <3>1. Now(w) = milli /\ g.last < milli
            BY <2>0, <2>1 DEF Now
        <3>2. 0 \in 0..(Sequences - 1) /\ ~Spent(milli, w, 0)
            BY <2>0, <3>1 DEF Spent
        <3>3. Issue(w, milli, 0)
            BY <2>1, <3>1
        <3> USE <2>0, <3>2
        <3> WITNESS milli \in Nat, 0 \in 0..(Sequences - 1)
        <3>4. g.last < milli
            BY <3>1
        <3>5. /\ generators' = [generators EXCEPT ![w] = [last |-> milli, sequence |-> 0]]
              /\ ids' = ids \cup {Id(milli, w, 0)}
              /\ handedOut' = handedOut + 1 /\ UNCHANGED <<milli, restarted>>
            BY <3>3 DEF Issue
        <3> QED BY <3>4, <3>5, Zenon
    <2>2. CASE Now(w) = g.last /\ ~Wraps(g.sequence) /\ Issue(w, Now(w), g.sequence + 1)
        <3>1. milli <= g.last
            BY <2>0, <2>2 DEF Now
        <3>2. g.sequence + 1 \in 0..(Sequences - 1)
            BY <2>0, <2>2 DEF Wraps
        <3>3. ~Spent(g.last, w, g.sequence + 1)
            BY <2>0, <3>1 DEF Spent
        <3>4. Issue(w, g.last, g.sequence + 1)
            BY <2>2
        <3>5. g.last = g.last /\ g.sequence <= g.sequence + 1
            BY <2>0
        <3> USE <2>0, <3>2
        <3> WITNESS g.last \in Nat, g.sequence + 1 \in 0..(Sequences - 1)
        <3> QED BY <3>3, <3>4, <3>5 DEF Issue
    <2> QED BY <2>1, <2>2 DEF NextId
<1>2. ClocksTypeOK'
    BY <1>1 DEF IdsInv, ClocksTypeOK
<1>3. generators'[w] = [last |-> t, sequence |-> s] /\ \A v \in Workers \ {w} : generators'[v] = generators[v]
    BY <1>1 DEF IdsInv, ClocksTypeOK
<1>4. ASSUME NEW t1 \in Nat, NEW w1 \in Workers, NEW s1 \in 0..(Sequences - 1), Spent(t1, w1, s1)
      PROVE  Spent(t1, w1, s1)'
    <2>1. CASE w1 = w
        <3>1. generators'[w].last = t /\ generators'[w].sequence = s
            BY <1>3
        <3>2. g.last \in Nat /\ g.sequence \in 0..(Sequences - 1) /\ Sequences \in Nat \ {0}
            BY IdGenAssumption DEF IdsInv, ClocksTypeOK, IdGenAssumption
        <3> QED BY <1>1, <1>4, <2>1, <3>1, <3>2 DEF Spent
    <2>2. CASE w1 # w
        BY <1>1, <1>3, <1>4, <2>2 DEF Spent
    <2> QED BY <2>1, <2>2
<1>5. Spent(t, w, s)'
    BY <1>3 DEF Spent
<1>6. AllSpent'
    BY <1>1, <1>4, <1>5 DEF IdsInv, AllSpent, Id
<1>7. Id(t, w, s) \notin ids
    <2> SUFFICES ASSUME Id(t, w, s) \in ids PROVE FALSE
        OBVIOUS
    <2>1. PICK t1 \in Nat, w1 \in Workers, s1 \in 0..(Sequences - 1) :
             Id(t, w, s) = Id(t1, w1, s1) /\ Spent(t1, w1, s1)
        BY DEF IdsInv, AllSpent
    <2>2. t1 = t /\ w1 = w /\ s1 = s
        BY <2>1, IdsAreInjective
    <2> QED BY <1>1, <2>1, <2>2
<1>8. IsFiniteSet(ids)' /\ IdsNeverRepeat'
    BY <1>1, <1>7, FS_AddElement DEF IdsInv, IdsNeverRepeat
<1> QED BY <1>2, <1>6, <1>8 DEF IdsInv

LEMMA IdStepsKeepInv ==
    ASSUME IdsInv, [IdsNext]_idVars
    PROVE  IdsInv'
<1>1. milli \in Nat \ {0} /\ \A w \in Workers : generators[w].last \in Nat
    BY DEF IdsInv, ClocksTypeOK
<1>2. ASSUME NEW w \in Workers, Restart(w)
      PROVE  IdsInv'
    <2>1. /\ generators' = [generators EXCEPT ![w] = New] /\ milli > generators[w].last
          /\ restarted' = restarted \cup {w} /\ UNCHANGED <<milli, ids, handedOut>>
        BY <1>2 DEF Restart
    <2>2. ClocksTypeOK'
        BY <2>1, IdGenAssumption DEF IdsInv, ClocksTypeOK, New, IdGenAssumption
    <2>3. ASSUME NEW t \in Nat, NEW v \in Workers, NEW s \in 0..(Sequences - 1), Spent(t, v, s)
          PROVE  Spent(t, v, s)'
        <3>1. CASE v = w
            BY <1>1, <2>1, <2>3, <3>1 DEF Spent
        <3>2. CASE v # w
            BY <2>1, <2>3, <3>2 DEF Spent, IdsInv, ClocksTypeOK
        <3> QED BY <3>1, <3>2
    <2> QED BY <2>1, <2>2, <2>3, QuietStepsKeepIdsInv
<1>3. ASSUME NEW t \in 1..MaxMilli, SetBack(t)
      PROVE  IdsInv'
    <2>1. /\ restarted = {} /\ milli' = t /\ UNCHANGED <<generators, restarted, ids, handedOut>>
          /\ t \in Nat \ {0}
        BY <1>3, IdGenAssumption DEF SetBack, IdGenAssumption
    <2>2. ClocksTypeOK'
        BY <2>1 DEF IdsInv, ClocksTypeOK
    <2> QED BY <2>1, <2>2, QuietStepsKeepIdsInv DEF Spent
<1>4. CASE MilliTick
    <2>1. milli' = milli + 1 /\ UNCHANGED <<generators, restarted, ids, handedOut>>
        BY <1>4 DEF MilliTick
    <2>2. ClocksTypeOK'
        BY <1>1, <2>1 DEF IdsInv, ClocksTypeOK
    <2>3. ASSUME NEW t \in Nat, NEW v \in Workers, NEW s \in 0..(Sequences - 1), Spent(t, v, s)
          PROVE  Spent(t, v, s)'
        BY <1>1, <2>1, <2>3 DEF Spent
    <2> QED BY <2>1, <2>2, <2>3, QuietStepsKeepIdsInv
<1>5. CASE UNCHANGED idVars
    BY <1>5 DEF idVars, IdsInv, ClocksTypeOK, AllSpent, Spent, IdsNeverRepeat, Id
<1> QED BY <1>2, <1>3, <1>4, <1>5, NextIsNew DEF IdsNext

(* Whatever the bits, the workers and the clocks, no id is handed out twice.  *)
THEOREM IdsAreUnique == IdsSpec => []IdsNeverRepeat
<1>1. IdsInit => IdsInv
    BY IdsStartInInv
<1>2. IdsInv /\ [IdsNext]_idVars => IdsInv'
    BY IdStepsKeepInv
<1>3. IdsInv => IdsNeverRepeat
    BY DEF IdsInv
<1> QED BY <1>1, <1>2, <1>3, PTL DEF IdsSpec

(* Ids are natural numbers, and no generator is ahead of the clock's bound. *)
LEMMA IdsAreNumbers ==
    ASSUME NEW t \in Nat, NEW w \in Workers, NEW n \in Nat
    PROVE  Id(t, w, n) \in Nat
<1>1. WorkerIds \in Nat /\ Sequences \in Nat /\ w \in Nat
    BY IdGenAssumption DEF IdGenAssumption
<1>2. t * WorkerIds \in Nat
    BY <1>1, Distribute
<1>3. t * WorkerIds + w \in Nat
    BY <1>1, <1>2
<1>4. (t * WorkerIds + w) * Sequences \in Nat
    BY <1>1, <1>3, Distribute
<1> QED BY <1>4 DEF Id

LEMMA IdStepsKeepTypes ==
    ASSUME IdsTypeOK, [IdsNext]_idVars
    PROVE  IdsTypeOK'
<1>1. /\ Sequences \in Nat \ {0} /\ MaxMilli \in Nat \ {0} /\ milli \in 1..MaxMilli
      /\ \A w \in Workers : generators[w].last \in 0..MaxMilli
                            /\ generators[w].sequence \in 0..(Sequences - 1)
    BY IdGenAssumption DEF IdsTypeOK, IdGenAssumption
<1>2. ASSUME NEW w \in Workers, NEW t \in 0..MaxMilli, NEW n \in 0..(Sequences - 1), Issue(w, t, n)
      PROVE  IdsTypeOK'
    <2>1. Id(t, w, n) \in Nat
        BY <1>1, IdsAreNumbers
    <2>2. /\ generators' = [generators EXCEPT ![w] = [last |-> t, sequence |-> n]]
          /\ ids' = ids \cup {Id(t, w, n)} /\ handedOut' = handedOut + 1
          /\ UNCHANGED <<milli, restarted>>
        BY <1>2 DEF Issue
    <2>3. generators' \in [Workers -> [last : 0..MaxMilli, sequence : 0..(Sequences - 1)]]
        BY <2>2 DEF IdsTypeOK
    <2>4. ids \subseteq Nat /\ handedOut \in Nat
        BY DEF IdsTypeOK
    <2>5. ids' \subseteq Nat
        BY <2>1, <2>2, <2>4
    <2>6. handedOut' \in Nat
        BY <2>2, <2>4
    <2> QED BY <2>2, <2>3, <2>5, <2>6 DEF IdsTypeOK
<1>3. ASSUME NEW w \in Workers, NextId(w)
      PROVE  IdsTypeOK'
    <2>1. Now(w) \in 0..MaxMilli
        BY <1>1 DEF Now
    <2>2. 0 \in 0..(Sequences - 1)
        BY <1>1
    <2>3. ~Wraps(generators[w].sequence) => generators[w].sequence + 1 \in 0..(Sequences - 1)
        BY <1>1 DEF Wraps
    <2> QED BY <1>2, <1>3, <2>1, <2>2, <2>3 DEF NextId
<1>4. ASSUME NEW w \in Workers, Restart(w)
      PROVE  IdsTypeOK'
    <2>1. New \in [last : 0..MaxMilli, sequence : 0..(Sequences - 1)]
        BY <1>1 DEF New
    <2> QED BY <1>4, <2>1 DEF Restart, IdsTypeOK
<1>5. ASSUME NEW t \in 1..MaxMilli, SetBack(t)
      PROVE  IdsTypeOK'
    BY <1>5 DEF SetBack, IdsTypeOK
<1>6. CASE MilliTick
    BY <1>1, <1>6 DEF MilliTick, IdsTypeOK
<1>7. CASE UNCHANGED idVars
    BY <1>7 DEF idVars, IdsTypeOK
<1> QED BY <1>3, <1>4, <1>5, <1>6, <1>7 DEF IdsNext

(* A sequence number fits its bits, and ids are numbers. *)
THEOREM IdsTyped == IdsSpec => []IdsTypeOK
<1>1. IdsInit => IdsTypeOK
    BY IdGenAssumption DEF IdsInit, IdsTypeOK, New, IdGenAssumption
<1>2. IdsTypeOK /\ [IdsNext]_idVars => IdsTypeOK'
    BY IdStepsKeepTypes
<1> QED BY <1>1, <1>2, PTL DEF IdsSpec

-----------------------------------------------------------------------------
(* The composition: a step of it is a step of each service or leaves it alone. *)
LEMMA ServiceSteps ==
    ASSUME [ServicesNext]_servicesVars
    PROVE  [RoomsNext]_roomsVars /\ [CatalogNext]_catalogVars
           /\ [AccountsNext]_accountsVars /\ [IdsNext]_idVars
BY DEF ServicesNext, servicesVars

LEMMA ServicesImplementEach == ServicesSpec => RoomsSpec /\ CatalogSpec /\ AccountsSpec /\ IdsSpec
<1>1. ServicesInit => RoomsInit /\ CatalogInit /\ AccountsInit /\ IdsInit
    BY DEF ServicesInit
<1>2. [ServicesNext]_servicesVars =>
          [RoomsNext]_roomsVars /\ [CatalogNext]_catalogVars
          /\ [AccountsNext]_accountsVars /\ [IdsNext]_idVars
    BY ServiceSteps
<1> QED BY <1>1, <1>2, PTL DEF ServicesSpec, RoomsSpec, CatalogSpec, AccountsSpec, IdsSpec

(* The services keep their types whichever of them a behaviour is about. *)
THEOREM ServicesTyped == ServicesSpec => []ServicesTypeOK
<1>1. RoomsTypeOK /\ CatalogTypeOK /\ AccountsTypeOK /\ IdsTypeOK => ServicesTypeOK
    BY DEF ServicesTypeOK
<1> QED BY <1>1, ServicesImplementEach, RoomsTyped, CatalogTyped, AccountsTyped, IdsTyped, PTL
=============================================================================
