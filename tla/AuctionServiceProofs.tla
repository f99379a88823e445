------------------------- MODULE AuctionServiceProofs -------------------------
(* What holds of the service whatever fails and however many bidders and      *)
(* scanners there are: its types; that it changes Redis by the steps of       *)
(* RedisState only; that the row mirrors Redis, with what that gives of       *)
(* outcomes and rules; settled auctions, accepted bids, rooms, the expire     *)
(* index and the bid records; and that clients are shown what AuctionPromise  *)
(* says.  What a second load of an auction breaks is proved for one merchant  *)
(* at a time (OneAtATime), all the rest for any number of them.               *)
EXTENDS AuctionService, RedisStateProofs, FiniteSetTheorems

USE ServiceAssumption

(* The theorems are about any clock reading and any rules a row may hold.     *)
AnyArguments == Times = Nat /\ Rules = RuleType

-----------------------------------------------------------------------------
(* What workers and messages hold. *)

DoubleIds == {BidIdAsDouble[n] : n \in Nat}

RuleWork == [pc : {"update", "start_check", "start_load"}, auction : Auctions, rule : RuleType]
SnapWork == [pc : {"start_save", "publish_last", "cancel_save", "publish_final", "save_final"},
             auction : Auctions, snap : Snapshot]
ScriptWork == [pc : {"finish_script", "cancel_script"}, auction : Auctions]

ArrivedWork == [pc : {"script"}, auction : Auctions, now : Nat]
BidWork == [pc : {"record", "publish", "publish_delay", "save"}, auction : Auctions,
            id : DoubleIds, user : Users, snap : Snapshot, expire : Nat]

SnapshotEvents == [kind : {"snapshot"}, auction : Auctions, snap : Snapshot, tries : Nat]
BidEvents == [kind : {"bid"}, auction : Auctions, snap : Snapshot, id : DoubleIds, user : Users, tries : Nat]
ExpireChecks == [kind : {"expire"}, auction : Auctions, version : Nat, expire : Nat, due : Nat, tries : Nat]
Events == SnapshotEvents \cup BidEvents \cup ExpireChecks

RecordWork == [pc : {"record"}, msg : BidEvents]
CheckWork == [pc : {"finish", "reread"}, msg : ExpireChecks]
SaveWork == [pc : {"save", "publish"}, msg : Events, snap : Snapshot]

ReadWork == [pc : {"read"}, todo : SUBSET Auctions, now : Nat]
CandidateWork == [pc : {"remove", "reindex", "finish", "reread"}, todo : SUBSET Auctions, now : Nat,
                  auction : Auctions, version : Nat, expire : Nat]
ClosedWork == [pc : {"publish", "save"}, todo : SUBSET Auctions, now : Nat,
               auction : Auctions, snap : Snapshot]

RowsOK == db \in [Auctions -> Row]
RecordsOK == \A r \in records : r.auction \in Auctions /\ r.price \in Nat
MsgsOK == msgs \subseteq Events
MerchantsOK == merchant \in [Merchants -> {Idle} \cup RuleWork \cup SnapWork \cup ScriptWork]
BiddersOK == bidder \in [Bidders -> {Idle} \cup ArrivedWork \cup BidWork]
ConsumerOK == consumer \in {Idle} \cup RecordWork \cup CheckWork \cup SaveWork
ScannersOK == scanner \in [Scanners -> {Idle} \cup ReadWork \cup CandidateWork \cup ClosedWork]
CountersOK == clock \in 0..MaxTime /\ faults \in 0..MaxFaults /\ IsFiniteSet(accepted)

ServiceInv ==
    /\ RedisTypeOK /\ RowsOK /\ RecordsOK /\ MsgsOK /\ CountersOK
    /\ MerchantsOK /\ BiddersOK /\ ConsumerOK /\ ScannersOK

(* What a step leaves alone keeps its type. *)
LEMMA Frame ==
    ASSUME ServiceInv
    PROVE  /\ UNCHANGED redisVars => RedisTypeOK'
           /\ UNCHANGED db => RowsOK'
           /\ UNCHANGED records => RecordsOK'
           /\ UNCHANGED msgs => MsgsOK'
           /\ UNCHANGED <<clock, faults, accepted>> => CountersOK'
           /\ UNCHANGED merchant => MerchantsOK'
           /\ UNCHANGED bidder => BiddersOK'
           /\ UNCHANGED consumer => ConsumerOK'
           /\ UNCHANGED scanner => ScannersOK'
BY DEF ServiceInv, redisVars, RedisTypeOK, RowsOK, RecordsOK, MsgsOK, CountersOK,
       MerchantsOK, BiddersOK, ConsumerOK, ScannersOK

(* The fields that a worker's place in its code guarantees. *)
LEMMA MerchantHolds ==
    ASSUME ServiceInv, NEW m \in Merchants
    PROVE  /\ merchant[m].pc \in {"update", "start_check", "start_load"} => merchant[m] \in RuleWork
           /\ merchant[m].pc \in {"start_save", "publish_last", "cancel_save", "publish_final", "save_final"}
                 => merchant[m] \in SnapWork
           /\ merchant[m].pc \in {"finish_script", "cancel_script"} => merchant[m] \in ScriptWork
BY DEF ServiceInv, MerchantsOK, Idle, RuleWork, SnapWork, ScriptWork

(* What a bid request at work holds, by where it is. *)
LEMMA BidderHolds ==
    ASSUME ServiceInv, NEW b \in Bidders
    PROVE  /\ bidder[b].pc = "script" => bidder[b] \in ArrivedWork
           /\ bidder[b].pc \in {"record", "publish", "publish_delay", "save"} => bidder[b] \in BidWork
BY DEF ServiceInv, BiddersOK, Idle, ArrivedWork, BidWork

(* The same of the consumer. *)
LEMMA ConsumerHolds ==
    ASSUME ServiceInv
    PROVE  /\ consumer.pc = "record" => consumer \in RecordWork
           /\ consumer.pc \in {"finish", "reread"} => consumer \in CheckWork
           /\ consumer.pc \in {"save", "publish"} => consumer \in SaveWork
BY DEF ServiceInv, ConsumerOK, Idle, RecordWork, CheckWork, SaveWork

(* The same of a scanner. *)
LEMMA ScannerHolds ==
    ASSUME ServiceInv, NEW s \in Scanners
    PROVE  /\ scanner[s].pc = "read" => scanner[s] \in ReadWork
           /\ scanner[s].pc \in {"remove", "reindex", "finish", "reread"} => scanner[s] \in CandidateWork
           /\ scanner[s].pc \in {"publish", "save"} => scanner[s] \in ClosedWork
BY DEF ServiceInv, ScannersOK, Idle, ReadWork, CandidateWork, ClosedWork

-----------------------------------------------------------------------------
(* Shared pieces. *)

(* A hash that exists makes a snapshot. *)
LEMMA SnapshotOfHash ==
    ASSUME NEW s \in AuctionState, s.status # Absent
    PROVE  SnapOf(s) \in Snapshot
BY DEF SnapOf, Snapshot, AuctionState, Absent

(* What the closing scripts leave of an auction makes a snapshot. *)
LEMMA CloseMakesSnapshot ==
    ASSUME ServiceInv, RedisTypeOK', NEW a \in Auctions, NEW now,
           FinishAuction(a, now) \/ CancelAuction(a, now)
    PROVE  SnapOf(state'[a]) \in Snapshot
<1>1. PICK status \in Final : Close(a, status, now)
    BY OutcomeIsFinal DEF FinishAuction, CancelAuction, Final
<1>2. state'[a] = ClosedState(state[a], status, now) /\ state[a] \in AuctionState
    BY <1>1 DEF Close, ServiceInv, RedisTypeOK
<1>3. state'[a].status = status
    BY <1>2 DEF ClosedState, AuctionState
<1> QED BY <1>3, SnapshotOfHash DEF RedisTypeOK, Final, Absent, Deal, Failed, Canceled

(* UpdateStatusSnapshot keeps rows well-typed. *)
LEMMA SaveKeepsRows ==
    ASSUME RowsOK, NEW a \in Auctions, NEW snap \in Snapshot, SaveSnapshot(a, snap)
    PROVE  RowsOK'
<1> DEFINE row == [db[a] EXCEPT !.status = snap.status, !.price = snap.price,
                                !.bids = snap.bids, !.winner = snap.winner, !.version = snap.version]
<1>1. db[a] \in Row
    BY DEF RowsOK
<1>2. /\ snap.status \in {Absent, Pending, Running} \cup Final /\ snap.price \in Nat /\ snap.bids \in Nat
      /\ snap.winner \in Users \cup {NoUser} /\ snap.version \in Nat
    BY DEF Snapshot, Final
<1>3. row \in Row
    BY <1>1, <1>2 DEF Row
<1>4. db' = [db EXCEPT ![a] = row] \/ UNCHANGED db
    BY DEF SaveSnapshot, RowsOK
<1> HIDE DEF row
<1> QED BY <1>3, <1>4 DEF RowsOK

(* A failure leaves the count in its bounds. *)
LEMMA FaultIsCounted ==
    ASSUME CountersOK, NEW kind, Fault(kind), UNCHANGED <<clock, accepted>>
    PROVE  CountersOK'
BY DEF CountersOK, Fault

(* A send that may fail keeps the topic well-typed. *)
LEMMA SendKeepsTopic ==
    ASSUME MsgsOK, CountersOK, NEW event \in Events, Send(event) \/ SendFails,
           UNCHANGED <<clock, accepted>>
    PROVE  MsgsOK' /\ CountersOK'
BY FaultIsCounted DEF MsgsOK, CountersOK, Send, SendFails

(* What every step does: the types stay, and Redis changes by its scripts.    *)
Keeps == ServiceInv' /\ [RedisNext]_redisVars

(* A step of the store keeps the store's types. *)
LEMMA ScriptsKeepTypes ==
    ASSUME ServiceInv, RedisNext
    PROVE  RedisTypeOK'
BY StepKeepsType DEF ServiceInv

-----------------------------------------------------------------------------
(* Merchants. *)

(* A merchant's step that leaves Redis, records and the other workers alone.  *)
LEMMA MerchantFrame ==
    ASSUME ServiceInv, NEW m \in Merchants,
           NEW work \in {Idle} \cup RuleWork \cup SnapWork \cup ScriptWork,
           MerchantGoes(m, work), UNCHANGED <<redisVars, records>>,
           RowsOK', MsgsOK', CountersOK'
    PROVE  Keeps
<1>1. MerchantsOK'
    BY DEF MerchantGoes, ServiceInv, MerchantsOK
<1>2. UNCHANGED <<bidder, consumer, scanner>>
    BY DEF MerchantGoes
<1> QED BY <1>1, <1>2, Frame DEF Keeps, ServiceInv

(* A request that is read in and held. *)
LEMMA MerchantAsksKeeps ==
    ASSUME ServiceInv, AnyArguments, NEW m \in Merchants, MerchantAsks(m)
    PROVE  Keeps
<1>1. PICK a \in Auctions :
         \/ \E rule \in Rules : CreateAuction(m, a, rule)
         \/ UpdateRead(m, a) \/ DeleteAuction(m, a)
         \/ StartRead(m, a) \/ CancelRead(m, a) \/ FinishRead(m, a)
    BY DEF MerchantAsks
<1>2. db[a] \in Row /\ db \in [Auctions -> Row]
    BY DEF ServiceInv, RowsOK
<1>3. db[a].rule \in RuleType
    BY <1>2 DEF Row
<1>4. ASSUME NEW row \in Row, db' = [db EXCEPT ![a] = row],
             UNCHANGED <<redisVars, records, msgs, workers, clock, faults, accepted>>
      PROVE  Keeps
    <2>1. RowsOK'
        BY <1>2, <1>4 DEF RowsOK
    <2> QED BY <1>4, <2>1, Frame DEF Keeps, ServiceInv, workers
<1>5. ASSUME NEW work \in {Idle} \cup RuleWork \cup SnapWork \cup ScriptWork, MerchantGoes(m, work),
             UNCHANGED <<redisVars, db, records, msgs, clock, faults, accepted>>
      PROVE  Keeps
    BY <1>5, Frame, MerchantFrame
<1>6. ASSUME NEW rule \in Rules, CreateAuction(m, a, rule)
      PROVE  Keeps
    <2> DEFINE row == [NoRow EXCEPT !.status = Pending, !.rule = rule, !.price = rule.startPrice]
    <2>1. rule \in RuleType /\ rule.startPrice \in Nat
        BY NumbersAssumption DEF RuleType
    <2>2. NoRow \in Row
        BY DEF NoRow, Row, RuleType
    <2>3. row \in Row
        BY <2>1, <2>2 DEF Row
    <2>4. db' = [db EXCEPT ![a] = row]
        BY <1>6 DEF CreateAuction
    <2> HIDE DEF row
    <2> QED BY <1>4, <1>6, <2>3, <2>4 DEF CreateAuction
<1>7. CASE DeleteAuction(m, a)
    <2> DEFINE row == [db[a] EXCEPT !.deleted = TRUE]
    <2>1. row \in Row
        BY <1>2 DEF Row
    <2>2. db' = [db EXCEPT ![a] = row]
        BY <1>2, <1>7 DEF DeleteAuction
    <2> HIDE DEF row
    <2> QED BY <1>4, <1>7, <2>1, <2>2 DEF DeleteAuction
<1>8. CASE UpdateRead(m, a)
    <2>1. [pc |-> "update", auction |-> a, rule |-> db[a].rule] \in RuleWork
        BY <1>3 DEF RuleWork
    <2> QED BY <1>5, <1>8, <2>1 DEF UpdateRead
<1>9. CASE StartRead(m, a)
    <2>1. [pc |-> "start_check", auction |-> a, rule |-> db[a].rule] \in RuleWork
        BY <1>3 DEF RuleWork
    <2> QED BY <1>5, <1>9, <2>1 DEF StartRead
<1>10. CASE CancelRead(m, a)
    <2> DEFINE snap == [status |-> Canceled, price |-> db[a].price, bids |-> db[a].bids,
                        winner |-> db[a].winner, version |-> db[a].version + 1]
    <2>1. /\ db[a].price \in Nat /\ db[a].bids \in Nat /\ db[a].version + 1 \in Nat
          /\ db[a].winner \in Users \cup {NoUser}
        BY <1>2 DEF Row
    <2>2. snap \in Snapshot
        BY <2>1 DEF Snapshot
    <2>3. [pc |-> "cancel_save", auction |-> a, snap |-> snap] \in SnapWork
        <3> HIDE DEF snap
        <3> QED BY <2>2 DEF SnapWork
    <2>4. [pc |-> "cancel_script", auction |-> a] \in ScriptWork
        BY DEF ScriptWork
    <2> QED BY <1>5, <1>10, <2>3, <2>4 DEF CancelRead
<1>11. CASE FinishRead(m, a)
    <2>1. [pc |-> "finish_script", auction |-> a] \in ScriptWork
        BY DEF ScriptWork
    <2> QED BY <1>5, <1>11, <2>1 DEF FinishRead
<1> QED BY <1>1, <1>6, <1>7, <1>8, <1>9, <1>10, <1>11

(* Every merged row is a row of rules again: UpdatePendingConfig.             *)
LEMMA UpdateKeeps ==
    ASSUME ServiceInv, AnyArguments, NEW m \in Merchants, NEW request \in Updates, UpdateSave(m, request)
    PROVE  Keeps
<1> DEFINE work == merchant[m]
           a == work.auction
           rule == Merged(work.rule, request)
           row == [[db[a] EXCEPT !.rule = rule] EXCEPT !.price = rule.startPrice]
<1>1. work \in RuleWork
    BY MerchantHolds DEF UpdateSave
<1>2. a \in Auctions /\ work.rule \in Rules
    BY <1>1 DEF RuleWork, AnyArguments
<1>3. rule \in RuleType
    BY <1>2
<1>4. rule.startPrice \in Nat
    BY <1>3 DEF RuleType
<1>5. db \in [Auctions -> Row]
    BY DEF ServiceInv, RowsOK
<1>6. row \in Row
    <2> HIDE DEF rule
    <2> QED BY <1>2, <1>3, <1>4, <1>5 DEF Row
<1>7. db' = [db EXCEPT ![a] = row] \/ UNCHANGED db
    <2>1. db' = [db EXCEPT ![a].rule = rule, ![a].price = rule.startPrice] \/ UNCHANGED db
        BY DEF UpdateSave
    <2> HIDE DEF rule, a
    <2> QED BY <1>2, <1>5, <2>1
<1>8. RowsOK'
    <2> HIDE DEF row
    <2> QED BY <1>2, <1>5, <1>6, <1>7 DEF RowsOK
<1> QED BY <1>8, Frame, MerchantFrame DEF UpdateSave

(* A merchant's step that may save a row: the rows stay well-typed.           *)
LEMMA SavesKeep ==
    ASSUME ServiceInv, NEW a \in Auctions, NEW snap \in Snapshot, NEW kind,
           \/ SaveSnapshot(a, snap) /\ UNCHANGED faults
           \/ Fault(kind) /\ UNCHANGED db,
           UNCHANGED <<clock, accepted>>
    PROVE  RowsOK' /\ CountersOK'
<1>1. CASE SaveSnapshot(a, snap) /\ UNCHANGED faults
    BY <1>1, SaveKeepsRows, Frame DEF ServiceInv
<1>2. CASE Fault(kind) /\ UNCHANGED db
    BY <1>2, FaultIsCounted, Frame DEF ServiceInv
<1> QED BY <1>1, <1>2

(* A merchant's step that may send an event. *)
LEMMA SendsKeep ==
    ASSUME ServiceInv, NEW event \in Events, Send(event) \/ SendFails, UNCHANGED <<clock, accepted>>
    PROVE  MsgsOK' /\ CountersOK'
BY SendKeepsTopic DEF ServiceInv

(* Every further step of a merchant's request keeps the types. *)
LEMMA MerchantWorksKeeps ==
    ASSUME ServiceInv, AnyArguments, NEW m \in Merchants, MerchantWorks(m)
    PROVE  Keeps
<1> DEFINE work == merchant[m]
           a == work.auction
<1>1. ASSUME work \in SnapWork, NEW pc \in {"publish_last", "save_final"}
      PROVE  [work EXCEPT !.pc = pc] \in SnapWork
    BY <1>1 DEF SnapWork
<1>2. ASSUME work \in SnapWork
      PROVE  a \in Auctions /\ work.snap \in Snapshot /\ SnapshotEvent(a, work.snap) \in Events
    BY <1>2 DEF SnapWork, SnapshotEvent, Events, SnapshotEvents
<1>3. CASE StartCheck(m)
    <2>1. work \in RuleWork
        BY <1>3, MerchantHolds DEF StartCheck
    <2>2. [work EXCEPT !.pc = "start_load"] \in RuleWork
        BY <2>1 DEF RuleWork
    <2>3. MerchantGoes(m, [work EXCEPT !.pc = "start_load"]) \/ MerchantGoes(m, Idle)
        BY <1>3 DEF StartCheck
    <2> QED BY <1>3, <2>2, <2>3, Frame, MerchantFrame DEF StartCheck
<1>4. CASE StartSave(m)
    <2>1. work \in SnapWork
        BY <1>4, MerchantHolds DEF StartSave
    <2>2. RowsOK' /\ CountersOK'
        BY <1>2, <1>4, <2>1, SavesKeep DEF StartSave
    <2>3. MerchantGoes(m, [work EXCEPT !.pc = "publish_last"]) \/ MerchantGoes(m, Idle)
        BY <1>4 DEF StartSave
    <2> QED BY <1>1, <1>4, <2>1, <2>2, <2>3, Frame, MerchantFrame DEF StartSave
<1>5. CASE CancelSave(m)
    <2>1. work \in SnapWork
        BY <1>5, MerchantHolds DEF CancelSave
    <2>2. RowsOK' /\ CountersOK'
        BY <1>2, <1>5, <2>1, SavesKeep DEF CancelSave
    <2>3. MerchantGoes(m, [work EXCEPT !.pc = "publish_last"]) \/ MerchantGoes(m, Idle)
        BY <1>5 DEF CancelSave
    <2> QED BY <1>1, <1>5, <2>1, <2>2, <2>3, Frame, MerchantFrame DEF CancelSave
<1>6. CASE SaveFinal(m)
    <2>1. work \in SnapWork
        BY <1>6, MerchantHolds DEF SaveFinal
    <2>2. RowsOK' /\ CountersOK'
        BY <1>2, <1>6, <2>1, SavesKeep DEF SaveFinal
    <2> QED BY <1>6, <2>2, Frame, MerchantFrame DEF SaveFinal
<1>7. CASE PublishLast(m)
    <2>1. work \in SnapWork
        BY <1>7, MerchantHolds DEF PublishLast
    <2>2. MsgsOK' /\ CountersOK'
        BY <1>2, <1>7, <2>1, SendsKeep DEF PublishLast
    <2> QED BY <1>7, <2>2, Frame, MerchantFrame DEF PublishLast
<1>8. CASE PublishFinal(m)
    <2>1. work \in SnapWork
        BY <1>8, MerchantHolds DEF PublishFinal
    <2>2. MsgsOK' /\ CountersOK'
        BY <1>2, <1>8, <2>1, SendsKeep DEF PublishFinal
    <2> QED BY <1>1, <1>8, <2>1, <2>2, Frame, MerchantFrame DEF PublishFinal
<1>9. CASE StartLoad(m)
    <2>1. work \in RuleWork
        BY <1>9, MerchantHolds DEF StartLoad
    <2>2. a \in Auctions /\ work.rule \in RuleType /\ clock \in Nat
        BY <2>1 DEF RuleWork, ServiceInv, CountersOK
    <2>3. WithEnd(work.rule, clock) \in RuleType
        BY <2>2 DEF WithEnd, RuleType
    <2>4. CASE LoadAuction(a, WithEnd(work.rule, clock), clock)
               /\ MerchantGoes(m, [pc |-> "start_save", auction |-> a, snap |-> SnapOf(state'[a])])
        <3>1. RedisNext
            BY <2>2, <2>3, <2>4 DEF RedisNext, AnyArguments
        <3>2. RedisTypeOK'
            BY <3>1, ScriptsKeepTypes
        <3>3. state'[a].status = Running
            BY <2>2, <2>4 DEF LoadAuction, LoadedState, ServiceInv, RedisTypeOK
        <3>4. SnapOf(state'[a]) \in Snapshot
            BY <2>2, <3>2, <3>3, SnapshotOfHash DEF RedisTypeOK, Running, Absent
        <3>5. [pc |-> "start_save", auction |-> a, snap |-> SnapOf(state'[a])] \in SnapWork
            BY <2>2, <3>4 DEF SnapWork
        <3>6. MerchantsOK' /\ UNCHANGED <<bidder, consumer, scanner>>
            BY <2>4, <3>5 DEF MerchantGoes, ServiceInv, MerchantsOK
        <3> QED BY <1>9, <3>1, <3>2, <3>6, Frame DEF StartLoad, Keeps, ServiceInv
    <2>5. CASE MerchantGoes(m, Idle) /\ UNCHANGED redisVars
        BY <1>9, <2>5, Frame, MerchantFrame DEF StartLoad
    <2> QED BY <1>9, <2>4, <2>5 DEF StartLoad
<1>10. CASE CloseScript(m)
    <2>1. work.pc \in {"finish_script", "cancel_script"}
        BY <1>10 DEF CloseScript
    <2>2. a \in Auctions /\ clock \in Times
        BY <2>1, MerchantHolds DEF ScriptWork, ServiceInv, CountersOK, AnyArguments
    <2>3. CASE /\ FinishAuction(a, clock) \/ CancelAuction(a, clock)
               /\ MerchantGoes(m, [pc |-> "publish_final", auction |-> a, snap |-> SnapOf(state'[a])])
        <3>1. RedisNext
            BY <2>2, <2>3 DEF RedisNext
        <3>2. RedisTypeOK'
            BY <3>1, ScriptsKeepTypes
        <3>3. SnapOf(state'[a]) \in Snapshot
            BY <2>2, <2>3, <3>2, CloseMakesSnapshot
        <3>4. [pc |-> "publish_final", auction |-> a, snap |-> SnapOf(state'[a])] \in SnapWork
            BY <2>2, <3>3 DEF SnapWork
        <3>5. MerchantsOK' /\ UNCHANGED <<bidder, consumer, scanner>>
            BY <2>3, <3>4 DEF MerchantGoes, ServiceInv, MerchantsOK
        <3> QED BY <1>10, <3>1, <3>2, <3>5, Frame DEF CloseScript, Keeps, ServiceInv
    <2>4. CASE MerchantGoes(m, Idle) /\ UNCHANGED redisVars
        BY <1>10, <2>4, Frame, MerchantFrame DEF CloseScript
    <2> QED BY <1>10, <2>3, <2>4 DEF CloseScript
<1> QED BY <1>3, <1>4, <1>5, <1>6, <1>7, <1>8, <1>9, <1>10, UpdateKeeps DEF MerchantWorks

(* So does a merchant's request that stops. *)
LEMMA MerchantStopsKeeps ==
    ASSUME ServiceInv, NEW m \in Merchants, MerchantStops(m)
    PROVE  Keeps
BY FaultIsCounted, Frame, MerchantFrame DEF MerchantStops, ServiceInv

-----------------------------------------------------------------------------
(* Bidders. *)

(* A step of a bid request leaves the other workers alone. *)
LEMMA BidderFrame ==
    ASSUME ServiceInv, NEW b \in Bidders, NEW work \in {Idle} \cup ArrivedWork \cup BidWork,
           BidderGoes(b, work), UNCHANGED redisVars,
           RowsOK', RecordsOK', MsgsOK', CountersOK'
    PROVE  Keeps
<1>1. BiddersOK' /\ UNCHANGED <<merchant, consumer, scanner>>
    BY DEF BidderGoes, ServiceInv, BiddersOK
<1> QED BY <1>1, Frame DEF Keeps, ServiceInv

(* The script accepts: the handler goes on with the snapshot it left. *)
LEMMA AcceptKeeps ==
    ASSUME ServiceInv, AnyArguments, NEW b \in Bidders, NEW u \in Users, NEW p \in Prices,
           NEW req \in Requests, BidIsAccepted(b, u, p, req)
    PROVE  Keeps
<1> DEFINE a == bidder[b].auction
           now == bidder[b].now
           leader == UserIdAsDouble[u]
           id == Cardinality(accepted) + 1
           snap == SnapOf(state'[a])
           next == [pc |-> "record", auction |-> a, id |-> BidIdAsDouble[id], user |-> u,
                    snap |-> snap, expire |-> state'[a].expire]
<1>1. a \in Auctions /\ now \in Times /\ leader \in Users /\ RoomOf[a] \in Rooms
    BY BidderHolds, AuctionsAssumption DEF BidIsAccepted, ArrivedWork, AnyArguments
<1>2. AcceptBid(a, RoomOf[a], leader, p, req, now)
    BY DEF BidIsAccepted
<1>3. RedisNext
    <2> HIDE DEF a, now, leader
    <2> QED BY <1>1, <1>2 DEF RedisNext
<1>4. RedisTypeOK'
    BY <1>3, ScriptsKeepTypes
<1>5. state'[a] \in AuctionState /\ state'[a].expire \in Nat /\ state'[a].status = Running
    <2>1. state[a] \in AuctionState /\ state[a].status = Running
        BY <1>1, <1>2 DEF AcceptBid, Acceptable, ServiceInv, RedisTypeOK
    <2>2. state'[a] = BidState(state[a], leader, p, now)
        BY <1>1, <1>2 DEF AcceptBid, ServiceInv, RedisTypeOK
    <2>3. state'[a].status = Running
        BY <2>1, <2>2 DEF BidState, AuctionState
    <2> QED BY <1>1, <1>4, <2>3 DEF RedisTypeOK, AuctionState
<1>6. snap \in Snapshot
    BY <1>5, SnapshotOfHash DEF Running, Absent
<1>7. BidIdAsDouble[id] \in DoubleIds
    <2>1. id \in Nat
        BY FS_CardinalityType DEF ServiceInv, CountersOK
    <2> QED BY <2>1 DEF DoubleIds
<1>8. next \in BidWork
    <2> HIDE DEF snap, id, a
    <2> QED BY <1>1, <1>5, <1>6, <1>7 DEF BidWork
<1>9. BidderGoes(b, next)
    BY DEF BidIsAccepted
<1>10. BiddersOK' /\ UNCHANGED <<merchant, consumer, scanner>>
    <2> HIDE DEF next
    <2> QED BY <1>8, <1>9 DEF BidderGoes, ServiceInv, BiddersOK
<1>11. CountersOK'
    <2>1. IsFiniteSet(accepted')
        BY FS_AddElement DEF BidIsAccepted, ServiceInv, CountersOK
    <2> QED BY <2>1 DEF BidIsAccepted, ServiceInv, CountersOK
<1>12. UNCHANGED <<db, records, msgs>>
    BY DEF BidIsAccepted
<1> QED BY <1>3, <1>4, <1>10, <1>11, <1>12, Frame DEF Keeps, ServiceInv

(* The script refuses, with or without spending the request id.               *)
LEMMA RefuseKeeps ==
    ASSUME ServiceInv, AnyArguments, NEW b \in Bidders, NEW u \in Users, NEW p \in Prices,
           NEW req \in Requests, BidIsRefused(b, u, p, req)
    PROVE  Keeps
<1> DEFINE a == bidder[b].auction
           now == bidder[b].now
           leader == UserIdAsDouble[u]
<1>1. a \in Auctions /\ now \in Times /\ leader \in Users /\ RoomOf[a] \in Rooms
    BY BidderHolds, AuctionsAssumption DEF BidIsRefused, ArrivedWork, AnyArguments
<1>2. UNCHANGED <<db, records, msgs, clock, faults, accepted>> /\ BidderGoes(b, Idle)
    BY DEF BidIsRefused
<1>3. CASE RejectBid(a, RoomOf[a], leader, p, req, now)
    <2>1. RedisNext
        <3> HIDE DEF a, now, leader
        <3> QED BY <1>1, <1>3 DEF RedisNext
    <2>2. RedisTypeOK'
        BY <2>1, ScriptsKeepTypes
    <2>3. BiddersOK' /\ UNCHANGED <<merchant, consumer, scanner>>
        BY <1>2 DEF BidderGoes, ServiceInv, BiddersOK
    <2> QED BY <1>2, <2>1, <2>2, <2>3, Frame DEF Keeps, ServiceInv
<1>4. CASE UNCHANGED redisVars
    BY <1>2, <1>4, Frame, BidderFrame
<1> QED BY <1>3, <1>4 DEF BidIsRefused

(* Every step after a bid's script keeps the types. *)
LEMMA BidderWorksKeeps ==
    ASSUME ServiceInv, AnyArguments, NEW b \in Bidders, BidderWorks(b)
    PROVE  Keeps
<1> DEFINE work == bidder[b]
<1>1. ASSUME work \in BidWork
      PROVE  /\ work.auction \in Auctions /\ work.snap \in Snapshot /\ work.id \in DoubleIds
             /\ work.user \in Users /\ work.expire \in Nat
             /\ \A pc \in {"publish", "publish_delay", "save"} : [work EXCEPT !.pc = pc] \in BidWork
    BY <1>1 DEF BidWork
<1>2. CASE BidRecorded(b)
    <2>1. work \in BidWork
        BY <1>2, BidderHolds DEF BidRecorded
    <2>2. work.auction \in Auctions /\ work.snap.price \in Nat
        BY <1>1, <2>1 DEF Snapshot
    <2>3. RecordsOK'
        BY <1>2, <2>2 DEF BidRecorded, BidRecord, ServiceInv, RecordsOK
    <2>4. CountersOK'
        BY <1>2, FaultIsCounted, Frame DEF BidRecorded, ServiceInv
    <2>5. BidderGoes(b, [work EXCEPT !.pc = "publish"]) /\ UNCHANGED <<redisVars, db, msgs>>
        BY <1>2 DEF BidRecorded
    <2> QED BY <1>1, <2>1, <2>3, <2>4, <2>5, Frame, BidderFrame
<1>3. CASE BidPublished(b)
    <2>1. work \in BidWork
        BY <1>3, BidderHolds DEF BidPublished
    <2>2. BidEvent(work.auction, work.snap, work.id, work.user) \in Events
        BY <1>1, <2>1 DEF BidEvent, Events, BidEvents
    <2>3. MsgsOK' /\ CountersOK'
        BY <1>3, <2>2, SendsKeep DEF BidPublished
    <2>4. BidderGoes(b, [work EXCEPT !.pc = "publish_delay"]) /\ UNCHANGED <<redisVars, db, records>>
        BY <1>3 DEF BidPublished
    <2> QED BY <1>1, <2>1, <2>3, <2>4, Frame, BidderFrame
<1>4. CASE ExpireCheckPublished(b)
    <2>1. work \in BidWork
        BY <1>4, BidderHolds DEF ExpireCheckPublished
    <2>2. work.snap.version \in Nat /\ clock + Delay \in Nat
        BY <1>1, <2>1 DEF Snapshot, ServiceInv, CountersOK
    <2>3. ExpireCheck(work.auction, work.snap, work.expire) \in Events
        BY <1>1, <2>1, <2>2 DEF ExpireCheck, Events, ExpireChecks
    <2>4. MsgsOK' /\ CountersOK'
        BY <1>4, <2>3, SendsKeep DEF ExpireCheckPublished
    <2>5. BidderGoes(b, [work EXCEPT !.pc = "save"]) /\ UNCHANGED <<redisVars, db, records>>
        BY <1>4 DEF ExpireCheckPublished
    <2> QED BY <1>1, <2>1, <2>4, <2>5, Frame, BidderFrame
<1>5. CASE BidSaved(b)
    <2>1. work \in BidWork
        BY <1>5, BidderHolds DEF BidSaved
    <2>2. RowsOK' /\ CountersOK'
        BY <1>1, <1>5, <2>1, SavesKeep DEF BidSaved
    <2> QED BY <1>5, <2>2, Frame, BidderFrame DEF BidSaved
<1> QED BY <1>2, <1>3, <1>4, <1>5, AcceptKeeps, RefuseKeeps DEF BidderWorks

(* So do a bid that arrives and a bid request that stops. *)
LEMMA BidderAsksAndStopsKeeps ==
    ASSUME ServiceInv, NEW b \in Bidders, BidderAsks(b) \/ BidderStops(b)
    PROVE  Keeps
<1>1. ASSUME NEW a \in Auctions, BidArrives(b, a)
      PROVE  Keeps
    <2>1. [pc |-> "script", auction |-> a, now |-> clock] \in ArrivedWork
        BY DEF ServiceInv, CountersOK, ArrivedWork
    <2> QED BY <1>1, <2>1, Frame, BidderFrame DEF BidArrives
<1>2. CASE BidderStops(b)
    BY <1>2, FaultIsCounted, Frame, BidderFrame DEF BidderStops, ServiceInv
<1> QED BY <1>1, <1>2 DEF BidderAsks

-----------------------------------------------------------------------------
(* The consumer. *)

(* A step of the consumer leaves the other workers alone. *)
LEMMA ConsumerFrame ==
    ASSUME ServiceInv, NEW work \in {Idle} \cup RecordWork \cup CheckWork \cup SaveWork,
           ConsumerGoes(work), UNCHANGED redisVars,
           RowsOK', RecordsOK', MsgsOK', CountersOK'
    PROVE  Keeps
<1>1. ConsumerOK' /\ UNCHANGED <<merchant, bidder, scanner>>
    BY DEF ConsumerGoes, ConsumerOK
<1> QED BY <1>1, Frame DEF Keeps, ServiceInv

(* What the consumer holds of a message. *)
LEMMA ConsumerHas ==
    ASSUME ServiceInv, consumer.pc \in {"record", "finish", "reread", "save", "publish"}
    PROVE  /\ consumer.msg \in Events /\ consumer.msg.auction \in Auctions
           /\ consumer.pc \in {"save", "publish"} => consumer.snap \in Snapshot
BY ConsumerHolds DEF RecordWork, CheckWork, SaveWork, Events, SnapshotEvents, BidEvents, ExpireChecks

(* Acknowledged or delivered again, a message stays well-typed. *)
LEMMA HandsBack ==
    ASSUME ServiceInv, NEW msg \in Events, Ack(msg) \/ Retry(msg)
    PROVE  MsgsOK' /\ ConsumerGoes(Idle)
<1>1. [msg EXCEPT !.tries = @ + 1] \in Events
    BY DEF Events, SnapshotEvents, BidEvents, ExpireChecks
<1> QED BY <1>1 DEF Ack, Retry, ServiceInv, MsgsOK

(* Every step of the consumer keeps the types. *)
LEMMA ConsumerKeeps ==
    ASSUME ServiceInv, AnyArguments, Receive \/ ConsumerWorks \/ ConsumerStops
    PROVE  Keeps
<1> DEFINE msg == consumer.msg
           a == msg.auction
<1>1. CASE Receive
    <2> PICK m \in msgs :
          ConsumerGoes(
             CASE m.kind = "bid" -> [pc |-> "record", msg |-> m]
               [] m.kind = "snapshot" -> [pc |-> "save", msg |-> m, snap |-> m.snap]
               [] m.kind = "expire" -> [pc |-> "finish", msg |-> m])
        BY <1>1 DEF Receive
    <2>1. m \in Events
        BY DEF ServiceInv, MsgsOK
    <2>2. CASE m \in BidEvents
        <3>1. m.kind = "bid" /\ [pc |-> "record", msg |-> m] \in RecordWork
            BY <2>2 DEF BidEvents, RecordWork
        <3> QED BY <1>1, <3>1, Frame, ConsumerFrame DEF Receive
    <2>3. CASE m \in SnapshotEvents
        <3>1. m.kind = "snapshot" /\ [pc |-> "save", msg |-> m, snap |-> m.snap] \in SaveWork
            BY <2>1, <2>3 DEF SnapshotEvents, SaveWork
        <3> QED BY <1>1, <3>1, Frame, ConsumerFrame DEF Receive
    <2>4. CASE m \in ExpireChecks
        <3>1. m.kind = "expire" /\ [pc |-> "finish", msg |-> m] \in CheckWork
            BY <2>4 DEF ExpireChecks, CheckWork
        <3> QED BY <1>1, <3>1, Frame, ConsumerFrame DEF Receive
    <2> QED BY <2>1, <2>2, <2>3, <2>4 DEF Events
<1>2. CASE ConsumerRecords
    <2>1. consumer \in RecordWork /\ msg \in BidEvents /\ msg \in Events
        BY <1>2, ConsumerHolds DEF ConsumerRecords, RecordWork, Events
    <2>2. msg.auction \in Auctions /\ msg.snap \in Snapshot /\ msg.snap.price \in Nat
        BY <2>1 DEF BidEvents, Snapshot
    <2>3. RecordsOK'
        BY <1>2, <2>2 DEF ConsumerRecords, RecordFromEvent, BidRecord, ServiceInv, RecordsOK
    <2>4. CountersOK'
        BY <1>2, FaultIsCounted, Frame DEF ConsumerRecords, ServiceInv
    <2>5. CASE ConsumerGoes([pc |-> "save", msg |-> msg, snap |-> msg.snap]) /\ UNCHANGED msgs
        <3>1. [pc |-> "save", msg |-> msg, snap |-> msg.snap] \in SaveWork
            BY <2>1, <2>2 DEF SaveWork
        <3> QED BY <1>2, <2>3, <2>4, <2>5, <3>1, Frame, ConsumerFrame DEF ConsumerRecords
    <2>6. CASE Ack(msg) \/ Retry(msg)
        BY <1>2, <2>1, <2>3, <2>4, <2>6, HandsBack, Frame, ConsumerFrame DEF ConsumerRecords
    <2> QED BY <1>2, <2>5, <2>6 DEF ConsumerRecords
<1>3. CASE ConsumerSaves
    <2>1. msg \in Events /\ a \in Auctions /\ consumer.snap \in Snapshot
        BY <1>3, ConsumerHas DEF ConsumerSaves
    <2>2. RowsOK' /\ CountersOK'
        BY <1>3, <2>1, SavesKeep DEF ConsumerSaves
    <2>3. MsgsOK' /\ ConsumerGoes(Idle)
        BY <1>3, <2>1, HandsBack DEF ConsumerSaves
    <2> QED BY <1>3, <2>2, <2>3, Frame, ConsumerFrame DEF ConsumerSaves
<1>4. CASE ConsumerFinishes
    <2>1. consumer \in CheckWork /\ msg \in ExpireChecks /\ msg \in Events /\ a \in Auctions /\ clock \in Times
        BY <1>4, ConsumerHolds
        DEF ConsumerFinishes, CheckWork, ExpireChecks, Events, ServiceInv, CountersOK, AnyArguments
    <2>2. CASE /\ FinishExpiredAuction(a, msg.version, msg.expire, clock)
               /\ ConsumerGoes([pc |-> "publish", msg |-> msg, snap |-> SnapOf(state'[a])])
        <3>1. FinishAuction(a, clock)
            BY <2>2 DEF FinishExpiredAuction, StillExpired, FinishAuction
        <3>2. RedisNext
            <4> HIDE DEF a
            <4> QED BY <2>1, <3>1 DEF RedisNext
        <3>3. RedisTypeOK'
            BY <3>2, ScriptsKeepTypes
        <3>4. SnapOf(state'[a]) \in Snapshot
            BY <2>1, <3>1, <3>3, CloseMakesSnapshot
        <3>5. [pc |-> "publish", msg |-> msg, snap |-> SnapOf(state'[a])] \in SaveWork
            BY <2>1, <3>4 DEF SaveWork
        <3>6. ConsumerOK' /\ UNCHANGED <<merchant, bidder, scanner>>
            BY <2>2, <3>5 DEF ConsumerGoes, ConsumerOK
        <3> QED BY <1>4, <3>2, <3>3, <3>6, Frame DEF ConsumerFinishes, Keeps, ServiceInv
    <2>3. CASE ConsumerGoes([pc |-> "reread", msg |-> msg]) /\ UNCHANGED redisVars
        <3>1. [pc |-> "reread", msg |-> msg] \in CheckWork
            BY <2>1 DEF CheckWork
        <3> QED BY <1>4, <2>3, <3>1, Frame, ConsumerFrame DEF ConsumerFinishes
    <2> QED BY <1>4, <2>2, <2>3 DEF ConsumerFinishes
<1>5. CASE ConsumerRereads
    <2>1. msg \in Events /\ a \in Auctions
        BY <1>5, ConsumerHas DEF ConsumerRereads
    <2>2. CASE /\ state[a].status \in {Deal, Failed} /\ UNCHANGED msgs
               /\ ConsumerGoes([pc |-> "publish", msg |-> msg, snap |-> SnapOf(state[a])])
        <3>1. state[a] \in AuctionState /\ state[a].status # Absent
            BY <2>1, <2>2 DEF ServiceInv, RedisTypeOK, Deal, Failed, Absent
        <3>2. SnapOf(state[a]) \in Snapshot
            BY <3>1, SnapshotOfHash
        <3>3. [pc |-> "publish", msg |-> msg, snap |-> SnapOf(state[a])] \in SaveWork
            BY <2>1, <3>2 DEF SaveWork
        <3> QED BY <1>5, <2>2, <3>3, Frame, ConsumerFrame DEF ConsumerRereads
    <2>3. CASE Ack(msg)
        BY <1>5, <2>1, <2>3, HandsBack, Frame, ConsumerFrame DEF ConsumerRereads
    <2> QED BY <1>5, <2>2, <2>3 DEF ConsumerRereads
<1>6. CASE ConsumerPublishes
    <2>1. msg \in Events /\ a \in Auctions /\ consumer.snap \in Snapshot
        BY <1>6, ConsumerHas DEF ConsumerPublishes
    <2>2. UNCHANGED <<redisVars, db, records, clock, accepted>>
        BY <1>6 DEF ConsumerPublishes
    <2>3. CASE Send(SnapshotEvent(a, consumer.snap)) /\ ConsumerGoes([consumer EXCEPT !.pc = "save"])
        <3>1. SnapshotEvent(a, consumer.snap) \in Events
            BY <2>1 DEF SnapshotEvent, Events, SnapshotEvents
        <3>2. MsgsOK' /\ CountersOK'
            BY <2>2, <2>3, <3>1, SendsKeep
        <3>3. [consumer EXCEPT !.pc = "save"] \in SaveWork
            BY <1>6, ConsumerHolds DEF ConsumerPublishes, SaveWork
        <3> QED BY <2>2, <2>3, <3>2, <3>3, Frame, ConsumerFrame
    <2>4. CASE Fault("mq") /\ Retry(msg)
        <3>1. CountersOK'
            BY <2>2, <2>4, FaultIsCounted DEF ServiceInv
        <3> QED BY <2>1, <2>2, <2>4, <3>1, HandsBack, Frame, ConsumerFrame
    <2> QED BY <1>6, <2>3, <2>4 DEF ConsumerPublishes
<1>7. CASE ConsumerStops
    BY <1>7, FaultIsCounted, Frame, ConsumerFrame DEF ConsumerStops, ServiceInv
<1> QED BY <1>1, <1>2, <1>3, <1>4, <1>5, <1>6, <1>7 DEF ConsumerWorks

-----------------------------------------------------------------------------
(* Scanners. *)

(* A step of a scanner leaves the other workers alone. *)
LEMMA ScannerFrame ==
    ASSUME ServiceInv, NEW s \in Scanners, NEW work \in {Idle} \cup ReadWork \cup CandidateWork \cup ClosedWork,
           ScannerGoes(s, work), RedisTypeOK', [RedisNext]_redisVars,
           RowsOK', MsgsOK', CountersOK', UNCHANGED records
    PROVE  Keeps
<1>1. ScannersOK' /\ UNCHANGED <<merchant, bidder, consumer>>
    BY DEF ScannerGoes, ServiceInv, ScannersOK
<1> QED BY <1>1, Frame DEF Keeps, ServiceInv

(* A scanner that leaves a candidate goes to the next one or is done. *)
LEMMA ScannerMovesOn ==
    ASSUME ServiceInv, NEW s \in Scanners, NEW a, ScannerLeaves(s, a),
           scanner[s] \in ReadWork \cup CandidateWork \cup ClosedWork
    PROVE  \E work \in {Idle} \cup ReadWork : ScannerGoes(s, work)
<1> DEFINE left == scanner[s].todo \ {a}
           next == [pc |-> "read", todo |-> left, now |-> scanner[s].now]
<1>1. left \in SUBSET Auctions /\ scanner[s].now \in Nat
    BY DEF ReadWork, CandidateWork, ClosedWork
<1>2. next \in ReadWork
    <2> HIDE DEF left
    <2> QED BY <1>1 DEF ReadWork
<1>3. ScannerGoes(s, Idle) \/ ScannerGoes(s, next)
    BY DEF ScannerLeaves
<1> QED BY <1>2, <1>3

(* What a scanner holds of a candidate. *)
LEMMA ScannerHas ==
    ASSUME ServiceInv, NEW s \in Scanners,
           scanner[s].pc \in {"remove", "reindex", "finish", "reread", "publish", "save"}
    PROVE  /\ scanner[s] \in CandidateWork \cup ClosedWork
           /\ scanner[s].auction \in Auctions /\ scanner[s].todo \in SUBSET Auctions
           /\ scanner[s].now \in Nat
           /\ scanner[s].pc \in {"remove", "reindex", "finish", "reread"} =>
                 scanner[s].expire \in Nat /\ scanner[s].version \in Nat
           /\ scanner[s].pc \in {"publish", "save"} => scanner[s].snap \in Snapshot
BY ScannerHolds DEF CandidateWork, ClosedWork

(* Every step of a scanner keeps the types. *)
LEMMA ScannerKeeps ==
    ASSUME ServiceInv, AnyArguments, NEW s \in Scanners, ScannerWorks(s) \/ ScannerStops(s)
    PROVE  Keeps
<1> DEFINE work == scanner[s]
           a == work.auction
<1> USE Frame, ScannerFrame
<1>1. CASE ScanLists(s)
    <2> PICK batch \in SUBSET Candidates(clock) :
            ScannerGoes(s, [pc |-> "read", todo |-> batch, now |-> clock])
        BY <1>1 DEF ScanLists
    <2>1. [pc |-> "read", todo |-> batch, now |-> clock] \in ReadWork
        BY DEF Candidates, ServiceInv, CountersOK, ReadWork
    <2> QED BY <1>1, <2>1 DEF ScanLists, ServiceInv
<1>2. CASE ScanReads(s)
    <2> PICK c \in work.todo :
            ScannerGoes(s, [pc |-> Verdict(c, work.now), todo |-> work.todo, now |-> work.now, auction |-> c,
                            version |-> state[c].version, expire |-> state[c].expire])
        BY <1>2 DEF ScanReads
    <2>1. c \in Auctions /\ work.todo \in SUBSET Auctions /\ work.now \in Nat
        BY <1>2, ScannerHolds DEF ScanReads, ReadWork
    <2>2. state[c].version \in Nat /\ state[c].expire \in Nat
        BY <2>1 DEF ServiceInv, RedisTypeOK, AuctionState
    <2>3. Verdict(c, work.now) \in {"remove", "reindex", "finish"}
        BY DEF Verdict
    <2>4. [pc |-> Verdict(c, work.now), todo |-> work.todo, now |-> work.now, auction |-> c,
           version |-> state[c].version, expire |-> state[c].expire] \in CandidateWork
        BY <2>1, <2>2, <2>3 DEF CandidateWork
    <2> QED BY <1>2, <2>4 DEF ScanReads, ServiceInv
<1>3. CASE ScanReindexes(s)
    <2>1. /\ work \in CandidateWork \cup ClosedWork /\ a \in Auctions
          /\ work.pc \in {"remove", "reindex"} /\ work.expire \in Times
        BY <1>3, ScannerHas DEF ScanReindexes, AnyArguments
    <2>2. RedisNext
        <3> HIDE DEF a, work
        <3> QED BY <1>3, <2>1 DEF ScanReindexes, RedisNext, work, a
    <2>3. RedisTypeOK'
        BY <2>2, ScriptsKeepTypes
    <2>4. \E next \in {Idle} \cup ReadWork : ScannerGoes(s, next)
        BY <1>3, <2>1, ScannerMovesOn DEF ScanReindexes
    <2> QED BY <1>3, <2>2, <2>3, <2>4 DEF ScanReindexes
<1>4. CASE ScanFinishes(s)
    <2>1. /\ work \in CandidateWork /\ a \in Auctions /\ work.todo \in SUBSET Auctions
          /\ work.now \in Times /\ work.now \in Nat
        BY <1>4, ScannerHolds, ScannerHas DEF ScanFinishes, AnyArguments
    <2>2. CASE /\ FinishExpiredAuction(a, work.version, work.expire, work.now)
               /\ ScannerGoes(s, [pc |-> "publish", todo |-> work.todo, now |-> work.now, auction |-> a,
                                  snap |-> SnapOf(state'[a])])
        <3>1. FinishAuction(a, work.now)
            BY <2>2 DEF FinishExpiredAuction, StillExpired, FinishAuction
        <3>2. RedisNext
            <4> HIDE DEF a, work
            <4> QED BY <2>1, <3>1 DEF RedisNext
        <3>3. RedisTypeOK'
            BY <3>2, ScriptsKeepTypes
        <3>4. SnapOf(state'[a]) \in Snapshot
            BY <2>1, <3>1, <3>3, CloseMakesSnapshot
        <3>5. [pc |-> "publish", todo |-> work.todo, now |-> work.now, auction |-> a,
               snap |-> SnapOf(state'[a])] \in ClosedWork
            BY <2>1, <3>4 DEF ClosedWork
        <3> QED BY <1>4, <2>2, <3>2, <3>3, <3>5 DEF ScanFinishes
    <2>3. CASE ScannerGoes(s, [work EXCEPT !.pc = "reread"]) /\ UNCHANGED redisVars
        <3>1. [work EXCEPT !.pc = "reread"] \in CandidateWork
            BY <2>1 DEF CandidateWork
        <3> QED BY <1>4, <2>3, <3>1 DEF ScanFinishes
    <2> QED BY <1>4, <2>2, <2>3 DEF ScanFinishes
<1>5. CASE ScanRereads(s)
    <2>1. work \in CandidateWork /\ a \in Auctions
        BY <1>5, ScannerHolds, ScannerHas DEF ScanRereads
    <2>2. state[a].expire \in Nat
        BY <2>1 DEF ServiceInv, RedisTypeOK, AuctionState
    <2>3. [work EXCEPT !.pc = IF IsRunning(a) THEN "reindex" ELSE "remove",
                       !.expire = state[a].expire] \in CandidateWork
        BY <2>1, <2>2 DEF CandidateWork
    <2> QED BY <1>5, <2>3 DEF ScanRereads, ServiceInv
<1>6. CASE ScanPublishes(s)
    <2>1. work \in ClosedWork /\ a \in Auctions /\ work.snap \in Snapshot
        BY <1>6, ScannerHolds, ScannerHas DEF ScanPublishes
    <2>2. SnapshotEvent(a, work.snap) \in Events
        BY <2>1 DEF SnapshotEvent, Events, SnapshotEvents
    <2>3. MsgsOK' /\ CountersOK' /\ UNCHANGED <<redisVars, db, records>>
        BY <1>6, <2>2, SendsKeep DEF ScanPublishes
    <2>4. [work EXCEPT !.pc = "save"] \in ClosedWork
        BY <2>1 DEF ClosedWork
    <2>5. \E next \in {Idle} \cup ReadWork \cup ClosedWork : ScannerGoes(s, next)
        BY <1>6, <2>1, <2>4, ScannerMovesOn DEF ScanPublishes
    <2> QED BY <2>3, <2>5
<1>7. CASE ScanSaves(s)
    <2>1. work \in ClosedWork /\ a \in Auctions /\ work.snap \in Snapshot
        BY <1>7, ScannerHolds, ScannerHas DEF ScanSaves
    <2>2. RowsOK' /\ CountersOK' /\ UNCHANGED <<redisVars, msgs, records>>
        BY <1>7, <2>1, SavesKeep DEF ScanSaves
    <2>3. \E next \in {Idle} \cup ReadWork : ScannerGoes(s, next)
        BY <1>7, <2>1, ScannerMovesOn DEF ScanSaves
    <2> QED BY <2>2, <2>3
<1>8. CASE ScannerStops(s)
    <2>1. CountersOK'
        BY <1>8, FaultIsCounted DEF ScannerStops, ServiceInv
    <2> QED BY <1>8, <2>1 DEF ScannerStops
<1> QED BY <1>1, <1>2, <1>3, <1>4, <1>5, <1>6, <1>7, <1>8 DEF ScannerWorks

-----------------------------------------------------------------------------
(* Every step. *)

(* Every step keeps the types, and is a step of the scripts for Redis. *)
LEMMA StepKeeps ==
    ASSUME ServiceInv, AnyArguments, [Next]_vars
    PROVE  Keeps
<1>1. CASE UNCHANGED vars
    BY <1>1, Frame DEF vars, workers, Keeps, ServiceInv
<1>2. CASE Tick
    <2>1. CountersOK'
        BY <1>2 DEF Tick, ServiceInv, CountersOK
    <2> QED BY <1>2, <2>1, Frame DEF Tick, workers, Keeps, ServiceInv
<1>3. ASSUME NEW m \in Merchants, MerchantAsks(m) \/ MerchantWorks(m) \/ MerchantStops(m)
      PROVE  Keeps
    BY <1>3, MerchantAsksKeeps, MerchantWorksKeeps, MerchantStopsKeeps
<1>4. ASSUME NEW b \in Bidders, BidderAsks(b) \/ BidderWorks(b) \/ BidderStops(b)
      PROVE  Keeps
    BY <1>4, BidderWorksKeeps, BidderAsksAndStopsKeeps
<1>5. CASE Receive \/ ConsumerWorks \/ ConsumerStops
    BY <1>5, ConsumerKeeps
<1>6. ASSUME NEW s \in Scanners, ScannerWorks(s) \/ ScannerStops(s)
      PROVE  Keeps
    BY <1>6, ScannerKeeps
<1> QED BY <1>1, <1>2, <1>3, <1>4, <1>5, <1>6 DEF Next

(* The service starts with the right types. *)
LEMMA ServiceStarts ==
    ASSUME Init
    PROVE  ServiceInv
<1>1. RedisTypeOK
    BY InitType DEF Init
<1>2. RowsOK
    <2>1. NoRow \in Row
        BY DEF NoRow, Row, RuleType
    <2> QED BY <2>1 DEF Init, RowsOK
<1>3. CountersOK
    <2>1. 0 \in 0..MaxTime /\ 0 \in 0..MaxFaults /\ IsFiniteSet({})
        BY FS_EmptySet
    <2> QED BY <2>1 DEF Init, CountersOK
<1>4. RecordsOK /\ MsgsOK /\ MerchantsOK /\ BiddersOK /\ ConsumerOK /\ ScannersOK
    BY DEF Init, RecordsOK, MsgsOK, MerchantsOK, BiddersOK, ConsumerOK, ScannersOK
<1> QED BY <1>1, <1>2, <1>3, <1>4 DEF ServiceInv

(* Redis, the rows and the records hold what their readers expect, and so do  *)
(* the messages in the topic and the variables of every handler that is under *)
(* way, whatever fails.                                                       *)
THEOREM ServiceTypeCorrect ==
    ASSUME AnyArguments
    PROVE  Spec => []TypeOK
<1>1. ServiceInv /\ [Next]_vars => ServiceInv'
    BY StepKeeps DEF Keeps
<1>2. Init => ServiceInv
    BY ServiceStarts
<1>3. ServiceInv => TypeOK
    BY DEF ServiceInv, TypeOK, RowsOK, RecordsOK, CountersOK
<1> QED BY <1>1, <1>2, <1>3, PTL DEF Spec

(* The service implements the store on its own: handlers, consumer and        *)
(* scanners touch Redis by its scripts and in no other way.  All that is      *)
(* proved of RedisSpec, one running auction per room first, holds of the      *)
(* service.                                                                   *)
THEOREM ServiceUsesScripts ==
    ASSUME AnyArguments
    PROVE  Spec => RedisSpec
<1>1. ServiceInv /\ [Next]_vars => ServiceInv' /\ [RedisNext]_redisVars
    BY StepKeeps DEF Keeps
<1>2. Init => ServiceInv /\ RedisInit
    BY ServiceStarts DEF Init
<1> QED BY <1>1, <1>2, PTL DEF Spec, RedisSpec

-----------------------------------------------------------------------------
(* What a step does to the hash of an auction: only StartAuction loads one.   *)

HashCloses(a) ==
    \E status \in {Outcome(state[a]), Canceled} : \E now :
        IsRunning(a) /\ state'[a] = ClosedState(state[a], status, now)

HashTakesBid(a) ==
    \E b \in Bidders, u \in Users, p \in Prices, req \in Requests :
        BidIsAccepted(b, u, p, req) /\ bidder[b].auction = a

HashGrows(a) ==
    /\ IsRunning(a)
    /\ state'[a].status # Absent /\ state'[a].version = state[a].version + 1
    /\ HashCloses(a) \/ HashTakesBid(a)

(* StartLoad got the room. *)
Loaded(m) ==
    /\ merchant[m].pc = "start_load"
    /\ LoadAuction(merchant[m].auction, WithEnd(merchant[m].rule, clock), clock)
    /\ MerchantGoes(m, [pc |-> "start_save", auction |-> merchant[m].auction,
                        snap |-> SnapOf(state'[merchant[m].auction])])
    /\ lost' = lost \cup {b \in accepted : b.auction = merchant[m].auction}
    /\ UNCHANGED <<db, records, msgs, clock, faults, accepted>>

(* The closing scripts, whoever runs them. *)
LEMMA CloseGrows ==
    ASSUME RedisTypeOK, NEW c \in Auctions, NEW now, NEW a \in Auctions,
           \/ FinishAuction(c, now) \/ CancelAuction(c, now)
           \/ \E version, expire : FinishExpiredAuction(c, version, expire, now)
    PROVE  state'[a] = state[a] \/ HashGrows(a)
<1>1. state[c].status # Pending
    BY DEF RedisTypeOK, AuctionState, Pending, Absent, Running, Final, Deal, Failed, Canceled
<1>2. PICK status \in {Outcome(state[c]), Canceled} : Close(c, status, now)
    BY DEF FinishAuction, CancelAuction, FinishExpiredAuction
<1>3. IsRunning(c)
    BY <1>1 DEF FinishAuction, CancelAuction, FinishExpiredAuction, StillExpired, IsRunning
<1>4. state[c] \in AuctionState
    BY DEF RedisTypeOK
<1>5. ClosedState(state[c], status, now).status = status
      /\ ClosedState(state[c], status, now).version = state[c].version + 1
    BY <1>4, AfterClose
<1>6. status # Absent
    BY OutcomeIsFinal DEF Absent, Deal, Failed, Canceled
<1>7. CASE a = c
    <2>1. state'[a] = ClosedState(state[c], status, now)
        BY <1>2, <1>7 DEF Close, RedisTypeOK
    <2> QED BY <1>3, <1>5, <1>6, <1>7, <2>1 DEF HashGrows, HashCloses
<1>8. CASE a # c
    BY <1>2, <1>8 DEF Close, RedisTypeOK
<1> QED BY <1>7, <1>8

(* An accepted bid raises the version and keeps the hash running.              *)
LEMMA AcceptGrows ==
    ASSUME RedisTypeOK, NEW c \in Auctions, NEW r, NEW u, NEW p, NEW req, NEW now, NEW a \in Auctions,
           AcceptBid(c, r, u, p, req, now), a = c => HashTakesBid(a)
    PROVE  state'[a] = state[a] \/ HashGrows(a)
<1>1. state[c] \in AuctionState
    BY DEF RedisTypeOK
<1>2. IsRunning(c)
    BY DEF AcceptBid, Acceptable, IsRunning
<1>3. CASE a = c
    <2>1. state'[a] = BidState(state[c], u, p, now)
        BY <1>3 DEF AcceptBid, RedisTypeOK
    <2> QED BY <1>1, <1>2, <1>3, <2>1, AfterBid DEF HashGrows, IsRunning, Running, Absent
<1>4. CASE a # c
    BY <1>4 DEF AcceptBid, RedisTypeOK
<1> QED BY <1>3, <1>4

(* Every step of the service leaves a hash, writes a running one, or is the   *)
(* load of StartAuction.                                                      *)
LEMMA ServiceHashSteps ==
    ASSUME ServiceInv, [Next]_vars, NEW a \in Auctions
    PROVE  \/ state'[a] = state[a]
           \/ (HashGrows(a) /\ UNCHANGED db)
           \/ \E m \in Merchants : merchant[m].auction = a /\ Loaded(m)
<1> RedisTypeOK
    BY DEF ServiceInv
<1>1. CASE UNCHANGED vars \/ Tick
    BY <1>1 DEF vars, redisVars, Tick
<1>2. ASSUME NEW m \in Merchants, MerchantAsks(m) \/ MerchantStops(m)
      PROVE  state' = state
    BY <1>2 DEF MerchantAsks, MerchantStops, redisVars, CreateAuction, UpdateRead, DeleteAuction,
                StartRead, CancelRead, FinishRead
<1>3. ASSUME NEW m \in Merchants, MerchantWorks(m), ~StartLoad(m), ~CloseScript(m)
      PROVE  state' = state
    BY <1>3 DEF MerchantWorks, redisVars, UpdateSave, StartCheck, StartSave, PublishLast,
                CancelSave, PublishFinal, SaveFinal
<1>4. ASSUME NEW m \in Merchants, StartLoad(m)
      PROVE  state'[a] = state[a] \/ (merchant[m].auction = a /\ Loaded(m))
    <2>1. CASE Loaded(m)
        BY <2>1 DEF Loaded, LoadAuction, ServiceInv, RedisTypeOK
    <2>2. CASE UNCHANGED redisVars
        BY <2>2 DEF redisVars
    <2> QED BY <1>4, <2>1, <2>2 DEF StartLoad, Loaded
<1>5. ASSUME NEW m \in Merchants, CloseScript(m)
      PROVE  state'[a] = state[a] \/ (HashGrows(a) /\ UNCHANGED db)
    <2>1. CASE UNCHANGED redisVars
        BY <2>1 DEF redisVars
    <2>2. CASE merchant[m].pc \in {"finish_script", "cancel_script"}
               /\ (FinishAuction(merchant[m].auction, clock) \/ CancelAuction(merchant[m].auction, clock))
        <3>1. merchant[m].auction \in Auctions
            BY <2>2, MerchantHolds DEF ScriptWork
        <3> QED BY <1>5, <2>2, <3>1, CloseGrows DEF CloseScript
    <2> QED BY <1>5, <2>1, <2>2 DEF CloseScript
<1>6. ASSUME NEW b \in Bidders, BidderAsks(b) \/ BidderWorks(b) \/ BidderStops(b),
             ~(\E u \in Users, p \in Prices, req \in Requests : BidIsAccepted(b, u, p, req))
      PROVE  state' = state
    BY <1>6 DEF BidderAsks, BidderWorks, BidderStops, BidArrives, BidIsRefused, RejectBid, BidRecorded,
                BidPublished, ExpireCheckPublished, BidSaved, redisVars
<1>7. ASSUME NEW b \in Bidders, NEW u \in Users, NEW p \in Prices, NEW req \in Requests,
             BidIsAccepted(b, u, p, req)
      PROVE  state'[a] = state[a] \/ (HashGrows(a) /\ UNCHANGED db)
    <2>1. bidder[b].auction \in Auctions
        BY <1>7, BidderHolds DEF BidIsAccepted, ArrivedWork
    <2>2. bidder[b].auction = a => HashTakesBid(a)
        BY <1>7 DEF HashTakesBid
    <2> QED BY <1>7, <2>1, <2>2, AcceptGrows DEF BidIsAccepted
<1>8. CASE Receive \/ ConsumerStops \/ (ConsumerWorks /\ ~ConsumerFinishes)
    BY <1>8 DEF Receive, ConsumerStops, ConsumerWorks, ConsumerRecords, ConsumerSaves,
                ConsumerRereads, ConsumerPublishes, redisVars
<1>9. CASE ConsumerFinishes
    <2>1. consumer.msg.auction \in Auctions
        BY <1>9, ConsumerHolds DEF ConsumerFinishes, CheckWork, ExpireChecks
    <2>2. CASE UNCHANGED redisVars
        BY <2>2 DEF redisVars
    <2>3. CASE FinishExpiredAuction(consumer.msg.auction, consumer.msg.version, consumer.msg.expire, clock)
        BY <1>9, <2>1, <2>3, CloseGrows DEF ConsumerFinishes
    <2> QED BY <1>9, <2>2, <2>3 DEF ConsumerFinishes
<1>10. ASSUME NEW s \in Scanners, ScannerWorks(s) \/ ScannerStops(s), ~ScanFinishes(s)
       PROVE  state' = state
    BY <1>10 DEF ScannerWorks, ScannerStops, ScanLists, ScanReads, ScanReindexes, ScanRereads, ScanPublishes,
                 ScanSaves, IndexRunningAuction, RemoveRunningAuction, redisVars
<1>11. ASSUME NEW s \in Scanners, ScanFinishes(s)
       PROVE  state'[a] = state[a] \/ (HashGrows(a) /\ UNCHANGED db)
    <2>1. scanner[s].auction \in Auctions
        BY <1>11, ScannerHas DEF ScanFinishes
    <2>2. CASE UNCHANGED redisVars
        BY <2>2 DEF redisVars
    <2>3. CASE FinishExpiredAuction(scanner[s].auction, scanner[s].version, scanner[s].expire, scanner[s].now)
        BY <1>11, <2>1, <2>3, CloseGrows DEF ScanFinishes
    <2> QED BY <1>11, <2>2, <2>3 DEF ScanFinishes
<1> QED BY <1>1, <1>2, <1>3, <1>4, <1>5, <1>6, <1>7, <1>8, <1>9, <1>10, <1>11 DEF Next

-----------------------------------------------------------------------------
(* The snapshots under way: those that handlers, messages, the consumer and   *)
(* scanners will still write to the row.  A handler that cancels the row of a *)
(* Pending auction holds one that Redis knows nothing of, until it is saved.  *)

At(m, places, a) == merchant[m].pc \in places /\ merchant[m].auction = a

MerchantCarries(a, snap) ==
    \E m \in Merchants :
        At(m, {"start_save", "publish_last", "publish_final", "save_final"}, a) /\ merchant[m].snap = snap

BidderCarries(a, snap) ==
    \E b \in Bidders : /\ bidder[b].pc \in {"record", "publish", "publish_delay", "save"}
                       /\ bidder[b].auction = a /\ bidder[b].snap = snap

Tells(msg, a, snap) == msg.kind \in {"snapshot", "bid"} /\ msg.auction = a /\ msg.snap = snap

TopicCarries(a, snap) == \E msg \in msgs : Tells(msg, a, snap)

ConsumerCarries(a, snap) ==
    \/ consumer.pc # "idle" /\ Tells(consumer.msg, a, snap)
    \/ consumer.pc \in {"save", "publish"} /\ consumer.msg.auction = a /\ consumer.snap = snap

ScannerCarries(a, snap) ==
    \E s \in Scanners : scanner[s].pc \in {"publish", "save"} /\ scanner[s].auction = a /\ scanner[s].snap = snap

Carried(a, snap) ==
    \/ MerchantCarries(a, snap) \/ BidderCarries(a, snap) \/ TopicCarries(a, snap)
    \/ ConsumerCarries(a, snap) \/ ScannerCarries(a, snap)

(* A snapshot that a script just returned, or a read just found. *)
Fresh(a, snap) == state'[a].status # Absent /\ snap = SnapOf(state'[a])

(* The cancellation of a Pending row reached the row. *)
CanceledAlone(a, snap) ==
    /\ \E m \in Merchants : At(m, {"cancel_save"}, a) /\ merchant[m].snap = snap /\ CancelSave(m)
    /\ Newer(a, snap) /\ SaveSnapshot(a, snap)

(* What a snapshot came from, one step earlier. *)
Source(a, snap) == Carried(a, snap) \/ Fresh(a, snap) \/ CanceledAlone(a, snap)

-----------------------------------------------------------------------------
(* What a step does to a row. *)

Saved(a) ==
    \E snap \in Snapshot :
        /\ Newer(a, snap)
        /\ SnapOf(db'[a]) = snap
        /\ db'[a].rule = db[a].rule /\ db'[a].deleted = db[a].deleted
        /\ Carried(a, snap) \/ CanceledAlone(a, snap)

FirstRow(a) ==
    /\ db'[a].price = db'[a].rule.startPrice /\ db'[a].bids = 0 /\ db'[a].winner = NoUser

Created(a) ==
    /\ db[a].status = Absent /\ db'[a].status = Pending /\ db'[a].version = 0 /\ ~db'[a].deleted
    /\ FirstRow(a)
    /\ UNCHANGED <<redisVars, workers>>

Deleted(a) ==
    /\ \E m \in Merchants : merchant[m].pc = "idle"
    /\ SnapOf(db'[a]) = SnapOf(db[a]) /\ db'[a].rule = db[a].rule /\ db'[a].deleted
    /\ UNCHANGED <<redisVars, workers>>

MergedRow(a) ==
    \E m \in Merchants, request \in Updates :
        /\ At(m, {"update"}, a)
        /\ db'[a].rule = Merged(merchant[m].rule, request) /\ db'[a].price = db'[a].rule.startPrice
        /\ db'[a].bids = db[a].bids /\ db'[a].winner = db[a].winner

Updated(a) ==
    /\ \E m \in Merchants : merchant[m].pc = "update"
    /\ StillPending(a) /\ db'[a].status = Pending /\ db'[a].version = db[a].version
    /\ db'[a].deleted = db[a].deleted
    /\ MergedRow(a)
    /\ UNCHANGED redisVars

RowMoves(a) == db'[a] = db[a] \/ Saved(a) \/ Created(a) \/ Deleted(a) \/ Updated(a)

(* UpdateStatusSnapshot changes one row, to the snapshot, or none.             *)
LEMMA SaveMoves ==
    ASSUME RowsOK, NEW a \in Auctions, NEW c \in Auctions, NEW snap \in Snapshot, SaveSnapshot(c, snap),
           Carried(c, snap) \/ CanceledAlone(c, snap)
    PROVE  RowMoves(a)
<1> DEFINE row == [db[c] EXCEPT !.status = snap.status, !.price = snap.price,
                                !.bids = snap.bids, !.winner = snap.winner, !.version = snap.version]
<1>1. db \in [Auctions -> Row] /\ db[c] \in Row
    BY DEF RowsOK
<1>2. CASE c = a /\ Newer(c, snap)
    <2>1. db'[a] = row
        BY <1>1, <1>2 DEF SaveSnapshot
    <2>2. /\ row.status = snap.status /\ row.price = snap.price /\ row.bids = snap.bids
          /\ row.winner = snap.winner /\ row.version = snap.version
          /\ row.rule = db[c].rule /\ row.deleted = db[c].deleted
        BY <1>1 DEF Row
    <2>3. snap = [status |-> snap.status, price |-> snap.price, bids |-> snap.bids,
                  winner |-> snap.winner, version |-> snap.version]
        BY DEF Snapshot
    <2>4. SnapOf(row) = snap
        <3> HIDE DEF row
        <3> QED BY <2>2, <2>3 DEF SnapOf
    <2>5. Saved(a)
        <3> HIDE DEF row
        <3> QED BY <1>2, <2>1, <2>2, <2>4 DEF Saved
    <2> QED BY <2>5 DEF RowMoves
<1>3. CASE c # a \/ ~Newer(c, snap)
    <2>1. db'[a] = db[a]
        BY <1>1, <1>3 DEF SaveSnapshot
    <2> QED BY <2>1 DEF RowMoves
<1> QED BY <1>2, <1>3

(* The other writes of rows: a new row, a delete flag, rules.                  *)
LEMMA CreateMoves ==
    ASSUME RowsOK, NEW a \in Auctions, NEW c \in Auctions, NEW m \in Merchants, NEW rule, CreateAuction(m, c, rule)
    PROVE  RowMoves(a)
<1>1. CASE c = a
    <2> DEFINE row == [NoRow EXCEPT !.status = Pending, !.rule = rule, !.price = rule.startPrice]
    <2>1. db'[a] = row
        BY <1>1 DEF CreateAuction, RowsOK
    <2>2. /\ row.status = Pending /\ row.version = 0 /\ ~row.deleted
          /\ row.rule = rule /\ row.price = rule.startPrice /\ row.bids = 0 /\ row.winner = NoUser
        BY DEF NoRow
    <2>3. db[a].status = Absent /\ UNCHANGED <<redisVars, workers>>
        BY <1>1 DEF CreateAuction
    <2> HIDE DEF row
    <2> QED BY <2>1, <2>2, <2>3 DEF RowMoves, Created, FirstRow
<1>2. CASE c # a
    BY <1>2 DEF CreateAuction, RowsOK, RowMoves
<1> QED BY <1>1, <1>2

(* DeleteAuction sets the is_delete flag of one row. *)
LEMMA DeleteMoves ==
    ASSUME RowsOK, NEW a \in Auctions, NEW c \in Auctions, NEW m \in Merchants, DeleteAuction(m, c)
    PROVE  RowMoves(a)
<1>1. CASE c = a
    <2> DEFINE row == [db[a] EXCEPT !.deleted = TRUE]
    <2>1. db'[a] = row
        BY <1>1 DEF DeleteAuction, RowsOK
    <2>2. db[a] \in Row
        BY DEF RowsOK
    <2>3. SnapOf(row) = SnapOf(db[a]) /\ row.rule = db[a].rule /\ row.deleted
        BY <2>2 DEF SnapOf, Row
    <2>4. merchant[m].pc = "idle" /\ UNCHANGED <<redisVars, workers>>
        BY DEF DeleteAuction, Idle
    <2> HIDE DEF row
    <2> QED BY <2>1, <2>3, <2>4 DEF RowMoves, Deleted
<1>2. CASE c # a
    BY <1>2 DEF DeleteAuction, RowsOK, RowMoves
<1> QED BY <1>1, <1>2

(* UpdateAuction's save rewrites the rules of one Pending row, or nothing. *)
LEMMA UpdateMoves ==
    ASSUME ServiceInv, NEW a \in Auctions, NEW m \in Merchants, NEW request \in Updates, UpdateSave(m, request)
    PROVE  RowMoves(a)
<1> DEFINE c == merchant[m].auction
           rule == Merged(merchant[m].rule, request)
           row == [[db[a] EXCEPT !.rule = rule] EXCEPT !.price = rule.startPrice]
<1>1. c \in Auctions /\ db \in [Auctions -> Row] /\ db[a] \in Row
    BY MerchantHolds DEF UpdateSave, RuleWork, ServiceInv, RowsOK
<1>2. CASE c = a /\ StillPending(a) /\ UpdateIsValid(merchant[m].rule, request)
    <2>1. db'[a] = row
        <3>1. db' = [db EXCEPT ![c].rule = rule, ![c].price = rule.startPrice]
            BY <1>2 DEF UpdateSave
        <3> HIDE DEF rule
        <3> QED BY <1>1, <1>2, <3>1
    <2>2. /\ row.status = db[a].status /\ row.version = db[a].version /\ row.deleted = db[a].deleted
          /\ row.rule = rule /\ row.price = rule.startPrice /\ row.bids = db[a].bids /\ row.winner = db[a].winner
        <3> HIDE DEF rule
        <3> QED BY <1>1 DEF Row
    <2>3. merchant[m].pc = "update" /\ UNCHANGED redisVars /\ db[a].status = Pending
        BY <1>2 DEF UpdateSave, StillPending
    <2> HIDE DEF row
    <2>4. MergedRow(a)
        BY <1>2, <2>1, <2>2, <2>3 DEF MergedRow, At
    <2> QED BY <1>2, <2>1, <2>2, <2>3, <2>4 DEF RowMoves, Updated
<1>3. CASE ~(c = a /\ StillPending(a) /\ UpdateIsValid(merchant[m].rule, request))
    <2>1. \/ db' = db
          \/ c # a /\ db' = [db EXCEPT ![c].rule = rule, ![c].price = rule.startPrice]
        BY <1>3 DEF UpdateSave
    <2> HIDE DEF rule
    <2>2. db'[a] = db[a]
        BY <1>1, <2>1
    <2> QED BY <2>2 DEF RowMoves
<1> QED BY <1>2, <1>3

(* Every step changes one row at most, in one of these four ways.              *)
LEMMA ServiceRowSteps ==
    ASSUME ServiceInv, [Next]_vars, NEW a \in Auctions
    PROVE  RowMoves(a)
<1> RowsOK
    BY DEF ServiceInv
<1>0. ASSUME UNCHANGED db PROVE RowMoves(a)
    BY <1>0 DEF RowMoves
<1>1. CASE UNCHANGED vars \/ Tick
    BY <1>0, <1>1 DEF vars, Tick
<1>2. ASSUME NEW m \in Merchants, MerchantAsks(m) \/ MerchantStops(m)
      PROVE  RowMoves(a)
    BY <1>0, <1>2, CreateMoves, DeleteMoves DEF MerchantAsks, MerchantStops, UpdateRead,
                StartRead, CancelRead, FinishRead
<1>3. ASSUME NEW m \in Merchants, StartSave(m) \/ SaveFinal(m) \/ CancelSave(m)
      PROVE  RowMoves(a)
    <2> DEFINE c == merchant[m].auction
               snap == merchant[m].snap
    <2>1. c \in Auctions /\ snap \in Snapshot
        BY <1>3, MerchantHolds DEF StartSave, SaveFinal, CancelSave, SnapWork
    <2>2. CASE UNCHANGED db
        BY <1>0, <2>2
    <2>3. CASE SaveSnapshot(c, snap) /\ (StartSave(m) \/ SaveFinal(m))
        <3>1. Carried(c, snap)
            BY <2>3 DEF StartSave, SaveFinal, Carried, MerchantCarries, At
        <3> QED BY <2>1, <2>3, <3>1, SaveMoves
    <2>4. CASE SaveSnapshot(c, snap) /\ CancelSave(m) /\ Newer(c, snap)
        <3>1. CanceledAlone(c, snap)
            BY <2>4 DEF CancelSave, CanceledAlone, At
        <3> QED BY <2>1, <2>4, <3>1, SaveMoves
    <2>5. CASE SaveSnapshot(c, snap) /\ ~Newer(c, snap)
        BY <1>0, <2>5 DEF SaveSnapshot
    <2> QED BY <1>3, <2>2, <2>3, <2>4, <2>5 DEF StartSave, SaveFinal, CancelSave
<1>4. ASSUME NEW m \in Merchants, MerchantWorks(m), ~(StartSave(m) \/ SaveFinal(m) \/ CancelSave(m))
      PROVE  RowMoves(a)
    BY <1>0, <1>4, UpdateMoves DEF MerchantWorks, StartCheck, StartLoad, PublishLast, CloseScript, PublishFinal
<1>5. ASSUME NEW b \in Bidders, BidSaved(b)
      PROVE  RowMoves(a)
    <2> DEFINE c == bidder[b].auction
               snap == bidder[b].snap
    <2>1. c \in Auctions /\ snap \in Snapshot
        BY <1>5, BidderHolds DEF BidSaved, BidWork
    <2>2. Carried(c, snap)
        BY <1>5 DEF BidSaved, Carried, BidderCarries
    <2> QED BY <1>0, <1>5, <2>1, <2>2, SaveMoves DEF BidSaved
<1>6. ASSUME NEW b \in Bidders, BidderAsks(b) \/ BidderWorks(b) \/ BidderStops(b), ~BidSaved(b)
      PROVE  RowMoves(a)
    BY <1>0, <1>6 DEF BidderAsks, BidderWorks, BidderStops, BidArrives, BidIsAccepted, BidIsRefused, BidRecorded,
                BidPublished, ExpireCheckPublished
<1>7. CASE ConsumerSaves
    <2> DEFINE c == consumer.msg.auction
               snap == consumer.snap
    <2>1. c \in Auctions /\ snap \in Snapshot
        BY <1>7, ConsumerHolds DEF ConsumerSaves, SaveWork, Events, SnapshotEvents, BidEvents, ExpireChecks
    <2>2. Carried(c, snap)
        BY <1>7 DEF ConsumerSaves, Carried, ConsumerCarries
    <2> QED BY <1>0, <1>7, <2>1, <2>2, SaveMoves DEF ConsumerSaves
<1>8. CASE (Receive \/ ConsumerStops \/ ConsumerWorks) /\ ~ConsumerSaves
    BY <1>0, <1>8 DEF Receive, ConsumerStops, ConsumerWorks, ConsumerRecords, ConsumerFinishes,
                ConsumerRereads, ConsumerPublishes
<1>9. ASSUME NEW s \in Scanners, ScanSaves(s)
      PROVE  RowMoves(a)
    <2> DEFINE c == scanner[s].auction
               snap == scanner[s].snap
    <2>1. c \in Auctions /\ snap \in Snapshot
        BY <1>9, ScannerHas DEF ScanSaves
    <2>2. Carried(c, snap)
        BY <1>9 DEF ScanSaves, Carried, ScannerCarries
    <2> QED BY <1>0, <1>9, <2>1, <2>2, SaveMoves DEF ScanSaves
<1>10. ASSUME NEW s \in Scanners, ScannerWorks(s) \/ ScannerStops(s), ~ScanSaves(s)
       PROVE  RowMoves(a)
    BY <1>0, <1>10 DEF ScannerWorks, ScannerStops, ScanLists, ScanReads, ScanReindexes, ScanFinishes,
                 ScanRereads, ScanPublishes
<1> QED BY <1>1, <1>2, <1>3, <1>4, <1>5, <1>6, <1>7, <1>8, <1>9, <1>10 DEF Next

(* Rules are frozen for any number of merchants and any failure: the update   *)
(* writes rows still Pending alone, and no snapshot carries rules.            *)
THEOREM RulesAreFrozen ==
    ASSUME AnyArguments
    PROVE  Spec => RulesFrozenOnceStarted
<1>1. ASSUME ServiceInv, [Next]_vars
      PROVE  [\A a \in Auctions : db[a].status \notin {Absent, Pending} => db'[a].rule = db[a].rule]_vars
    <2>1. ASSUME NEW a \in Auctions, db[a].status \notin {Absent, Pending}
          PROVE  db'[a].rule = db[a].rule
        BY <1>1, <2>1, ServiceRowSteps DEF RowMoves, Saved, Created, Deleted, Updated, StillPending
    <2> QED BY <2>1
<1>2. ServiceInv /\ [Next]_vars => ServiceInv'
    BY StepKeeps DEF Keeps
<1>3. Init => ServiceInv
    BY ServiceStarts
<1> QED BY <1>1, <1>2, <1>3, PTL DEF Spec, RulesFrozenOnceStarted

-----------------------------------------------------------------------------
(* Settled auctions.  Any number of merchants may be starting, editing and    *)
(* cancelling one auction: a start that passed its first check is what keeps  *)
(* it from being settled.                                                     *)

(* What a merchant's request knows of the row, it read there. *)
LEMMA MerchantReads ==
    ASSUME ServiceInv, [Next]_vars, NEW m \in Merchants
    PROVE  \/ merchant'[m] = merchant[m]
           \/ \E a \in Auctions : StartRead(m, a) \/ UpdateRead(m, a) \/ CancelRead(m, a)
           \/ StartCheck(m)
           \/ merchant'[m].pc \notin {"update", "start_check", "start_load", "cancel_save"}
<1> DEFINE work == merchant[m]
<1>0. DOMAIN merchant = Merchants
    BY DEF ServiceInv, MerchantsOK
<1>1. ASSUME NEW next, MerchantGoes(m, next)
      PROVE  merchant'[m] = next
    BY <1>0, <1>1 DEF MerchantGoes
<1> Idle.pc = "idle"
    BY DEF Idle
<1>2. ASSUME NEW pc \in {"publish_final", "publish_last", "save_final"},
             MerchantGoes(m, [work EXCEPT !.pc = pc]), work \in SnapWork
      PROVE  merchant'[m].pc = pc
    BY <1>1, <1>2 DEF SnapWork
<1>3. ASSUME NEW pc, NEW a, NEW snap, MerchantGoes(m, [pc |-> pc, auction |-> a, snap |-> snap])
      PROVE  merchant'[m].pc = pc
    BY <1>1, <1>3
<1>4. CASE MerchantGoes(m, Idle)
    BY <1>1, <1>4
<1>5. ASSUME NEW a \in Auctions, FinishRead(m, a)
      PROVE  merchant'[m].pc = "finish_script"
    BY <1>1, <1>5 DEF FinishRead
<1>6. CASE StartLoad(m)
    BY <1>3, <1>4, <1>6 DEF StartLoad
<1>7. CASE StartSave(m) \/ CancelSave(m) \/ PublishFinal(m)
    <2>1. work \in SnapWork
        BY <1>7, MerchantHolds DEF StartSave, CancelSave, PublishFinal
    <2> QED BY <1>2, <1>4, <1>7, <2>1 DEF StartSave, CancelSave, PublishFinal
<1>8. CASE \/ \E request \in Updates : UpdateSave(m, request)
           \/ PublishLast(m) \/ SaveFinal(m) \/ MerchantStops(m)
    BY <1>4, <1>8 DEF UpdateSave, PublishLast, SaveFinal, MerchantStops
<1>9. CASE CloseScript(m)
    BY <1>3, <1>4, <1>9 DEF CloseScript
<1>10. ASSUME NEW n \in Merchants, NEW a \in Auctions, DeleteAuction(n, a) \/ \E rule \in Rules : CreateAuction(n, a, rule)
       PROVE  UNCHANGED merchant
    BY <1>10 DEF DeleteAuction, CreateAuction, workers
<1>11. CASE UNCHANGED vars \/ Tick
    BY <1>11 DEF vars, workers, Tick
<1>12. ASSUME NEW b \in Bidders, BidderAsks(b) \/ BidderWorks(b) \/ BidderStops(b)
       PROVE  UNCHANGED merchant
    BY <1>12 DEF BidderAsks, BidderWorks, BidderStops, BidArrives, BidIsAccepted, BidIsRefused, BidRecorded,
           BidPublished, ExpireCheckPublished, BidSaved, BidderGoes
<1>13. ASSUME Receive \/ ConsumerWorks \/ ConsumerStops
       PROVE  UNCHANGED merchant
    BY <1>13 DEF Receive, ConsumerWorks, ConsumerStops, ConsumerRecords, ConsumerSaves, ConsumerFinishes, ConsumerRereads,
           ConsumerPublishes, ConsumerGoes, Ack, Retry
<1>14. ASSUME NEW s \in Scanners, ScannerWorks(s) \/ ScannerStops(s)
       PROVE  UNCHANGED merchant
    BY <1>14 DEF ScannerWorks, ScannerStops, ScanLists, ScanReads, ScanReindexes, ScanFinishes, ScanRereads, ScanPublishes,
           ScanSaves, ScannerLeaves, ScannerGoes
<1>15. ASSUME NEW n \in Merchants, n # m, MerchantAsks(n) \/ MerchantWorks(n) \/ MerchantStops(n)
       PROVE  merchant'[m] = merchant[m]
    <2>1. ASSUME NEW next, MerchantGoes(n, next)
          PROVE  merchant'[m] = merchant[m]
        BY <1>15, <2>1 DEF MerchantGoes, ServiceInv, MerchantsOK
    <2>2. CASE MerchantAsks(n)
        BY <1>10, <2>1, <2>2 DEF MerchantAsks, UpdateRead, StartRead, CancelRead, FinishRead
    <2>3. CASE MerchantStops(n)
        BY <2>1, <2>3 DEF MerchantStops
    <2>4. CASE \/ \E request \in Updates : UpdateSave(n, request)
               \/ PublishLast(n) \/ SaveFinal(n) \/ PublishFinal(n) \/ CancelSave(n)
        BY <2>1, <2>4 DEF UpdateSave, PublishLast, SaveFinal, PublishFinal, CancelSave
    <2>5. CASE StartCheck(n) \/ StartLoad(n) \/ StartSave(n) \/ CloseScript(n)
        BY <2>1, <2>5 DEF StartCheck, StartLoad, StartSave, CloseScript
    <2> QED BY <1>15, <2>2, <2>3, <2>4, <2>5 DEF MerchantWorks
<1>16. CASE MerchantAsks(m)
    BY <1>5, <1>10, <1>16 DEF MerchantAsks
<1>17. CASE MerchantWorks(m)
    BY <1>6, <1>7, <1>8, <1>9, <1>17 DEF MerchantWorks
<1> QED BY <1>8, <1>11, <1>12, <1>13, <1>14, <1>15, <1>16, <1>17 DEF Next

(* A check that goes on keeps the request, and leaves rows and hashes alone. *)
LEMMA CheckGoesOn ==
    ASSUME ServiceInv, NEW m \in Merchants, StartCheck(m)
    PROVE  \/ merchant'[m].pc = "idle"
           \/ merchant[m].pc = "start_check" /\ merchant'[m].auction = merchant[m].auction
              /\ merchant'[m].pc = "start_load"
<1> DEFINE work == merchant[m]
           next == [work EXCEPT !.pc = "start_load"]
<1>1. work \in RuleWork /\ work.pc = "start_check"
    BY MerchantHolds DEF StartCheck
<1>2. next.auction = work.auction /\ next.pc = "start_load"
    BY <1>1 DEF RuleWork
<1>3. merchant'[m] = next \/ merchant'[m] = Idle
    BY DEF StartCheck, MerchantGoes, ServiceInv, MerchantsOK
<1>4. Idle.pc = "idle"
    BY DEF Idle
<1> HIDE DEF next
<1> QED BY <1>1, <1>2, <1>3, <1>4

(* Bids are lost to the load of StartAuction only. *)
LEMMA LostSteps ==
    ASSUME [Next]_vars
    PROVE  UNCHANGED lost \/ \E m \in Merchants : Loaded(m)
<1>1. CASE UNCHANGED vars \/ Tick
    BY <1>1 DEF vars, Tick
<1>2. ASSUME NEW m \in Merchants, MerchantAsks(m) \/ MerchantWorks(m) \/ MerchantStops(m), ~StartLoad(m)
      PROVE  UNCHANGED lost
    BY <1>2 DEF MerchantAsks, MerchantWorks, MerchantStops, CreateAuction, UpdateRead, DeleteAuction,
           StartRead, CancelRead, FinishRead, UpdateSave, StartCheck, StartSave, PublishLast,
           CancelSave, CloseScript, PublishFinal, SaveFinal
<1>3. ASSUME NEW m \in Merchants, StartLoad(m)
      PROVE  UNCHANGED lost \/ Loaded(m)
    BY <1>3 DEF StartLoad, Loaded
<1>4. ASSUME NEW b \in Bidders, BidderAsks(b) \/ BidderWorks(b) \/ BidderStops(b)
      PROVE  UNCHANGED lost
    BY <1>4 DEF BidderAsks, BidderWorks, BidderStops, BidArrives, BidIsAccepted, BidIsRefused, BidRecorded,
                BidPublished, ExpireCheckPublished, BidSaved
<1>5. CASE Receive \/ ConsumerStops \/ ConsumerWorks
    BY <1>5 DEF Receive, ConsumerStops, ConsumerWorks, ConsumerRecords, ConsumerSaves, ConsumerFinishes,
                ConsumerRereads, ConsumerPublishes
<1>6. ASSUME NEW s \in Scanners, ScannerWorks(s) \/ ScannerStops(s)
      PROVE  UNCHANGED lost
    BY <1>6 DEF ScannerWorks, ScannerStops, ScanLists, ScanReads, ScanReindexes, ScanFinishes, ScanRereads, ScanPublishes,
                 ScanSaves
<1> QED BY <1>1, <1>2, <1>3, <1>4, <1>5, <1>6 DEF Next

(* A settled row does not become Pending again ... *)
LEMMA SettledRowStays ==
    ASSUME ServiceInv, [Next]_vars, NEW a \in Auctions, Settled(a)
    PROVE  db'[a].status \notin {Absent, Pending} \/ (db'[a].status = Pending /\ db'[a].deleted)
<1>1. CASE db'[a] = db[a]
    BY <1>1 DEF Settled
<1>2. CASE Saved(a)
    <2>1. PICK snap \in Snapshot : SnapOf(db'[a]) = snap
        BY <1>2 DEF Saved
    <2>2. db'[a].status = snap.status
        BY <2>1 DEF SnapOf
    <2> QED BY <2>2 DEF Snapshot, Final, Absent, Pending, Running, Deal, Failed, Canceled
<1>3. CASE Created(a)
    BY <1>3 DEF Created, Settled, Absent, Pending
<1>4. CASE Deleted(a)
    <2>1. db'[a].status = db[a].status /\ db'[a].deleted
        BY <1>4 DEF Deleted, SnapOf
    <2> QED BY <2>1 DEF Settled
<1>5. CASE Updated(a)
    BY <1>5 DEF Updated, StillPending, Live, Settled
<1> QED BY <1>1, <1>2, <1>3, <1>4, <1>5, ServiceRowSteps DEF RowMoves

(* ... and no start can begin on it. *)
LEMMA NoStartBegins ==
    ASSUME ServiceInv, [Next]_vars, NEW a \in Auctions, Settled(a)
    PROVE  ~Starting(a)'
<1> SUFFICES ASSUME NEW m \in Merchants, merchant'[m].pc \in {"start_check", "start_load"}, merchant'[m].auction = a
             PROVE  FALSE
    BY DEF Starting
<1>1. ~(merchant[m].pc \in {"start_check", "start_load"} /\ merchant[m].auction = a)
    BY DEF Settled, Starting
<1>2. ASSUME NEW c \in Auctions, StartRead(m, c)
      PROVE  FALSE
    <2>1. merchant'[m].auction = c
        BY <1>2 DEF StartRead, MerchantGoes, ServiceInv, MerchantsOK
    <2> QED BY <1>2, <2>1 DEF StartRead, StillPending, Live, Settled
<1>3. ASSUME NEW c \in Auctions, UpdateRead(m, c)
      PROVE  FALSE
    <2>1. merchant'[m].pc = "update"
        BY <1>3 DEF UpdateRead, MerchantGoes, ServiceInv, MerchantsOK
    <2> QED BY <2>1
<1>4. ASSUME NEW c \in Auctions, CancelRead(m, c)
      PROVE  FALSE
    <2>1. PICK pc \in {"cancel_save", "cancel_script"} : merchant'[m].pc = pc
        <3>1. CASE CancelsRowAlone(db[c])
            <4>1. PICK snap : MerchantGoes(m, [pc |-> "cancel_save", auction |-> c, snap |-> snap])
                BY <1>4, <3>1 DEF CancelRead
            <4>2. merchant'[m].pc = "cancel_save"
                BY <4>1 DEF MerchantGoes, ServiceInv, MerchantsOK
            <4> QED BY <4>2
        <3>2. CASE ~CancelsRowAlone(db[c])
            <4>1. merchant'[m].pc = "cancel_script"
                BY <1>4, <3>2 DEF CancelRead, MerchantGoes, ServiceInv, MerchantsOK
            <4> QED BY <4>1
        <3> QED BY <3>1, <3>2
    <2> QED BY <2>1
<1>5. ~StartCheck(m)
    BY <1>1, CheckGoesOn
<1> QED BY <1>1, <1>2, <1>3, <1>4, <1>5, MerchantReads

(* So the hash is not loaded any more: it grows or stays. *)
LEMMA SettledStep ==
    ASSUME ServiceInv, [Next]_vars, NEW a \in Auctions, Settled(a)
    PROVE  /\ Settled(a)' /\ state'[a].version >= state[a].version
           /\ \A b \in lost' \ lost : b.auction # a
<1>1. Settled(a)'
    BY SettledRowStays, NoStartBegins DEF Settled
<1>2. ASSUME NEW m \in Merchants, Loaded(m)
      PROVE  merchant[m].auction # a
    BY <1>2 DEF Loaded, Settled, Starting
<1>3. state[a].version \in Nat
    BY DEF ServiceInv, RedisTypeOK, AuctionState
<1>4. state'[a].version >= state[a].version
    BY <1>2, <1>3, ServiceHashSteps DEF HashGrows
<1>5. ASSUME NEW b \in lost' \ lost
      PROVE  b.auction # a
    <2>1. PICK m \in Merchants : Loaded(m)
        BY <1>5, LostSteps
    <2>2. b.auction = merchant[m].auction
        BY <1>5, <2>1 DEF Loaded
    <2> QED BY <1>2, <2>1, <2>2
<1> QED BY <1>1, <1>4, <1>5

(* Once the row of an auction has left Pending and no start is half-way, its  *)
(* hash never goes back and none of its bids is lost, whatever requests and   *)
(* failures there are: what a second start may destroy, it destroys before.   *)
THEOREM SettledAuctionsStay ==
    ASSUME AnyArguments
    PROVE  Spec => NeverReloadedOnceSettled
<1>1. ASSUME ServiceInv, [Next]_vars
      PROVE  [\A a \in Auctions : Settled(a) =>
                  /\ Settled(a)' /\ state'[a].version >= state[a].version
                  /\ \A b \in lost' \ lost : b.auction # a]_vars
    BY <1>1, SettledStep
<1>2. ServiceInv /\ [Next]_vars => ServiceInv'
    BY StepKeeps DEF Keeps
<1>3. Init => ServiceInv
    BY ServiceStarts
<1> QED BY <1>1, <1>2, <1>3, PTL DEF Spec, NeverReloadedOnceSettled

-----------------------------------------------------------------------------
(* Where the snapshots under way come from.                                   *)

(* What a send, an acknowledgement and a retry add to the topic.               *)
LEMMA TopicMoves ==
    ASSUME NEW event, Send(event) \/ SendFails, NEW a, NEW snap, TopicCarries(a, snap)'
    PROVE  TopicCarries(a, snap) \/ Tells(event, a, snap)
BY DEF Send, SendFails, TopicCarries, Tells

(* The consumer hands a message back, as it is, once more, or not at all. *)
LEMMA AckMoves ==
    ASSUME NEW msg, Ack(msg), NEW a, NEW snap, TopicCarries(a, snap)'
    PROVE  TopicCarries(a, snap)
BY DEF Ack, TopicCarries, Tells

(* A message handed back to the broker says what it said before. *)
LEMMA RetryMoves ==
    ASSUME NEW msg \in Events, Retry(msg), NEW a, NEW snap, TopicCarries(a, snap)'
    PROVE  TopicCarries(a, snap) \/ Tells(msg, a, snap)
<1> DEFINE again == [msg EXCEPT !.tries = @ + 1]
<1>1. PICK other \in msgs' : Tells(other, a, snap)
    BY DEF TopicCarries, Tells
<1>2. other \in msgs \/ other = again
    <2>1. msgs' \subseteq (msgs \cup {again})
        BY DEF Retry
    <2> HIDE DEF again
    <2> QED BY <1>1, <2>1
<1>3. CASE msg \in ExpireChecks
    <2>1. again.kind = "expire"
        BY <1>3 DEF ExpireChecks
    <2> HIDE DEF again
    <2> QED BY <1>1, <1>2, <2>1 DEF TopicCarries, Tells
<1>4. CASE msg \in SnapshotEvents \cup BidEvents
    <2>1. again.kind = msg.kind /\ again.auction = msg.auction /\ again.snap = msg.snap
        BY <1>4 DEF SnapshotEvents, BidEvents
    <2> HIDE DEF again
    <2> QED BY <1>1, <1>2, <2>1 DEF TopicCarries, Tells
<1> QED BY <1>3, <1>4 DEF Events

(* Snapshots that merchants' steps bring up. *)
LEMMA MerchantSource ==
    ASSUME ServiceInv, NEW m \in Merchants, MerchantAsks(m) \/ MerchantWorks(m) \/ MerchantStops(m),
           NEW a \in Auctions, NEW snap, Carried(a, snap)'
    PROVE  Source(a, snap)
<1> DEFINE work == merchant[m]
           carrying == {"start_save", "publish_last", "publish_final", "save_final"}
<1>0. /\ work.pc \in {"start_save", "publish_last", "cancel_save", "publish_final", "save_final"}
            => work \in SnapWork
      /\ DOMAIN merchant = Merchants
    BY MerchantHolds DEF ServiceInv, MerchantsOK
(* What the others hold is what they held, and so is the topic's, but for an event. *)
<1>1. UNCHANGED <<bidder, consumer, scanner>>
    BY DEF MerchantAsks, MerchantWorks, MerchantStops, MerchantGoes, workers, CreateAuction, UpdateRead, DeleteAuction,
           StartRead, CancelRead, FinishRead, UpdateSave, StartCheck, StartLoad, StartSave, PublishLast,
           CancelSave, CloseScript, PublishFinal, SaveFinal
<1>2. ASSUME BidderCarries(a, snap)' \/ ConsumerCarries(a, snap)' \/ ScannerCarries(a, snap)'
      PROVE  Carried(a, snap)
    BY <1>1, <1>2 DEF BidderCarries, ConsumerCarries, ScannerCarries, Carried, Tells
<1>3. ASSUME TopicCarries(a, snap)'
      PROVE  Carried(a, snap)
    <2>1. CASE UNCHANGED msgs
        BY <1>3, <2>1 DEF TopicCarries, Carried, Tells
    <2>2. CASE PublishLast(m) \/ PublishFinal(m)
        <3>1. Tells(SnapshotEvent(work.auction, work.snap), a, snap) => Carried(a, snap)
            BY <2>2 DEF PublishLast, PublishFinal, Tells, SnapshotEvent, Carried, MerchantCarries, At
        <3>2. Send(SnapshotEvent(work.auction, work.snap)) \/ SendFails
            BY <2>2 DEF PublishLast, PublishFinal
        <3> QED BY <1>3, <3>1, <3>2, TopicMoves DEF Carried
    <2> QED BY <2>1, <2>2 DEF MerchantAsks, MerchantWorks, MerchantStops, CreateAuction, UpdateRead, DeleteAuction,
               StartRead, CancelRead, FinishRead, UpdateSave, StartCheck, StartLoad, StartSave,
               CancelSave, CloseScript, SaveFinal
(* A merchant that holds a snapshot held it, or comes from a script or from its cancellation. *)
<1>4. ASSUME NEW n \in Merchants, n # m, (At(n, carrying, a) /\ merchant[n].snap = snap)'
      PROVE  Carried(a, snap)
    <2>1. merchant'[n] = merchant[n]
        BY <1>0, <1>4 DEF MerchantAsks, MerchantWorks, MerchantStops, MerchantGoes, workers, CreateAuction, UpdateRead,
           DeleteAuction, StartRead, CancelRead, FinishRead, UpdateSave, StartCheck, StartLoad, StartSave, PublishLast,
           CancelSave, CloseScript, PublishFinal, SaveFinal
    <2> QED BY <1>4, <2>1 DEF At, Carried, MerchantCarries
<1>5. ASSUME (At(m, carrying, a) /\ merchant[m].snap = snap)'
      PROVE  Source(a, snap)
    <2>1. ASSUME NEW next, MerchantGoes(m, next)
          PROVE  next.pc \in carrying /\ next.auction = a /\ next.snap = snap
        BY <1>0, <1>5, <2>1 DEF MerchantGoes, At
    <2>2. CASE UNCHANGED merchant
        BY <1>5, <2>2 DEF At, Source, Carried, MerchantCarries
    <2>3. ASSUME MerchantGoes(m, Idle)
          PROVE  FALSE
        BY <2>1, <2>3 DEF Idle
    <2>4. CASE StartLoad(m)
        <3> DEFINE next == [pc |-> "start_save", auction |-> work.auction, snap |-> SnapOf(state'[work.auction])]
        <3>1. work.auction \in Auctions
            BY <2>4, MerchantHolds DEF StartLoad, RuleWork
        <3>2. LoadAuction(work.auction, WithEnd(work.rule, clock), clock) /\ MerchantGoes(m, next)
            BY <2>3, <2>4 DEF StartLoad
        <3>3. work.auction = a /\ SnapOf(state'[work.auction]) = snap
            <4> DEFINE s == SnapOf(state'[work.auction])
            <4>1. MerchantGoes(m, [pc |-> "start_save", auction |-> work.auction, snap |-> s])
                BY <3>2
            <4> HIDE DEF s
            <4>2. work.auction = a /\ s = snap
                BY <2>1, <4>1
            <4> QED BY <4>2 DEF s
        <3>4. state'[a].status = Running
            BY <3>1, <3>2, <3>3 DEF LoadAuction, LoadedState, ServiceInv, RedisTypeOK
        <3> QED BY <3>3, <3>4 DEF Source, Fresh, Running, Absent
    <2>5. CASE CloseScript(m)
        <3> DEFINE s == SnapOf(state'[work.auction])
        <3>1. MerchantGoes(m, [pc |-> "publish_final", auction |-> work.auction, snap |-> s])
              /\ work.pc \in {"finish_script", "cancel_script"}
              /\ (FinishAuction(work.auction, clock) \/ CancelAuction(work.auction, clock))
            BY <2>3, <2>5 DEF CloseScript
        <3>2. work.auction \in Auctions
            BY <3>1, MerchantHolds DEF ScriptWork
        <3>3. work.auction = a /\ s = snap
            <4> HIDE DEF s
            <4> QED BY <2>1, <3>1
        <3>4. state'[a].status # Absent
            <4>1. PICK status \in Final : Close(a, status, clock)
                BY <3>1, <3>3, OutcomeIsFinal DEF FinishAuction, CancelAuction, Final
            <4>2. state'[a] = ClosedState(state[a], status, clock) /\ state[a] \in AuctionState
                BY <3>2, <3>3, <4>1 DEF Close, ServiceInv, RedisTypeOK
            <4> QED BY <4>2, AfterClose DEF Final, Absent, Deal, Failed, Canceled
        <3> QED BY <3>3, <3>4 DEF Source, Fresh
    <2>6. CASE StartSave(m) \/ PublishFinal(m)
        <3>1. PICK pc \in {"publish_last", "save_final"} : MerchantGoes(m, [work EXCEPT !.pc = pc])
            BY <2>3, <2>6 DEF StartSave, PublishFinal
        <3>2. work \in SnapWork /\ work.pc \in carrying
            BY <1>0, <2>6 DEF StartSave, PublishFinal
        <3>3. [work EXCEPT !.pc = pc].auction = work.auction /\ [work EXCEPT !.pc = pc].snap = work.snap
            BY <3>2 DEF SnapWork
        <3>4. work.auction = a /\ work.snap = snap
            BY <2>1, <3>1, <3>3
        <3> QED BY <3>2, <3>4 DEF Source, Carried, MerchantCarries, At
    <2>7. CASE CancelSave(m)
        <3>1. /\ MerchantGoes(m, [work EXCEPT !.pc = "publish_last"])
              /\ Newer(work.auction, work.snap) /\ SaveSnapshot(work.auction, work.snap)
            BY <2>3, <2>7 DEF CancelSave
        <3>2. work \in SnapWork /\ work.pc = "cancel_save"
            BY <1>0, <2>7 DEF CancelSave
        <3>3. [work EXCEPT !.pc = "publish_last"].auction = work.auction
              /\ [work EXCEPT !.pc = "publish_last"].snap = work.snap
            BY <3>2 DEF SnapWork
        <3>4. work.auction = a /\ work.snap = snap
            BY <2>1, <3>1, <3>3
        <3> QED BY <2>7, <3>1, <3>2, <3>4 DEF Source, CanceledAlone, At
    <2>8. CASE StartCheck(m)
        <3>1. MerchantGoes(m, [work EXCEPT !.pc = "start_load"]) /\ work \in RuleWork
            BY <2>3, <2>8, MerchantHolds DEF StartCheck
        <3>2. [work EXCEPT !.pc = "start_load"].pc = "start_load"
            BY <3>1 DEF RuleWork
        <3> QED BY <2>1, <3>1, <3>2
    <2>9. CASE \/ \E request \in Updates : UpdateSave(m, request)
               \/ PublishLast(m) \/ SaveFinal(m) \/ MerchantStops(m)
        BY <2>3, <2>9 DEF UpdateSave, PublishLast, SaveFinal, MerchantStops
    <2>10. ASSUME NEW c \in Auctions, UpdateRead(m, c) \/ StartRead(m, c) \/ CancelRead(m, c) \/ FinishRead(m, c)
           PROVE  FALSE
        BY <2>1, <2>10 DEF UpdateRead, StartRead, CancelRead, FinishRead
    <2>11. ASSUME NEW c \in Auctions, DeleteAuction(m, c) \/ \E rule \in Rules : CreateAuction(m, c, rule)
           PROVE  UNCHANGED merchant
        BY <2>11 DEF DeleteAuction, CreateAuction, workers
    <2> QED BY <2>2, <2>4, <2>5, <2>6, <2>7, <2>8, <2>9, <2>10, <2>11 DEF MerchantAsks, MerchantWorks
<1>6. ASSUME MerchantCarries(a, snap)'
      PROVE  Source(a, snap)
    <2> PICK n \in Merchants : (At(n, carrying, a) /\ merchant[n].snap = snap)'
        BY <1>6 DEF MerchantCarries, At
    <2> QED BY <1>4, <1>5 DEF Source
<1> QED BY <1>2, <1>3, <1>6 DEF Carried, Source

(* Bidders: a snapshot from the bid script, then carried along. *)
LEMMA BidderSource ==
    ASSUME ServiceInv, NEW b \in Bidders, BidderAsks(b) \/ BidderWorks(b) \/ BidderStops(b),
           NEW a \in Auctions, NEW snap, Carried(a, snap)'
    PROVE  Source(a, snap)
<1> DEFINE work == bidder[b]
           carrying == {"record", "publish", "publish_delay", "save"}
           Mine(w) == w.pc \in carrying /\ w.auction = a /\ w.snap = snap
<1>0. DOMAIN bidder = Bidders /\ (work.pc \in carrying => work \in BidWork)
    BY BidderHolds DEF ServiceInv, BiddersOK
<1>1. PICK next : BidderGoes(b, next)
    BY DEF BidderAsks, BidderWorks, BidderStops, BidArrives, BidIsAccepted, BidIsRefused, BidRecorded,
           BidPublished, ExpireCheckPublished, BidSaved
<1>2. ASSUME MerchantCarries(a, snap)' \/ ConsumerCarries(a, snap)' \/ ScannerCarries(a, snap)'
      PROVE  Carried(a, snap)
    BY <1>1, <1>2 DEF BidderGoes, MerchantCarries, ConsumerCarries, ScannerCarries, Carried, Tells, At
<1>3. ASSUME TopicCarries(a, snap)'
      PROVE  Carried(a, snap)
    <2>1. CASE UNCHANGED msgs
        BY <1>3, <2>1 DEF TopicCarries, Carried, Tells
    <2>2. CASE BidPublished(b)
        <3>1. Tells(BidEvent(work.auction, work.snap, work.id, work.user), a, snap) => Carried(a, snap)
            BY <2>2 DEF BidPublished, Tells, BidEvent, Carried, BidderCarries
        <3>2. Send(BidEvent(work.auction, work.snap, work.id, work.user)) \/ SendFails
            BY <2>2 DEF BidPublished
        <3> QED BY <1>3, <3>1, <3>2, TopicMoves DEF Carried
    <2>3. CASE ExpireCheckPublished(b)
        <3>1. ~Tells(ExpireCheck(work.auction, work.snap, work.expire), a, snap)
            BY DEF Tells, ExpireCheck
        <3>2. Send(ExpireCheck(work.auction, work.snap, work.expire)) \/ SendFails
            BY <2>3 DEF ExpireCheckPublished
        <3> QED BY <1>3, <3>1, <3>2, TopicMoves DEF Carried
    <2> QED BY <2>1, <2>2, <2>3 DEF BidderAsks, BidderWorks, BidderStops, BidArrives, BidIsAccepted, BidIsRefused,
               BidRecorded, BidSaved
<1>4. ASSUME NEW c \in Bidders, c # b, Mine(bidder'[c])
      PROVE  Carried(a, snap)
    BY <1>0, <1>1, <1>4 DEF BidderGoes, Carried, BidderCarries
<1>5. ASSUME Mine(bidder'[b])
      PROVE  Source(a, snap)
    <2>1. ASSUME NEW w, BidderGoes(b, w)
          PROVE  Mine(w)
        BY <1>0, <1>5, <2>1 DEF BidderGoes
    <2>2. ASSUME BidderGoes(b, Idle)
          PROVE  FALSE
        BY <2>1, <2>2 DEF Idle
    <2>3. ASSUME NEW c \in Auctions, BidArrives(b, c)
          PROVE  FALSE
        BY <2>1, <2>3 DEF BidArrives
    <2>4. ASSUME NEW u \in Users, NEW p \in Prices, NEW req \in Requests, BidIsAccepted(b, u, p, req)
          PROVE  Fresh(a, snap)
        <3> DEFINE s == SnapOf(state'[work.auction])
                   leader == UserIdAsDouble[u]
        <3>1. /\ work.auction \in Auctions /\ state[work.auction] \in AuctionState
              /\ AcceptBid(work.auction, RoomOf[work.auction], leader, p, req, work.now)
            BY <2>4, BidderHolds DEF BidIsAccepted, ArrivedWork, ServiceInv, RedisTypeOK
        <3>2. PICK id, expire :
                 BidderGoes(b, [pc |-> "record", auction |-> work.auction, id |-> id, user |-> u,
                                snap |-> s, expire |-> expire])
            BY <2>4 DEF BidIsAccepted
        <3>3. work.auction = a /\ s = snap
            <4> HIDE DEF s
            <4> QED BY <2>1, <3>2
        <3>4. state'[a] = BidState(state[a], leader, p, work.now) /\ state[a].status = Running
            <4> HIDE DEF leader
            <4> QED BY <3>1, <3>3 DEF AcceptBid, Acceptable, ServiceInv, RedisTypeOK
        <3>5. state'[a].status # Absent
            BY <3>1, <3>3, <3>4, AfterBid DEF Running, Absent
        <3> QED BY <3>3, <3>5 DEF Fresh
    <2>5. CASE BidRecorded(b) \/ BidPublished(b) \/ ExpireCheckPublished(b)
        <3>1. PICK pc \in {"publish", "publish_delay", "save"} : BidderGoes(b, [work EXCEPT !.pc = pc])
            BY <2>5 DEF BidRecorded, BidPublished, ExpireCheckPublished
        <3>2. work \in BidWork /\ work.pc \in carrying
            BY <1>0, <2>5 DEF BidRecorded, BidPublished, ExpireCheckPublished
        <3>3. [work EXCEPT !.pc = pc].auction = work.auction /\ [work EXCEPT !.pc = pc].snap = work.snap
            BY <3>2 DEF BidWork
        <3>4. work.auction = a /\ work.snap = snap
            BY <2>1, <3>1, <3>3
        <3> QED BY <3>2, <3>4 DEF Source, Carried, BidderCarries
    <2> QED BY <2>2, <2>3, <2>4, <2>5
        DEF Source, BidderAsks, BidderWorks, BidderStops, BidIsRefused, BidSaved
<1>6. ASSUME BidderCarries(a, snap)'
      PROVE  Source(a, snap)
    <2> PICK c \in Bidders : Mine(bidder'[c])
        BY <1>6 DEF BidderCarries
    <2> QED BY <1>4, <1>5 DEF Source
<1> QED BY <1>2, <1>3, <1>6 DEF Carried, Source

(* The consumer: its message's snapshot, or the state of an auction that      *)
(* applyExpireCheck finished or found finished.                               *)
LEMMA ConsumerSource ==
    ASSUME ServiceInv, Receive \/ ConsumerWorks \/ ConsumerStops, NEW a \in Auctions, NEW snap, Carried(a, snap)'
    PROVE  Source(a, snap)
<1> DEFINE msg == consumer.msg
           saving == {"save", "publish"}
<1>1. UNCHANGED <<merchant, bidder, scanner>>
    BY DEF Receive, ConsumerWorks, ConsumerStops, ConsumerRecords, ConsumerSaves, ConsumerFinishes, ConsumerRereads,
           ConsumerPublishes, ConsumerGoes, Ack, Retry
<1>2. ASSUME MerchantCarries(a, snap)' \/ BidderCarries(a, snap)' \/ ScannerCarries(a, snap)'
      PROVE  Carried(a, snap)
    BY <1>1, <1>2 DEF MerchantCarries, BidderCarries, ScannerCarries, Carried, At
<1>3. consumer.pc \in {"record", "finish", "reread", "save", "publish"} => msg \in Events /\ consumer.pc # "idle"
    BY ConsumerHolds DEF RecordWork, CheckWork, SaveWork, Events
<1>4. ASSUME Tells(msg, a, snap), consumer.pc # "idle"
      PROVE  Carried(a, snap)
    BY <1>4 DEF Carried, ConsumerCarries
<1>5. ASSUME TopicCarries(a, snap)'
      PROVE  Carried(a, snap)
    <2>1. CASE UNCHANGED msgs
        BY <1>5, <2>1 DEF TopicCarries, Carried, Tells
    <2>2. CASE Ack(msg)
        BY <1>5, <2>2, AckMoves DEF Carried
    <2>3. CASE Retry(msg) /\ (ConsumerRecords \/ ConsumerSaves \/ ConsumerPublishes)
        BY <1>3, <1>4, <1>5, <2>3, RetryMoves DEF Carried, ConsumerRecords, ConsumerSaves, ConsumerPublishes
    <2>4. CASE ConsumerPublishes /\ Send(SnapshotEvent(msg.auction, consumer.snap))
        <3>1. Tells(SnapshotEvent(msg.auction, consumer.snap), a, snap) => Carried(a, snap)
            BY <2>4 DEF ConsumerPublishes, Tells, SnapshotEvent, Carried, ConsumerCarries
        <3> QED BY <1>5, <2>4, <3>1, TopicMoves DEF Carried
    <2> QED BY <2>1, <2>2, <2>3, <2>4
        DEF Receive, ConsumerWorks, ConsumerStops, ConsumerRecords, ConsumerSaves, ConsumerFinishes, ConsumerRereads,
            ConsumerPublishes
<1>6. ASSUME NEW next, ConsumerGoes(next), next.msg = msg, consumer.pc # "idle", ~Fresh(a, snap),
             next.pc \in saving =>
                \/ (next.snap = consumer.snap /\ consumer.pc \in saving)
                \/ (next.snap = msg.snap /\ msg.kind \in {"snapshot", "bid"})
                \/ (next.snap = SnapOf(state'[msg.auction]) /\ state'[msg.auction].status # Absent),
             ConsumerCarries(a, snap)'
      PROVE  Carried(a, snap)
    <2>1. consumer' = next
        BY <1>6 DEF ConsumerGoes
    <2>2. CASE Tells(next.msg, a, snap)
        BY <1>4, <1>6, <2>2
    <2>3. CASE next.pc \in saving /\ next.msg.auction = a /\ next.snap = snap
        BY <1>6, <2>3 DEF Carried, ConsumerCarries, Tells, Fresh
    <2> QED BY <1>6, <2>1, <2>2, <2>3 DEF ConsumerCarries, Tells
<1>7. ASSUME ConsumerCarries(a, snap)', ~Fresh(a, snap)
      PROVE  Carried(a, snap)
    <2>0. ASSUME ConsumerGoes(Idle)
          PROVE  FALSE
        BY <1>7, <2>0 DEF ConsumerGoes, ConsumerCarries, Idle
    <2>1. CASE Receive
        <3>1. PICK m \in msgs :
                ConsumerGoes(
                 CASE m.kind = "bid" -> [pc |-> "record", msg |-> m]
                   [] m.kind = "snapshot" -> [pc |-> "save", msg |-> m, snap |-> m.snap]
                   [] m.kind = "expire" -> [pc |-> "finish", msg |-> m])
            BY <2>1 DEF Receive
        <3>2. m \in Events
            BY DEF ServiceInv, MsgsOK
        <3>3. m.kind \in {"bid", "snapshot", "expire"}
            BY <3>2 DEF Events, SnapshotEvents, BidEvents, ExpireChecks
        <3>4. Tells(m, a, snap)
            BY <1>7, <3>1, <3>3 DEF ConsumerGoes, ConsumerCarries, Tells
        <3> QED BY <3>4 DEF Carried, TopicCarries
    <2>2. CASE ConsumerRecords
        <3>1. ConsumerGoes([pc |-> "save", msg |-> msg, snap |-> msg.snap])
            BY <2>0, <2>2 DEF ConsumerRecords, Ack, Retry
        <3>2. msg.kind = "bid" /\ consumer.pc # "idle"
            BY <2>2, ConsumerHolds DEF ConsumerRecords, RecordWork, BidEvents
        <3> QED BY <1>6, <1>7, <3>1, <3>2
    <2>3. CASE ConsumerFinishes
        <3>1. consumer.pc # "idle" /\ msg.auction \in Auctions
            BY <2>3, ConsumerHolds DEF ConsumerFinishes, CheckWork, ExpireChecks
        <3>2. CASE ConsumerGoes([pc |-> "reread", msg |-> msg])
            BY <1>6, <1>7, <3>1, <3>2
        <3>3. CASE /\ FinishExpiredAuction(msg.auction, msg.version, msg.expire, clock)
                   /\ ConsumerGoes([pc |-> "publish", msg |-> msg, snap |-> SnapOf(state'[msg.auction])])
            <4> DEFINE s == SnapOf(state'[msg.auction])
            <4>1. state'[msg.auction].status # Absent
                <5>1. PICK status \in Final : Close(msg.auction, status, clock)
                    BY <3>3, OutcomeIsFinal DEF FinishExpiredAuction, Final
                <5>2. /\ state'[msg.auction] = ClosedState(state[msg.auction], status, clock)
                      /\ state[msg.auction] \in AuctionState
                    BY <3>1, <5>1 DEF Close, ServiceInv, RedisTypeOK
                <5> QED BY <5>2, AfterClose DEF Final, Absent, Deal, Failed, Canceled
            <4>2. s = SnapOf(state'[msg.auction])
                OBVIOUS
            <4> HIDE DEF s
            <4>3. ConsumerGoes([pc |-> "publish", msg |-> msg, snap |-> s])
                BY <3>3, <4>2
            <4> QED BY <1>6, <1>7, <3>1, <4>1, <4>2, <4>3
        <3> QED BY <2>3, <3>2, <3>3 DEF ConsumerFinishes
    <2>4. CASE ConsumerRereads
        <3> DEFINE s == SnapOf(state[msg.auction])
        <3>1. /\ ConsumerGoes([pc |-> "publish", msg |-> msg, snap |-> s])
              /\ state[msg.auction].status \in {Deal, Failed} /\ state' = state /\ consumer.pc # "idle"
            BY <2>0, <2>4 DEF ConsumerRereads, Ack, redisVars
        <3>2. state'[msg.auction].status # Absent /\ s = SnapOf(state'[msg.auction])
            BY <3>1 DEF Absent, Deal, Failed
        <3> HIDE DEF s
        <3> QED BY <1>6, <1>7, <3>1, <3>2
    <2>5. CASE ConsumerPublishes
        <3>1. ConsumerGoes([consumer EXCEPT !.pc = "save"]) /\ consumer \in SaveWork /\ consumer.pc \in saving
            BY <2>0, <2>5, ConsumerHolds DEF ConsumerPublishes, Retry
        <3>2. /\ [consumer EXCEPT !.pc = "save"].msg = msg
              /\ [consumer EXCEPT !.pc = "save"].snap = consumer.snap
            BY <3>1 DEF SaveWork
        <3> QED BY <1>6, <1>7, <3>1, <3>2
    <2> QED BY <2>0, <2>1, <2>2, <2>3, <2>4, <2>5 DEF ConsumerWorks, ConsumerStops, ConsumerSaves, Ack, Retry
<1> QED BY <1>2, <1>5, <1>7 DEF Carried, Source

(* Scanners: the state of an auction they finished. *)
LEMMA ScannerSource ==
    ASSUME ServiceInv, NEW s \in Scanners, ScannerWorks(s) \/ ScannerStops(s),
           NEW a \in Auctions, NEW snap, Carried(a, snap)'
    PROVE  Source(a, snap)
<1> DEFINE work == scanner[s]
           Mine(w) == w.pc \in {"publish", "save"} /\ w.auction = a /\ w.snap = snap
<1>0. DOMAIN scanner = Scanners
    BY DEF ServiceInv, ScannersOK
<1>1. PICK next : ScannerGoes(s, next)
    BY DEF ScannerWorks, ScannerStops, ScanLists, ScanReads, ScanReindexes, ScanFinishes, ScanRereads, ScanPublishes,
           ScanSaves, ScannerLeaves
<1>2. ASSUME MerchantCarries(a, snap)' \/ BidderCarries(a, snap)' \/ ConsumerCarries(a, snap)'
      PROVE  Carried(a, snap)
    BY <1>1, <1>2 DEF ScannerGoes, MerchantCarries, BidderCarries, ConsumerCarries, Carried, Tells, At
<1>3. ASSUME TopicCarries(a, snap)'
      PROVE  Carried(a, snap)
    <2>1. CASE UNCHANGED msgs
        BY <1>3, <2>1 DEF TopicCarries, Carried, Tells
    <2>2. CASE ScanPublishes(s)
        <3>1. Tells(SnapshotEvent(work.auction, work.snap), a, snap) => Carried(a, snap)
            BY <2>2 DEF ScanPublishes, Tells, SnapshotEvent, Carried, ScannerCarries
        <3>2. Send(SnapshotEvent(work.auction, work.snap)) \/ SendFails
            BY <2>2 DEF ScanPublishes
        <3> QED BY <1>3, <3>1, <3>2, TopicMoves DEF Carried
    <2> QED BY <2>1, <2>2 DEF ScannerWorks, ScannerStops, ScanLists, ScanReads, ScanReindexes, ScanFinishes, ScanRereads,
               ScanSaves
<1>4. ASSUME NEW c \in Scanners, c # s, Mine(scanner'[c])
      PROVE  Carried(a, snap)
    BY <1>0, <1>1, <1>4 DEF ScannerGoes, Carried, ScannerCarries
<1>5. ASSUME Mine(scanner'[s])
      PROVE  Source(a, snap)
    <2>1. ASSUME NEW w, ScannerGoes(s, w)
          PROVE  Mine(w)
        BY <1>0, <1>5, <2>1 DEF ScannerGoes
    <2>2. ASSUME NEW w, ScannerGoes(s, w), w.pc \in {"idle", "read", "remove", "reindex", "finish", "reread"}
          PROVE  FALSE
        BY <2>1, <2>2
    <2>3. ASSUME NEW c, ScannerLeaves(s, c)
          PROVE  FALSE
        BY <2>2, <2>3 DEF ScannerLeaves, Idle
    <2>4. CASE ScanLists(s) \/ ScanReads(s) \/ ScannerStops(s) \/ ScanReindexes(s) \/ ScanSaves(s)
        BY <2>2, <2>3, <2>4 DEF ScanLists, ScanReads, ScannerStops, ScanReindexes, ScanSaves, Idle, Verdict
    <2>5. CASE ScanRereads(s)
        <3>1. PICK pc \in {"reindex", "remove"} :
                 ScannerGoes(s, [work EXCEPT !.pc = pc, !.expire = state[work.auction].expire])
            BY <2>5 DEF ScanRereads
        <3>2. work \in CandidateWork
            BY <2>5, ScannerHolds DEF ScanRereads
        <3>3. [work EXCEPT !.pc = pc, !.expire = state[work.auction].expire].pc = pc
            BY <3>2 DEF CandidateWork
        <3> QED BY <2>2, <3>1, <3>3
    <2>6. CASE ScanFinishes(s)
        <3>1. work.auction \in Auctions /\ work \in CandidateWork
            BY <2>6, ScannerHas, ScannerHolds DEF ScanFinishes
        <3>2. CASE ScannerGoes(s, [work EXCEPT !.pc = "reread"])
            <4>1. [work EXCEPT !.pc = "reread"].pc = "reread"
                BY <3>1 DEF CandidateWork
            <4> QED BY <2>2, <3>2, <4>1
        <3>3. CASE /\ FinishExpiredAuction(work.auction, work.version, work.expire, work.now)
                   /\ ScannerGoes(s, [pc |-> "publish", todo |-> work.todo, now |-> work.now,
                                      auction |-> work.auction, snap |-> SnapOf(state'[work.auction])])
            <4> DEFINE t == SnapOf(state'[work.auction])
            <4>1. work.auction = a /\ t = snap
                <5> HIDE DEF t
                <5>1. ScannerGoes(s, [pc |-> "publish", todo |-> work.todo, now |-> work.now,
                                      auction |-> work.auction, snap |-> t])
                    BY <3>3 DEF t
                <5> QED BY <2>1, <5>1
            <4>2. PICK status \in Final : Close(a, status, work.now)
                BY <3>3, <4>1, OutcomeIsFinal DEF FinishExpiredAuction, Final
            <4>3. state'[a] = ClosedState(state[a], status, work.now) /\ state[a] \in AuctionState
                BY <3>1, <4>1, <4>2 DEF Close, ServiceInv, RedisTypeOK
            <4>4. state'[a].status # Absent
                BY <4>3, AfterClose DEF Final, Absent, Deal, Failed, Canceled
            <4> QED BY <4>1, <4>4 DEF Source, Fresh
        <3> QED BY <2>6, <3>2, <3>3 DEF ScanFinishes
    <2>7. CASE ScanPublishes(s)
        <3>1. ScannerGoes(s, [work EXCEPT !.pc = "save"]) /\ work \in ClosedWork
            BY <2>3, <2>7, ScannerHolds DEF ScanPublishes
        <3>2. [work EXCEPT !.pc = "save"].auction = work.auction /\ [work EXCEPT !.pc = "save"].snap = work.snap
            BY <3>1 DEF ClosedWork
        <3>3. work.auction = a /\ work.snap = snap /\ work.pc \in {"publish", "save"}
            BY <2>1, <3>1, <3>2 DEF ClosedWork
        <3> QED BY <3>3 DEF Source, Carried, ScannerCarries
    <2> QED BY <2>4, <2>5, <2>6, <2>7 DEF ScannerWorks
<1>6. ASSUME ScannerCarries(a, snap)'
      PROVE  Source(a, snap)
    <2> PICK c \in Scanners : Mine(scanner'[c])
        BY <1>6 DEF ScannerCarries
    <2> QED BY <1>4, <1>5 DEF Source
<1> QED BY <1>2, <1>3, <1>6 DEF Carried, Source

(* No snapshot comes from nowhere. *)
LEMMA SnapshotSource ==
    ASSUME ServiceInv, [Next]_vars, NEW a \in Auctions, NEW snap, Carried(a, snap)'
    PROVE  Source(a, snap)
<1>1. CASE UNCHANGED vars \/ Tick
    <2>1. UNCHANGED <<merchant, bidder, consumer, scanner, msgs>>
        BY <1>1 DEF vars, workers, Tick
    <2> QED BY <2>1 DEF Source, Carried, MerchantCarries, BidderCarries, TopicCarries, ConsumerCarries, ScannerCarries,
               Tells, At
<1> QED BY <1>1, MerchantSource, BidderSource, ConsumerSource, ScannerSource DEF Next

-----------------------------------------------------------------------------
(* The row mirrors Redis.  This is about one merchant's request at a time, and *)
(* about starts that do not stop between their Redis load and their row        *)
(* update: two starts at once do load an auction twice.  The rest may fail,    *)
(* stop and interleave at will.                                               *)

OneAtATime == (\A m, n \in Merchants : m = n) /\ "start" \notin Faults

(* RowMirrorsRedis is not inductive: what the row will be is under way in      *)
(* snapshots.  Each is a former state of the hash, and so is the row; a final  *)
(* one is the hash's last state, because a closed hash takes no more writes.   *)
RowFits(a) ==
    Exists(a) =>
        /\ db[a].version <= state[a].version
        /\ (db[a].version = state[a].version \/ db[a].status \in Final) => SnapOf(db[a]) = SnapOf(state[a])

(* With no hash there is but the cancellation of the Pending row, once saved. *)
Follows(a, snap) ==
    IF Exists(a)
    THEN /\ snap.version <= state[a].version
         /\ (snap.version = state[a].version \/ snap.status \in Final) => snap = SnapOf(state[a])
    ELSE db[a].status = Canceled /\ snap = SnapOf(db[a])

SnapshotsFollow(a) == \A snap : Carried(a, snap) => Follows(a, snap)

(* No start meets a hash that is there already. *)
HashVersion(a) ==
    /\ Exists(a) => state[a].version > 0
    /\ ~Exists(a) => state[a].version = 0

UnstartedRow(a) == db[a].status \in {Absent, Pending} => db[a].version = 0

StartedRow(a) ==
    Exists(a) => db[a].status \notin {Absent, Pending} \/ \E m \in Merchants : At(m, {"start_save"}, a)

Unloaded(a) ==
    \A m \in Merchants : At(m, {"start_check", "start_load"}, a) => ~Exists(a) /\ StillPending(a)

StartSaving(a) ==
    \A m \in Merchants : At(m, {"start_save"}, a) => Live(a) /\ merchant[m].snap.version > 0

CancelSaving(a) ==
    \A m \in Merchants :
        At(m, {"cancel_save"}, a) =>
            ~Exists(a) /\ db[a].status = Pending /\ merchant[m].snap.status = Canceled

Mirrors(a) ==
    /\ RowFits(a) /\ SnapshotsFollow(a) /\ HashVersion(a)
    /\ UnstartedRow(a) /\ StartedRow(a)
    /\ Unloaded(a) /\ StartSaving(a) /\ CancelSaving(a)

(* How a merchant comes to be where its invariants matter. *)
LEMMA MerchantPlaces ==
    ASSUME ServiceInv, OneAtATime, [Next]_vars, NEW m \in Merchants, NEW a \in Auctions
    PROVE  \/ merchant'[m] = merchant[m]
           \/ /\ merchant[m].pc = "idle" /\ UNCHANGED <<redisVars, db>>
              /\ At(m, {"start_check", "start_load"}, a)' => StillPending(a)
              /\ At(m, {"cancel_save"}, a)' => db[a].status = Pending /\ merchant'[m].snap.status = Canceled
              /\ merchant'[m].pc \notin {"start_load", "start_save"}
           \/ /\ merchant[m].pc = "start_check" /\ UNCHANGED <<redisVars, db>>
              /\ merchant'[m].pc \in {"start_load", "idle"}
              /\ merchant'[m].pc = "start_load" =>
                    merchant'[m].auction = merchant[m].auction
           \/ Loaded(m)
           \/ /\ merchant[m].pc = "start_save" /\ UNCHANGED redisVars
              /\ SaveSnapshot(merchant[m].auction, merchant[m].snap)
              /\ merchant'[m].pc = "publish_last"
           \/ merchant'[m].pc \notin {"start_check", "start_load", "start_save", "cancel_save"}
              /\ merchant[m].pc # "start_save"
<1> DEFINE work == merchant[m]
<1>0. DOMAIN merchant = Merchants
    BY DEF ServiceInv, MerchantsOK
<1>1. ASSUME NEW next, MerchantGoes(m, next)
      PROVE  merchant'[m] = next
    BY <1>0, <1>1 DEF MerchantGoes
<1>2. CASE UNCHANGED merchant
    BY <1>2
<1> Idle.pc = "idle"
    BY DEF Idle
<1>3. ASSUME NEW c \in Auctions, UpdateRead(m, c) \/ FinishRead(m, c) \/ StartRead(m, c)
      PROVE  /\ merchant[m].pc = "idle" /\ UNCHANGED <<redisVars, db>>
             /\ At(m, {"start_check", "start_load"}, a)' => StillPending(a)
             /\ merchant'[m].pc \notin {"cancel_save", "start_load", "start_save"}
    BY <1>1, <1>3 DEF UpdateRead, FinishRead, StartRead, At, Idle
<1>4. ASSUME NEW c \in Auctions, CancelRead(m, c)
      PROVE  /\ merchant[m].pc = "idle" /\ UNCHANGED <<redisVars, db>>
             /\ At(m, {"cancel_save"}, a)' => db[a].status = Pending /\ merchant'[m].snap.status = Canceled
             /\ merchant'[m].pc \notin {"start_check", "start_load", "start_save"}
    <2>1. merchant[m].pc = "idle" /\ UNCHANGED <<redisVars, db>>
        BY <1>4 DEF CancelRead, Idle
    <2>2. CASE CancelsRowAlone(db[c])
        <3>1. PICK snap : /\ MerchantGoes(m, [pc |-> "cancel_save", auction |-> c, snap |-> snap])
                          /\ snap.status = Canceled
            BY <1>4, <2>2 DEF CancelRead
        <3> QED BY <1>1, <2>1, <2>2, <3>1 DEF At, CancelsRowAlone
    <2>3. CASE ~CancelsRowAlone(db[c])
        <3>1. MerchantGoes(m, [pc |-> "cancel_script", auction |-> c])
            BY <1>4, <2>3 DEF CancelRead
        <3> QED BY <1>1, <2>1, <3>1 DEF At
    <2> QED BY <2>2, <2>3
<1>5. CASE StartCheck(m)
    <2>1. work \in RuleWork
        BY <1>5, MerchantHolds DEF StartCheck
    <2>2. [work EXCEPT !.pc = "start_load"].pc = "start_load"
          /\ [work EXCEPT !.pc = "start_load"].auction = work.auction
        BY <2>1 DEF RuleWork
    <2>3. merchant'[m] = [work EXCEPT !.pc = "start_load"] \/ merchant'[m] = Idle
        BY <1>1, <1>5 DEF StartCheck
    <2>4. work.pc = "start_check" /\ UNCHANGED <<redisVars, db>>
        BY <1>5 DEF StartCheck
    <2> QED BY <2>2, <2>3, <2>4
<1>6. CASE StartLoad(m)
    <2>1. CASE MerchantGoes(m, Idle)
        BY <1>1, <1>6, <2>1 DEF StartLoad, Idle
    <2>2. CASE ~MerchantGoes(m, Idle)
        BY <1>6, <2>2 DEF StartLoad, Loaded
    <2> QED BY <2>1, <2>2
<1>7. CASE StartSave(m)
    <2>1. ~Fault("start")
        BY DEF OneAtATime, Fault
    <2>2. work \in SnapWork
        BY <1>7, MerchantHolds DEF StartSave
    <2>3. [work EXCEPT !.pc = "publish_last"].pc = "publish_last"
        BY <2>2 DEF SnapWork
    <2> QED BY <1>1, <1>7, <2>1, <2>3 DEF StartSave
<1>8. CASE PublishFinal(m) \/ CancelSave(m)
    <2>1. work \in SnapWork /\ work.pc # "start_save"
        BY <1>8, MerchantHolds DEF PublishFinal, CancelSave
    <2>2. \A pc \in {"publish_last", "save_final"} : [work EXCEPT !.pc = pc].pc = pc
        BY <2>1 DEF SnapWork
    <2>3. \/ merchant'[m] = Idle
          \/ \E pc \in {"publish_last", "save_final"} : merchant'[m] = [work EXCEPT !.pc = pc]
        BY <1>1, <1>8 DEF PublishFinal, CancelSave
    <2>4. merchant'[m].pc \in {"idle", "publish_last", "save_final"}
        BY <2>2, <2>3
    <2> QED BY <2>1, <2>4
<1>9. CASE \/ \E request \in Updates : UpdateSave(m, request)
           \/ PublishLast(m) \/ CloseScript(m) \/ SaveFinal(m) \/ MerchantStops(m)
    <2>1. \/ MerchantGoes(m, Idle)
          \/ \E snap : MerchantGoes(m, [pc |-> "publish_final", auction |-> work.auction, snap |-> snap])
        BY <1>9 DEF UpdateSave, PublishLast, CloseScript, SaveFinal, MerchantStops
    <2>2. merchant'[m].pc \in {"idle", "publish_final"}
        <3>1. ASSUME NEW snap, MerchantGoes(m, [pc |-> "publish_final", auction |-> work.auction, snap |-> snap])
              PROVE  merchant'[m].pc = "publish_final"
            BY <1>1, <3>1
        <3>2. ASSUME MerchantGoes(m, Idle)
              PROVE  merchant'[m].pc = "idle"
            BY <1>1, <3>2
        <3> QED BY <2>1, <3>1, <3>2
    <2>3. work.pc # "start_save"
        BY <1>9 DEF UpdateSave, PublishLast, CloseScript, SaveFinal, MerchantStops
    <2> QED BY <2>2, <2>3
<1>10. ASSUME NEW c \in Auctions, DeleteAuction(m, c) \/ \E rule \in Rules : CreateAuction(m, c, rule)
       PROVE  UNCHANGED merchant
    BY <1>10 DEF DeleteAuction, CreateAuction, workers
<1>11. CASE UNCHANGED vars \/ Tick
    BY <1>2, <1>11 DEF vars, workers, Tick
<1>12. ASSUME NEW b \in Bidders, BidderAsks(b) \/ BidderWorks(b) \/ BidderStops(b)
       PROVE  UNCHANGED merchant
    BY <1>12 DEF BidderAsks, BidderWorks, BidderStops, BidArrives, BidIsAccepted, BidIsRefused, BidRecorded,
           BidPublished, ExpireCheckPublished, BidSaved, BidderGoes
<1>13. ASSUME Receive \/ ConsumerWorks \/ ConsumerStops
       PROVE  UNCHANGED merchant
    BY <1>13 DEF Receive, ConsumerWorks, ConsumerStops, ConsumerRecords, ConsumerSaves, ConsumerFinishes, ConsumerRereads,
           ConsumerPublishes, ConsumerGoes, Ack, Retry
<1>14. ASSUME NEW s \in Scanners, ScannerWorks(s) \/ ScannerStops(s)
       PROVE  UNCHANGED merchant
    BY <1>14 DEF ScannerWorks, ScannerStops, ScanLists, ScanReads, ScanReindexes, ScanFinishes, ScanRereads, ScanPublishes,
           ScanSaves, ScannerLeaves, ScannerGoes
<1>15. ASSUME MerchantAsks(m), ~UNCHANGED merchant
       PROVE  /\ merchant[m].pc = "idle" /\ UNCHANGED <<redisVars, db>>
              /\ At(m, {"start_check", "start_load"}, a)' => StillPending(a)
              /\ At(m, {"cancel_save"}, a)' => db[a].status = Pending /\ merchant'[m].snap.status = Canceled
              /\ merchant'[m].pc \notin {"start_load", "start_save"}
    BY <1>3, <1>4, <1>10, <1>15 DEF MerchantAsks, At
<1>16. \A n \in Merchants : n = m
    BY DEF OneAtATime
<1>17. CASE MerchantWorks(m)
    BY <1>5, <1>6, <1>7, <1>8, <1>9, <1>17 DEF MerchantWorks
<1> QED BY <1>2, <1>9, <1>11, <1>12, <1>13, <1>14, <1>15, <1>16, <1>17 DEF Next

(* A snapshot is its five fields, all copied from the hash.                    *)
LEMMA SnapFields ==
    ASSUME NEW x, NEW y, SnapOf(x) = SnapOf(y)
    PROVE  x.status = y.status /\ x.price = y.price /\ x.bids = y.bids /\ x.winner = y.winner /\ x.version = y.version
BY DEF SnapOf

(* A row with a snapshot's columns has each of them. *)
LEMMA SnapIsFields ==
    ASSUME NEW x, NEW snap, SnapOf(x) = snap
    PROVE  /\ x.status = snap.status /\ x.version = snap.version
           /\ x.price = snap.price /\ x.bids = snap.bids /\ x.winner = snap.winner
BY DEF SnapOf

(* The names of statuses are different strings.                                *)
LEMMA StatusesDiffer ==
    /\ Absent # Pending /\ Absent # Running /\ Pending # Running
    /\ Absent \notin Final /\ Pending \notin Final /\ Running \notin Final /\ Canceled \in Final
BY DEF Absent, Pending, Running, Final, Deal, Failed, Canceled

(* The load of a Pending row that has no hash. *)
LEMMA LoadedMirrors ==
    ASSUME ServiceInv, OneAtATime, NEW m \in Merchants, Loaded(m), NEW a \in Auctions, merchant[m].auction = a, Mirrors(a)
    PROVE  /\ ~Exists(a) /\ StillPending(a) /\ UNCHANGED db
           /\ state'[a].status = Running /\ state'[a].version = 1
           /\ At(m, {"start_save"}, a)' /\ merchant'[m].snap.version = 1
<1>1. ~Exists(a) /\ StillPending(a) /\ UNCHANGED db
    BY DEF Loaded, Mirrors, Unloaded, At
<1>2. state'[a] = LoadedState(WithEnd(merchant[m].rule, clock), clock)
    BY DEF Loaded, LoadAuction, ServiceInv, RedisTypeOK
<1>3. state'[a].status = Running /\ state'[a].version = 1
    BY <1>2 DEF LoadedState
<1> DEFINE s == SnapOf(state'[a])
<1>4. s.version = 1
    BY <1>3 DEF SnapOf
<1>5. merchant'[m] = [pc |-> "start_save", auction |-> a, snap |-> s]
    BY DEF Loaded, MerchantGoes, ServiceInv, MerchantsOK
<1> HIDE DEF s
<1>6. At(m, {"start_save"}, a)' /\ merchant'[m].snap.version = 1
    BY <1>4, <1>5 DEF At
<1> QED BY <1>1, <1>3, <1>6

(* A row whose merchant is about to load it, or to cancel it, is left alone   *)
(* until then: there is no snapshot of it under way.                          *)
LEMMA BusyRow ==
    ASSUME OneAtATime, NEW a \in Auctions, Mirrors(a), RowMoves(a), NEW m \in Merchants,
           At(m, {"start_check", "start_load", "cancel_save"}, a), ~CancelSave(m), ~Exists(a), db[a].status = Pending
    PROVE  db'[a] = db[a]
<1>1. \A n \in Merchants : n = m
    BY DEF OneAtATime
<1>2. ~Saved(a)
    <2>1. ASSUME NEW snap, Carried(a, snap) PROVE FALSE
        BY <2>1 DEF Mirrors, SnapshotsFollow, Follows, Canceled, Pending
    <2> QED BY <1>1, <2>1 DEF Saved, CanceledAlone
<1>3. ~Created(a) /\ ~Deleted(a) /\ ~Updated(a)
    BY <1>1, StatusesDiffer DEF Created, Deleted, Updated, At
<1> QED BY <1>2, <1>3 DEF RowMoves

(* A cancellation of a Pending row finds nothing in Redis.                     *)
LEMMA CancelSaveLeaves ==
    ASSUME ServiceInv, NEW m \in Merchants, CancelSave(m)
    PROVE  merchant'[m].pc \in {"publish_last", "idle"} /\ UNCHANGED redisVars
<1>1. merchant[m] \in SnapWork
    BY MerchantHolds DEF CancelSave
<1>2. [merchant[m] EXCEPT !.pc = "publish_last"].pc = "publish_last"
    BY <1>1 DEF SnapWork
<1>3. Idle.pc = "idle"
    BY DEF Idle
<1>4. merchant'[m] = [merchant[m] EXCEPT !.pc = "publish_last"] \/ merchant'[m] = Idle
    BY DEF CancelSave, MerchantGoes, ServiceInv, MerchantsOK
<1> QED BY <1>2, <1>3, <1>4 DEF CancelSave

(* One step, conjunct by conjunct. *)

(* Each part of MirrorInv is kept by every step.                               *)
LEMMA UnloadedStep ==
    ASSUME ServiceInv, OneAtATime, [Next]_vars, NEW a \in Auctions, Mirrors(a)
    PROVE  Unloaded(a)'
<1> SUFFICES ASSUME NEW m \in Merchants, At(m, {"start_check", "start_load"}, a)'
             PROVE  (~Exists(a) /\ StillPending(a))'
    BY DEF Unloaded, At
<1> USE DEF At
<1>1. \A n \in Merchants : n = m
    BY DEF OneAtATime
<1>2. CASE merchant'[m] = merchant[m]
    <2>1. ~Exists(a) /\ StillPending(a)
        BY <1>2 DEF Mirrors, Unloaded
    <2>2. ~CancelSave(m)
        BY <1>2 DEF CancelSave
    <2>3. db'[a] = db[a]
        BY <1>2, <2>1, <2>2, BusyRow, ServiceRowSteps DEF StillPending
    <2>4. state'[a] = state[a]
        BY <1>1, <1>2, <2>1, ServiceHashSteps, LoadedMirrors, StatusesDiffer DEF HashGrows, Exists, IsRunning
    <2> QED BY <2>1, <2>3, <2>4 DEF Exists, StillPending, Live
<1>3. CASE /\ merchant[m].pc = "idle" /\ UNCHANGED <<redisVars, db>>
           /\ At(m, {"start_check", "start_load"}, a)' => StillPending(a)
    <2>1. ~Exists(a)
        BY <1>1, <1>3 DEF Mirrors, StartedRow, StillPending
    <2> QED BY <1>3, <2>1 DEF Exists, StillPending, Live, redisVars
<1>4. CASE /\ merchant[m].pc = "start_check" /\ UNCHANGED <<redisVars, db>>
           /\ merchant'[m].pc \in {"start_load", "idle"}
           /\ merchant'[m].pc = "start_load" => merchant'[m].auction = merchant[m].auction
    <2>1. ~Exists(a) /\ StillPending(a)
        BY <1>4 DEF Mirrors, Unloaded
    <2> QED BY <1>4, <2>1 DEF Exists, StillPending, Live, redisVars
<1>5. ~Loaded(m)
    BY DEF Loaded, MerchantGoes, ServiceInv, MerchantsOK
<1> QED BY <1>2, <1>3, <1>4, <1>5, MerchantPlaces

(* The row of a start that loaded its hash is not deleted before it is saved. *)
LEMMA StartSavingStep ==
    ASSUME ServiceInv, OneAtATime, [Next]_vars, NEW a \in Auctions, Mirrors(a)
    PROVE  StartSaving(a)'
<1> SUFFICES ASSUME NEW m \in Merchants, At(m, {"start_save"}, a)'
             PROVE  Live(a)' /\ merchant'[m].snap.version > 0
    BY DEF StartSaving, At
<1>1. \A n \in Merchants : n = m
    BY DEF OneAtATime
<1>2. CASE merchant'[m] = merchant[m]
    <2>1. Live(a) /\ merchant[m].snap.version > 0 /\ merchant[m].pc = "start_save"
        BY <1>2 DEF Mirrors, StartSaving, At
    <2>2. CASE Saved(a)
        <3>1. PICK snap \in Snapshot : SnapOf(db'[a]) = snap /\ db'[a].deleted = db[a].deleted
            BY <2>2 DEF Saved
        <3>2. db'[a].status = snap.status
            BY <3>1, SnapIsFields
        <3>3. snap.status # Absent
            BY DEF Snapshot, Final, Absent, Running, Deal, Failed, Canceled
        <3> QED BY <1>2, <2>1, <3>1, <3>2, <3>3 DEF Live
    <2>3. ~Created(a) /\ ~Deleted(a) /\ ~Updated(a)
        BY <1>1, <2>1 DEF Created, Deleted, Updated, Live
    <2> QED BY <1>2, <2>1, <2>2, <2>3, ServiceRowSteps DEF RowMoves, Live
<1>3. CASE Loaded(m)
    <2>1. merchant'[m].auction = merchant[m].auction
        BY <1>3 DEF Loaded, MerchantGoes, ServiceInv, MerchantsOK
    <2>2. merchant[m].auction = a
        BY <2>1 DEF At
    <2>3. StillPending(a) /\ UNCHANGED db /\ merchant'[m].snap.version = 1
        BY <1>3, <2>2, LoadedMirrors
    <2> QED BY <2>3 DEF StillPending, Live
<1>4. ~(merchant'[m].pc \in {"start_load", "idle", "publish_last"}) /\ ~(merchant'[m].pc # "start_save")
    BY DEF At
<1> QED BY <1>2, <1>3, <1>4, MerchantPlaces DEF At

(* The row that a request cancels alone stays Pending without a hash. *)
LEMMA CancelSavingStep ==
    ASSUME ServiceInv, OneAtATime, [Next]_vars, NEW a \in Auctions, Mirrors(a)
    PROVE  CancelSaving(a)'
<1> SUFFICES ASSUME NEW m \in Merchants, At(m, {"cancel_save"}, a)'
             PROVE  (~Exists(a) /\ db[a].status = Pending)' /\ merchant'[m].snap.status = Canceled
    BY DEF CancelSaving, At
<1> USE DEF At
<1>1. \A n \in Merchants : n = m
    BY DEF OneAtATime
<1>2. CASE merchant'[m] = merchant[m]
    <2>1. ~Exists(a) /\ db[a].status = Pending /\ merchant[m].snap.status = Canceled
        BY <1>2 DEF Mirrors, CancelSaving
    <2>2. ~CancelSave(m)
        BY <1>2, CancelSaveLeaves
    <2>3. db'[a] = db[a]
        BY <1>2, <2>1, <2>2, BusyRow, ServiceRowSteps
    <2>4. state'[a] = state[a]
        BY <1>1, <1>2, <2>1, ServiceHashSteps, LoadedMirrors, StatusesDiffer DEF HashGrows, Exists, IsRunning
    <2> QED BY <1>2, <2>1, <2>3, <2>4 DEF Exists
<1>3. CASE /\ merchant[m].pc = "idle" /\ UNCHANGED <<redisVars, db>>
           /\ At(m, {"cancel_save"}, a)' => db[a].status = Pending /\ merchant'[m].snap.status = Canceled
    <2>1. ~Exists(a)
        BY <1>1, <1>3 DEF Mirrors, StartedRow
    <2> QED BY <1>3, <2>1 DEF Exists, redisVars
<1>4. ~Loaded(m)
    BY DEF Loaded, MerchantGoes, ServiceInv, MerchantsOK
<1> QED BY <1>2, <1>3, <1>4, MerchantPlaces

(* The version of a hash is positive, and counts from none. *)
LEMMA HashVersionStep ==
    ASSUME ServiceInv, OneAtATime, [Next]_vars, NEW a \in Auctions, Mirrors(a)
    PROVE  HashVersion(a)'
<1>1. state[a].version \in Nat
    BY DEF ServiceInv, RedisTypeOK, AuctionState
<1>2. CASE state'[a] = state[a]
    BY <1>2 DEF Mirrors, HashVersion, Exists
<1>3. CASE HashGrows(a)
    BY <1>1, <1>3 DEF HashGrows, HashVersion, Exists
<1>4. ASSUME NEW m \in Merchants, merchant[m].auction = a, Loaded(m)
      PROVE  HashVersion(a)'
    BY <1>4, LoadedMirrors, StatusesDiffer DEF HashVersion, Exists
<1> QED BY <1>2, <1>3, <1>4, ServiceHashSteps

(* A row that never started has version 0. *)
LEMMA UnstartedRowStep ==
    ASSUME ServiceInv, OneAtATime, [Next]_vars, NEW a \in Auctions, Mirrors(a)
    PROVE  UnstartedRow(a)'
<1>1. CASE Saved(a)
    <2>1. PICK snap \in Snapshot : SnapOf(db'[a]) = snap
        BY <1>1 DEF Saved
    <2>2. db'[a].status = snap.status
        BY <2>1, SnapIsFields
    <2>3. snap.status \notin {Absent, Pending}
        BY DEF Snapshot, Final, Absent, Pending, Running, Deal, Failed, Canceled
    <2> QED BY <2>2, <2>3 DEF UnstartedRow
<1>2. CASE Deleted(a)
    BY <1>2, SnapFields DEF Deleted, Mirrors, UnstartedRow
<1>3. CASE db'[a] = db[a] \/ Created(a) \/ Updated(a)
    BY <1>3 DEF Created, Updated, StillPending, Mirrors, UnstartedRow
<1> QED BY <1>1, <1>2, <1>3, ServiceRowSteps DEF RowMoves

(* Once there is a hash the row has started, or its start is about to save it. *)
LEMMA StartedRowStep ==
    ASSUME ServiceInv, OneAtATime, [Next]_vars, NEW a \in Auctions, Mirrors(a)
    PROVE  StartedRow(a)'
<1> SUFFICES ASSUME Exists(a)', db'[a].status \in {Absent, Pending}
             PROVE  \E m \in Merchants : At(m, {"start_save"}, a)'
    BY DEF StartedRow, At
<1>1. CASE Exists(a) /\ (\E m \in Merchants : At(m, {"start_save"}, a))
    <2> PICK m \in Merchants : At(m, {"start_save"}, a)
        BY <1>1
    <2>1. merchant[m].pc = "start_save" /\ merchant[m].auction = a
        BY DEF At
    <2>2. CASE merchant'[m] = merchant[m]
        BY <2>1, <2>2 DEF At
    <2>3. CASE SaveSnapshot(merchant[m].auction, merchant[m].snap)
        <3> DEFINE snap == merchant[m].snap
                   row == [db[a] EXCEPT !.status = snap.status, !.price = snap.price,
                                        !.bids = snap.bids, !.winner = snap.winner, !.version = snap.version]
        <3>1. snap \in Snapshot /\ db \in [Auctions -> Row] /\ db[a] \in Row
            BY <2>1, MerchantHolds DEF SnapWork, ServiceInv, RowsOK
        <3>2. snap.status \notin {Absent, Pending} /\ snap.version \in Nat /\ db[a].version \in Nat
            BY <3>1 DEF Snapshot, Row, Final, Absent, Pending, Running, Deal, Failed, Canceled
        <3>3. Live(a) /\ snap.version > 0
            BY <2>1 DEF Mirrors, StartSaving, At
        <3>4. CASE Newer(a, snap)
            <4>1. db'[a] = row
                BY <2>1, <2>3, <3>1, <3>4 DEF SaveSnapshot
            <4>2. row.status = snap.status
                BY <3>1 DEF Row
            <4> QED BY <3>2, <4>1, <4>2
        <3>5. CASE ~Newer(a, snap)
            <4>1. db' = db
                BY <2>1, <2>3, <3>5 DEF SaveSnapshot
            <4>2. db[a].version > 0
                BY <3>2, <3>3, <3>5 DEF Newer
            <4> QED BY <4>1, <4>2 DEF Mirrors, UnstartedRow
        <3> QED BY <3>4, <3>5
    <2>4. ~Loaded(m)
        BY <2>1 DEF Loaded
    <2> QED BY <2>1, <2>2, <2>3, <2>4, MerchantPlaces
<1>2. CASE Exists(a) /\ db[a].status \notin {Absent, Pending}
    <2>1. ~Saved(a)
        <3> SUFFICES ASSUME NEW snap \in Snapshot, SnapOf(db'[a]) = snap
                     PROVE  FALSE
            BY DEF Saved
        <3>1. db'[a].status = snap.status
            BY SnapIsFields
        <3> QED BY <3>1 DEF Snapshot, Final, Absent, Pending, Running, Deal, Failed, Canceled
    <2> QED BY <1>2, <2>1, SnapFields, ServiceRowSteps DEF RowMoves, Created, Deleted, Updated, StillPending
<1>3. CASE ~Exists(a)
    BY <1>3, ServiceHashSteps, LoadedMirrors, StatusesDiffer DEF HashGrows, IsRunning, Exists
<1> QED BY <1>1, <1>2, <1>3 DEF Mirrors, StartedRow

(* The row stays a former state of the hash, and its last one once final. *)
LEMMA RowFitsStep ==
    ASSUME ServiceInv, OneAtATime, [Next]_vars, NEW a \in Auctions, Mirrors(a)
    PROVE  RowFits(a)'
<1>0. /\ state[a].version \in Nat /\ db[a].version \in Nat
      /\ \A m, n \in Merchants : m = n
    BY DEF ServiceInv, RedisTypeOK, AuctionState, RowsOK, Row, OneAtATime
<1>1. CASE state'[a] = state[a]
    <2> SUFFICES ASSUME Exists(a)
                 PROVE  /\ db'[a].version <= state[a].version
                        /\ (db'[a].version = state[a].version \/ db'[a].status \in Final)
                              => SnapOf(db'[a]) = SnapOf(state[a])
        BY <1>1 DEF RowFits, Exists
    <2>1. CASE Saved(a)
        <3>1. PICK snap \in Snapshot : SnapOf(db'[a]) = snap /\ (Carried(a, snap) \/ CanceledAlone(a, snap))
            BY <2>1 DEF Saved
        <3>2. Carried(a, snap)
            BY <3>1 DEF CanceledAlone, Mirrors, CancelSaving
        <3>3. Follows(a, snap)
            BY <3>2 DEF Mirrors, SnapshotsFollow
        <3>4. db'[a].status = snap.status /\ db'[a].version = snap.version
            BY <3>1, SnapIsFields
        <3> QED BY <3>1, <3>3, <3>4 DEF Follows
    <2>2. CASE Deleted(a)
        BY <2>2, SnapFields DEF Deleted, Mirrors, RowFits
    <2>3. ~Created(a) /\ ~Updated(a)
        <3>1. ASSUME db[a].status \in {Absent, Pending}
              PROVE  /\ Live(a)
                     /\ ~\E m \in Merchants : merchant[m].pc = "update"
            BY <1>0, <3>1 DEF Mirrors, StartedRow, StartSaving, At
        <3> QED BY <3>1 DEF Created, Updated, StillPending, Live
    <2> QED BY <2>1, <2>2, <2>3, ServiceRowSteps DEF RowMoves, Mirrors, RowFits
<1>2. CASE HashGrows(a) /\ UNCHANGED db
    <2>1. Exists(a) /\ db[a].version <= state[a].version
        BY <1>2, StatusesDiffer DEF HashGrows, IsRunning, Exists, Mirrors, RowFits
    <2>2. db[a].status \notin Final
        BY <1>2, <2>1, SnapFields, StatusesDiffer DEF HashGrows, IsRunning, Mirrors, RowFits
    <2> QED BY <1>0, <1>2, <2>1, <2>2 DEF HashGrows, RowFits
<1>3. ASSUME NEW m \in Merchants, merchant[m].auction = a, Loaded(m)
      PROVE  RowFits(a)'
    <2>1. db[a].status = Pending /\ UNCHANGED db /\ state'[a].version = 1
        BY <1>3, LoadedMirrors DEF StillPending
    <2>2. db[a].version = 0
        BY <2>1 DEF Mirrors, UnstartedRow
    <2> QED BY <2>1, <2>2, StatusesDiffer DEF RowFits
<1> QED BY <1>1, <1>2, <1>3, ServiceHashSteps

(* Snapshots under way are snapshots.                                          *)
LEMMA CarriedType ==
    ASSUME ServiceInv, NEW a, NEW snap, Carried(a, snap)
    PROVE  snap \in Snapshot
<1>1. CASE MerchantCarries(a, snap) \/ BidderCarries(a, snap) \/ ScannerCarries(a, snap)
    BY <1>1, MerchantHolds, BidderHolds, ScannerHas DEF MerchantCarries, BidderCarries, ScannerCarries, At, SnapWork, BidWork
<1>2. ASSUME NEW msg \in Events, Tells(msg, a, snap)
      PROVE  snap \in Snapshot
    BY <1>2 DEF Tells, Events, SnapshotEvents, BidEvents, ExpireChecks
<1>3. CASE TopicCarries(a, snap)
    BY <1>2, <1>3 DEF TopicCarries, ServiceInv, MsgsOK
<1>4. CASE ConsumerCarries(a, snap)
    <2>1. consumer.pc # "idle" => consumer \in RecordWork \cup CheckWork \cup SaveWork
        BY DEF ServiceInv, ConsumerOK, Idle
    <2>2. consumer.pc # "idle" => consumer.msg \in Events
        BY <2>1 DEF RecordWork, CheckWork, SaveWork, Events
    <2>3. consumer.pc \in {"save", "publish"} => consumer.snap \in Snapshot
        BY ConsumerHolds DEF SaveWork
    <2> QED BY <1>2, <1>4, <2>2, <2>3 DEF ConsumerCarries
<1> QED BY <1>1, <1>3, <1>4 DEF Carried

(* So do the snapshots under way: each step writes what was under way, or what it
   just read. *)
LEMMA SnapshotsFollowStep ==
    ASSUME ServiceInv, OneAtATime, [Next]_vars, NEW a \in Auctions, Mirrors(a)
    PROVE  SnapshotsFollow(a)'
<1> SUFFICES ASSUME NEW snap, Carried(a, snap)'
             PROVE  Follows(a, snap)'
    BY DEF SnapshotsFollow
<1>0. state[a].version \in Nat
    BY DEF ServiceInv, RedisTypeOK, AuctionState
<1>1. CASE Fresh(a, snap)
    <2>1. snap.version = state'[a].version
        BY <1>1, SnapIsFields DEF Fresh
    <2>2. state'[a].version \in Nat
        BY <1>0, ServiceHashSteps, LoadedMirrors DEF HashGrows
    <2> QED BY <1>1, <2>1, <2>2 DEF Fresh, Follows, Exists
<1>2. CASE CanceledAlone(a, snap)
    <2>1. PICK m \in Merchants : At(m, {"cancel_save"}, a) /\ merchant[m].snap = snap /\ CancelSave(m)
        BY <1>2 DEF CanceledAlone
    <2>2. ~Exists(a) /\ snap.status = Canceled /\ UNCHANGED redisVars /\ snap \in Snapshot
        BY <2>1, CancelSaveLeaves, MerchantHolds DEF Mirrors, CancelSaving, At, SnapWork
    <2>3. SnapOf(db'[a]) = snap
        <3> DEFINE row == [db[a] EXCEPT !.status = snap.status, !.price = snap.price,
                                        !.bids = snap.bids, !.winner = snap.winner, !.version = snap.version]
        <3>1. db'[a] = row /\ db[a] \in Row
            BY <1>2 DEF CanceledAlone, SaveSnapshot, ServiceInv, RowsOK
        <3>2. /\ row.status = snap.status /\ row.price = snap.price /\ row.bids = snap.bids
              /\ row.winner = snap.winner /\ row.version = snap.version
            BY <3>1 DEF Row
        <3>3. snap = [status |-> snap.status, price |-> snap.price, bids |-> snap.bids,
                      winner |-> snap.winner, version |-> snap.version]
            BY <2>2 DEF Snapshot
        <3> HIDE DEF row
        <3> QED BY <3>1, <3>2, <3>3 DEF SnapOf
    <2>4. db'[a].status = Canceled
        BY <2>2, <2>3, SnapIsFields
    <2> QED BY <2>2, <2>3, <2>4 DEF Follows, Exists, redisVars
<1>3. CASE Carried(a, snap)
    <2>1. Follows(a, snap)
        BY <1>3 DEF Mirrors, SnapshotsFollow
    <2>2. CASE Exists(a) /\ state'[a] = state[a]
        BY <2>1, <2>2 DEF Follows, Exists
    <2>3. CASE HashGrows(a)
        <3>1. Exists(a) /\ state[a].status \notin Final
            BY <2>3, StatusesDiffer DEF HashGrows, IsRunning, Exists
        <3>2. snap.version <= state[a].version
            BY <2>1, <3>1 DEF Follows
        <3>3. snap.status \notin Final
            BY <2>1, <3>1 DEF Follows, SnapOf
        <3>4. snap.version <= state'[a].version /\ snap.version # state'[a].version
            <4>1. snap.version \in Nat
                BY <1>3, CarriedType DEF Snapshot
            <4> QED BY <1>0, <2>3, <3>2, <4>1 DEF HashGrows
        <3> QED BY <2>3, <3>3, <3>4 DEF HashGrows, Follows, Exists
    <2>4. CASE ~Exists(a) /\ state'[a] = state[a]
        <3>1. db[a].status = Canceled /\ snap = SnapOf(db[a])
            BY <2>1, <2>4 DEF Follows
        <3>2. ~Saved(a)
            <4> SUFFICES ASSUME NEW other \in Snapshot, Newer(a, other),
                                Carried(a, other) \/ CanceledAlone(a, other)
                         PROVE  FALSE
                BY DEF Saved
            <4>1. CASE Carried(a, other)
                <5>1. other = SnapOf(db[a])
                    BY <2>4, <4>1 DEF Mirrors, SnapshotsFollow, Follows
                <5>2. other.version = db[a].version
                    BY <5>1, SnapIsFields
                <5>3. db[a].version \in Nat
                    BY DEF ServiceInv, RowsOK, Row
                <5> QED BY <5>2, <5>3 DEF Newer
            <4>2. CASE CanceledAlone(a, other)
                BY <3>1, <4>2 DEF CanceledAlone, Mirrors, CancelSaving, Canceled, Pending
            <4> QED BY <4>1, <4>2
        <3>3. SnapOf(db'[a]) = SnapOf(db[a])
            BY <3>1, <3>2, ServiceRowSteps DEF RowMoves, Created, Deleted, Updated, StillPending, Canceled, Absent, Pending
        <3>4. db'[a].status = Canceled
            BY <3>1, <3>3, SnapFields
        <3> QED BY <2>4, <3>1, <3>3, <3>4 DEF Follows, Exists
    <2>5. ASSUME NEW m \in Merchants, merchant[m].auction = a, Loaded(m)
          PROVE  FALSE
        BY <2>1, <2>5, LoadedMirrors DEF Follows, StillPending, Canceled, Pending
    <2> QED BY <2>2, <2>3, <2>4, <2>5, ServiceHashSteps
<1> QED BY <1>1, <1>2, <1>3, SnapshotSource DEF Source

(* The invariant of the service, and its first consequence. *)
MirrorInv == ServiceInv /\ \A a \in Auctions : Mirrors(a)

(* Together: the mirror invariant is inductive.                                *)
LEMMA MirrorStarts ==
    ASSUME Init
    PROVE  MirrorInv
<1> SUFFICES ASSUME NEW a \in Auctions
             PROVE  Mirrors(a)
    BY ServiceStarts DEF MirrorInv
<1>1. ~Exists(a) /\ state[a].version = 0 /\ db[a].status = Absent /\ db[a].version = 0
    BY DEF Init, RedisInit, EmptyState, NoRow, Exists
<1>2. ASSUME NEW snap PROVE ~Carried(a, snap)
    BY DEF Init, Idle, Carried, MerchantCarries, BidderCarries, TopicCarries, ConsumerCarries, ScannerCarries, At
<1>3. ASSUME NEW m \in Merchants PROVE merchant[m].pc = "idle"
    BY DEF Init, Idle
<1> QED BY <1>1, <1>2, <1>3
    DEF Mirrors, RowFits, SnapshotsFollow, HashVersion, UnstartedRow, StartedRow, Unloaded, StartSaving, CancelSaving, At

(* Every step keeps it. *)
LEMMA MirrorSteps ==
    ASSUME AnyArguments, OneAtATime, MirrorInv, [Next]_vars
    PROVE  MirrorInv'
<1>1. ServiceInv'
    BY StepKeeps DEF MirrorInv, Keeps
<1>2. ASSUME NEW a \in Auctions
      PROVE  Mirrors(a)'
    <2>1. ServiceInv /\ Mirrors(a)
        BY DEF MirrorInv
    <2>2. RowFits(a)' /\ SnapshotsFollow(a)' /\ HashVersion(a)' /\ UnstartedRow(a)'
        BY <2>1, RowFitsStep, SnapshotsFollowStep, HashVersionStep, UnstartedRowStep
    <2>3. StartedRow(a)' /\ Unloaded(a)' /\ StartSaving(a)' /\ CancelSaving(a)'
        BY <2>1, StartedRowStep, UnloadedStep, StartSavingStep, CancelSavingStep
    <2> QED BY <2>2, <2>3 DEF Mirrors
<1> QED BY <1>1, <1>2 DEF MirrorInv

(* Whatever of the bids, closes, events, retries and failures comes in        *)
(* between, the row is never ahead of Redis and agrees with it when level.    *)
THEOREM RowsMirrorRedis ==
    ASSUME AnyArguments, OneAtATime
    PROVE  Spec => []RowMirrorsRedis
<1>1. MirrorInv => RowMirrorsRedis
    <2> SUFFICES ASSUME MirrorInv, NEW a \in Auctions, Exists(a)
                 PROVE  /\ db[a].version <= state[a].version
                        /\ db[a].version = state[a].version =>
                              \A f \in {"status", "price", "bids", "winner"} : db[a][f] = state[a][f]
        BY DEF RowMirrorsRedis
    <2>1. RowFits(a)
        BY DEF MirrorInv, Mirrors
    <2> QED BY <2>1, SnapFields DEF RowFits
<1> QED BY <1>1, MirrorStarts, MirrorSteps, PTL DEF Spec

(* A final row is Redis's last word, or a cancellation Redis never heard of:  *)
(* either way nothing newer is under way.                                     *)
THEOREM FinalRowsStay ==
    ASSUME AnyArguments, OneAtATime
    PROVE  Spec => FinalRowStays
<1>1. ASSUME MirrorInv, [Next]_vars, NEW a \in Auctions, db[a].status \in Final
      PROVE  db'[a].status = db[a].status
    <2>1. ServiceInv /\ Mirrors(a)
        BY <1>1 DEF MirrorInv
    <2>2. ~Saved(a)
        <3> SUFFICES ASSUME NEW snap \in Snapshot, Newer(a, snap), Carried(a, snap) \/ CanceledAlone(a, snap)
                     PROVE  FALSE
            BY DEF Saved
        <3>1. snap.version \in Nat /\ db[a].version \in Nat /\ db[a].version < snap.version
            BY <2>1 DEF Newer, Snapshot, ServiceInv, RowsOK, Row
        <3>2. ~CanceledAlone(a, snap)
            BY <1>1, <2>1, StatusesDiffer DEF CanceledAlone, Mirrors, CancelSaving
        <3>3. Follows(a, snap)
            BY <2>1, <3>2 DEF Mirrors, SnapshotsFollow
        <3>4. CASE Exists(a)
            <4>1. db[a].version = state[a].version
                BY <1>1, <2>1, <3>4, SnapFields DEF Mirrors, RowFits
            <4> QED BY <3>1, <3>3, <3>4, <4>1 DEF Follows
        <3>5. CASE ~Exists(a)
            BY <3>1, <3>3, <3>5, SnapIsFields DEF Follows
        <3> QED BY <3>4, <3>5
    <2> QED BY <1>1, <2>1, <2>2, SnapFields, StatusesDiffer, ServiceRowSteps
            DEF RowMoves, Created, Deleted, Updated, StillPending
<1>2. ASSUME MirrorInv, [Next]_vars
      PROVE  [\A a \in Auctions : db[a].status \in Final => db'[a].status = db[a].status]_vars
    BY <1>1, <1>2
<1> QED BY <1>2, MirrorStarts, MirrorSteps, PTL DEF Spec, FinalRowStays

(* Only the bid script accepts bids. *)
LEMMA AcceptedSteps ==
    ASSUME [Next]_vars
    PROVE  \/ UNCHANGED accepted
           \/ \E b \in Bidders, u \in Users, p \in Prices, req \in Requests : BidIsAccepted(b, u, p, req)
<1>1. CASE UNCHANGED vars \/ Tick
    BY <1>1 DEF vars, Tick
<1>2. ASSUME NEW m \in Merchants, MerchantAsks(m) \/ MerchantWorks(m) \/ MerchantStops(m)
      PROVE  UNCHANGED accepted
    BY <1>2 DEF MerchantAsks, MerchantWorks, MerchantStops, CreateAuction, UpdateRead, DeleteAuction,
           StartRead, CancelRead, FinishRead, UpdateSave, StartCheck, StartLoad, StartSave, PublishLast,
           CancelSave, CloseScript, PublishFinal, SaveFinal
<1>3. ASSUME NEW b \in Bidders, BidderAsks(b) \/ BidderWorks(b) \/ BidderStops(b),
             ~(\E u \in Users, p \in Prices, req \in Requests : BidIsAccepted(b, u, p, req))
      PROVE  UNCHANGED accepted
    BY <1>3 DEF BidderAsks, BidderWorks, BidderStops, BidArrives, BidIsRefused, BidRecorded,
                BidPublished, ExpireCheckPublished, BidSaved
<1>4. CASE Receive \/ ConsumerStops \/ ConsumerWorks
    BY <1>4 DEF Receive, ConsumerStops, ConsumerWorks, ConsumerRecords, ConsumerSaves, ConsumerFinishes,
                ConsumerRereads, ConsumerPublishes
<1>5. ASSUME NEW s \in Scanners, ScannerWorks(s) \/ ScannerStops(s)
      PROVE  UNCHANGED accepted
    BY <1>5 DEF ScannerWorks, ScannerStops, ScanLists, ScanReads, ScanReindexes, ScanFinishes, ScanRereads, ScanPublishes,
                 ScanSaves
<1> QED BY <1>1, <1>2, <1>3, <1>4, <1>5 DEF Next

(* What the script did to the hash. *)
LEMMA BidHits ==
    ASSUME ServiceInv, NEW b \in Bidders, NEW u \in Users, NEW p \in Prices, NEW req \in Requests,
           BidIsAccepted(b, u, p, req), NEW a, a = bidder[b].auction
    PROVE  /\ a \in Auctions /\ UserIdAsDouble[u] \in Users
           /\ Acceptable(state[a], UserIdAsDouble[u], p, bidder[b].now)
           /\ state'[a] = BidState(state[a], UserIdAsDouble[u], p, bidder[b].now)
           /\ IsRunning(a) /\ Exists(a)
           /\ UNCHANGED db
<1>1. a \in Auctions
    BY BidderHolds DEF BidIsAccepted, ArrivedWork
<1> DEFINE leader == UserIdAsDouble[u]
           now == bidder[b].now
<1>2. AcceptBid(a, RoomOf[a], leader, p, req, now) /\ UNCHANGED db
    BY DEF BidIsAccepted
<1>3. Acceptable(state[a], leader, p, now) /\ state'[a] = BidState(state[a], leader, p, now)
    <2> HIDE DEF leader, now
    <2> QED BY <1>1, <1>2 DEF AcceptBid, ServiceInv, RedisTypeOK
<1>4. IsRunning(a) /\ Exists(a)
    BY <1>3, StatusesDiffer DEF Acceptable, IsRunning, Exists
<1> QED BY <1>1, <1>2, <1>3, <1>4

(* Handler, consumer and scanners may all announce the end of an auction; all *)
(* of them tell what the closed hash says.                                    *)
THEOREM OutcomesAgree ==
    ASSUME AnyArguments, OneAtATime
    PROVE  Spec => []OneOutcome
<1>1. MirrorInv => OneOutcome
    <2> SUFFICES ASSUME MirrorInv, NEW m1 \in msgs, NEW m2 \in msgs,
                        m1.kind = "snapshot", m2.kind = "snapshot", m1.auction = m2.auction,
                        m1.snap.status \in Final, m2.snap.status \in Final
                 PROVE  m1.snap = m2.snap
        BY DEF OneOutcome
    <2>1. m1.auction \in Auctions
        BY DEF MirrorInv, ServiceInv, MsgsOK, Events, SnapshotEvents, BidEvents, ExpireChecks
    <2>2. Carried(m1.auction, m1.snap) /\ Carried(m1.auction, m2.snap)
        BY DEF Carried, TopicCarries, Tells
    <2>3. Follows(m1.auction, m1.snap) /\ Follows(m1.auction, m2.snap)
        BY <2>1, <2>2 DEF MirrorInv, Mirrors, SnapshotsFollow
    <2> QED BY <2>3 DEF Follows
<1> QED BY <1>1, MirrorStarts, MirrorSteps, PTL DEF Spec

-----------------------------------------------------------------------------
(* Accepted bids count, until a start that was half-way wipes them.           *)

Mine(a) == {b \in accepted \ lost : b.auction = a}

LostWereAccepted == lost \subseteq accepted

(* Bids are numbered as they are accepted, so that no two are one. *)
Numbered == \A b \in accepted : b.id \in 1..Cardinality(accepted) /\ b.price \in Nat

Counted(a) ==
    /\ state[a].bids = Cardinality(Mine(a))
    /\ \A b \in Mine(a) : b.price <= state[a].price

CountInv == Numbered /\ LostWereAccepted /\ \A a \in Auctions : Counted(a)

(* The two parts are kept by every step.                                       *)
LEMMA NumberedStep ==
    ASSUME ServiceInv, Numbered, [Next]_vars
    PROVE  Numbered'
<1>1. CASE UNCHANGED accepted
    BY <1>1 DEF Numbered
<1>2. ASSUME NEW b \in Bidders, NEW u \in Users, NEW p \in Prices, NEW req \in Requests, BidIsAccepted(b, u, p, req)
      PROVE  Numbered'
    <2> DEFINE n == Cardinality(accepted)
               new == BidRecord(bidder[b].auction, n + 1, u, p)
    <2>1. accepted' = accepted \cup {new} /\ IsFiniteSet(accepted) /\ n \in Nat
        BY <1>2, FS_CardinalityType DEF BidIsAccepted, ServiceInv, CountersOK
    <2>2. new.id = n + 1 /\ new.price = p /\ p \in Nat
        BY NumbersAssumption DEF BidRecord
    <2>3. new \notin accepted
        BY <2>1, <2>2 DEF Numbered
    <2>4. Cardinality(accepted') = n + 1
        <3> HIDE DEF new
        <3> QED BY <2>1, <2>3, FS_AddElement
    <2>5. ASSUME NEW r \in accepted'
          PROVE  r.id \in 1..(n + 1) /\ r.price \in Nat
        <3>1. CASE r = new
            BY <2>1, <2>2, <3>1
        <3>2. CASE r \in accepted
            BY <2>1, <3>2 DEF Numbered
        <3> QED BY <2>1, <3>1, <3>2
    <2> QED BY <2>4, <2>5 DEF Numbered
<1> QED BY <1>1, <1>2, AcceptedSteps

(* What was lost had been accepted. *)
LEMMA LostWereAcceptedStep ==
    ASSUME LostWereAccepted, [Next]_vars
    PROVE  LostWereAccepted'
<1>1. accepted \subseteq accepted'
    BY AcceptedSteps DEF BidIsAccepted
<1>2. ASSUME NEW m \in Merchants, Loaded(m)
      PROVE  lost' \subseteq accepted'
    BY <1>1, <1>2 DEF Loaded, LostWereAccepted
<1> QED BY <1>1, <1>2, LostSteps DEF LostWereAccepted

(* A bid counts where it is accepted; a load starts its auction's count again, *)
(* and nothing else changes a count.                                           *)
LEMMA CountedStep ==
    ASSUME ServiceInv, CountInv, BidsExplainPrice, IncrementIsPositive, [Next]_vars, NEW a \in Auctions
    PROVE  Counted(a)'
<1>0. ServiceInv /\ Counted(a) /\ Numbered /\ LostWereAccepted
    BY DEF CountInv
<1>1. state[a] \in AuctionState
    BY <1>0 DEF ServiceInv, RedisTypeOK
<1>2. ASSUME NEW b \in Bidders, NEW u \in Users, NEW p \in Prices, NEW req \in Requests, BidIsAccepted(b, u, p, req),
             bidder[b].auction = a
      PROVE  Counted(a)'
    <2> DEFINE n == Cardinality(accepted)
               new == BidRecord(a, n + 1, u, p)
    <2>1. accepted' = accepted \cup {new} /\ n \in Nat /\ UNCHANGED lost
        BY <1>0, <1>2, FS_CardinalityType DEF BidIsAccepted, ServiceInv, CountersOK
    <2>2. new.id = n + 1 /\ new.price = p /\ new.auction = a
        BY DEF BidRecord
    <2>3. new \notin accepted
        BY <1>0, <2>1, <2>2 DEF Numbered
    <2>4. Mine(a)' = Mine(a) \cup {new}
        <3> HIDE DEF new
        <3> QED BY <1>0, <2>1, <2>2, <2>3 DEF Mine, LostWereAccepted
    <2>5. IsFiniteSet(Mine(a))
        BY <1>0, FS_Subset DEF Mine, ServiceInv, CountersOK
    <2>6. Cardinality(Mine(a)') = Cardinality(Mine(a)) + 1
        <3> HIDE DEF new
        <3>1. new \notin Mine(a)
            BY <2>3 DEF Mine
        <3> QED BY <2>4, <2>5, <3>1, FS_AddElement
    <2>7. /\ Acceptable(state[a], UserIdAsDouble[u], p, bidder[b].now)
          /\ state'[a] = BidState(state[a], UserIdAsDouble[u], p, bidder[b].now)
          /\ IsRunning(a) /\ Exists(a)
        BY <1>0, <1>2, BidHits
    <2>8. /\ state'[a].bids = state[a].bids + 1 /\ state'[a].price = p /\ state'[a].status = state[a].status
        BY <1>1, <2>7, AfterBid
    <2>9. state[a].bids > 0 => state[a].price <= p
        <3>1. /\ state[a].incr > 0
              /\ state[a].seal > 0 /\ state[a].bids > 0 => state[a].price <= state[a].seal
            BY <2>7 DEF IncrementIsPositive, BidsExplainPrice
        <3>2. MinBidPrice(state[a]) <= p
            BY <2>7 DEF Acceptable
        <3>3. state[a].incr \in Nat /\ state[a].seal \in Nat /\ state[a].price \in Nat /\ p \in Nat
            BY <1>1, NumbersAssumption DEF AuctionState
        <3> QED BY <3>1, <3>2, <3>3 DEF MinBidPrice
    <2>10. \A r \in Mine(a)' : r.price <= p
        <3>1. p \in Nat /\ state[a].price \in Nat /\ state[a].bids \in Nat
            BY <1>1, NumbersAssumption DEF AuctionState
        <3>2. ASSUME NEW r \in Mine(a)
              PROVE  r.price <= p
            <4>1. Cardinality(Mine(a)) # 0
                BY <2>5, <3>2, FS_EmptySet
            <4>2. r.price \in Nat /\ r.price <= state[a].price
                BY <1>0 DEF Counted, Numbered, Mine
            <4> QED BY <1>0, <2>9, <3>1, <4>1, <4>2 DEF Counted
        <3> QED BY <2>2, <2>4, <3>1, <3>2
    <2> QED BY <1>0, <2>6, <2>8, <2>10 DEF Counted
<1>3. ASSUME NEW m \in Merchants, merchant[m].auction = a, Loaded(m)
      PROVE  Counted(a)'
    <2>1. Mine(a)' = {} /\ Cardinality({}) = 0
        BY <1>3, FS_EmptySet DEF Mine, Loaded
    <2>2. state'[a] = LoadedState(WithEnd(merchant[m].rule, clock), clock)
        BY <1>0, <1>3 DEF Loaded, LoadAuction, ServiceInv, RedisTypeOK
    <2>3. state'[a].bids = 0
        BY <2>2 DEF LoadedState
    <2> QED BY <2>1, <2>3 DEF Counted
<1>4. ASSUME Mine(a)' = Mine(a), ~HashTakesBid(a)
      PROVE  Counted(a)'
    <2>1. CASE state'[a] = state[a]
        BY <1>0, <1>4, <2>1 DEF Counted
    <2>2. CASE HashCloses(a)
        <3>1. state'[a].bids = state[a].bids /\ state'[a].price = state[a].price
            BY <1>1, <2>2, AfterClose DEF HashCloses
        <3> QED BY <1>0, <1>4, <3>1 DEF Counted
    <2> QED BY <1>0, <1>3, <1>4, <2>1, <2>2, ServiceHashSteps DEF HashGrows
<1>5. ~HashTakesBid(a) \/ Counted(a)'
    BY <1>2 DEF HashTakesBid
<1>6. CASE UNCHANGED <<accepted, lost>>
    <2>1. Mine(a)' = Mine(a)
        BY <1>6 DEF Mine
    <2> QED BY <1>4, <1>5, <2>1
<1>7. ASSUME NEW m \in Merchants, merchant[m].auction # a, Loaded(m)
      PROVE  Counted(a)'
    <2>1. Mine(a)' = Mine(a)
        BY <1>7 DEF Mine, Loaded
    <2> QED BY <1>4, <1>5, <2>1
<1>8. ASSUME NEW b \in Bidders, NEW u \in Users, NEW p \in Prices, NEW req \in Requests, BidIsAccepted(b, u, p, req),
             bidder[b].auction # a
      PROVE  Counted(a)'
    <2> DEFINE new == BidRecord(bidder[b].auction, Cardinality(accepted) + 1, u, p)
    <2>1. accepted' = accepted \cup {new} /\ new.auction # a /\ UNCHANGED lost
        BY <1>8 DEF BidIsAccepted, BidRecord
    <2>2. Mine(a)' = Mine(a)
        <3> HIDE DEF new
        <3> QED BY <2>1 DEF Mine
    <2> QED BY <1>4, <1>5, <2>2
<1>9. (\E m \in Merchants : Loaded(m)) \/ UNCHANGED lost
    BY LostSteps
<1> QED BY <1>2, <1>3, <1>6, <1>7, <1>8, <1>9, AcceptedSteps

(* An auction that runs asks for a positive increment: only the load writes it. *)
LEMMA IncrementsArePositive == RedisSpec => []IncrementIsPositive
<1>1. RedisInit => IncrementIsPositive
    BY DEF RedisInit, IncrementIsPositive, IsRunning, EmptyState, Absent, Running
<1> QED BY <1>1, InitType, StepKeepsType, StepKeepsIncrement, PTL DEF RedisSpec

(* Whatever requests, starts and failures there are, the hash of an auction    *)
(* counts every bid whose bidder was told so, but for those wiped by a load,   *)
(* and none of them offered more than its price.  With SettledAuctionsStay:    *)
(* once an auction is settled, not one more is lost.                           *)
THEOREM NoBidIsLost ==
    ASSUME AnyArguments
    PROVE  Spec => []AcceptedBidsCount
<1>1. Init => CountInv
    <2> SUFFICES ASSUME Init
                 PROVE  CountInv
        OBVIOUS
    <2>1. accepted = {} /\ lost = {}
        BY DEF Init
    <2>2. Numbered /\ LostWereAccepted
        BY <2>1, FS_EmptySet DEF Numbered, LostWereAccepted
    <2>3. ASSUME NEW a \in Auctions
          PROVE  Counted(a)
        <3>1. Mine(a) = {} /\ state[a].bids = 0
            BY <2>1 DEF Init, RedisInit, EmptyState, Mine
        <3> QED BY <3>1, <2>1, FS_EmptySet DEF Counted
    <2> QED BY <2>2, <2>3 DEF CountInv
<1>2. ServiceInv /\ CountInv /\ BidsExplainPrice /\ IncrementIsPositive /\ [Next]_vars => CountInv'
    BY NumberedStep, LostWereAcceptedStep, CountedStep DEF CountInv
<1>3. CountInv => AcceptedBidsCount
    BY DEF CountInv, Counted, Mine, AcceptedBidsCount
<1>4. Spec => []BidsExplainPrice
    BY ServiceUsesScripts, PricesAreExplained, PTL
<1>5. Spec => []IncrementIsPositive
    BY IncrementsArePositive, ServiceUsesScripts, PTL
<1>6. ServiceInv /\ [Next]_vars => ServiceInv'
    BY StepKeeps DEF Keeps
<1>7. Init => ServiceInv
    BY ServiceStarts
<1> QED BY <1>1, <1>2, <1>3, <1>4, <1>5, <1>6, <1>7, PTL DEF Spec

(* The service never has two auctions of one room running, because it never   *)
(* touches Redis but by the scripts.                                          *)
THEOREM ServiceRoomsAreExclusive ==
    ASSUME AnyArguments
    PROVE  Spec => []RoomExclusive
BY ServiceUsesScripts, RoomsAreExclusive, PTL

-----------------------------------------------------------------------------
(* The expire index.  A scanner writes the index after it read the state:     *)
(* what it read must still be so.  A candidate found not running is removed,  *)
(* and that is safe because it exists and is never loaded again.              *)

ScannerSees(s) ==
    LET work == scanner[s] IN
    /\ work.pc # "idle" => \A a \in work.todo : Exists(a)
    /\ work.pc \notin {"idle", "read"} => Exists(work.auction)
    /\ work.pc = "remove" => ~IsRunning(work.auction)

IndexFits(a) ==
    /\ index[a] # NotIndexed => Exists(a)
    /\ IsRunning(a) => index[a] # NotIndexed

IndexInv == (\A a \in Auctions : IndexFits(a)) /\ \A s \in Scanners : ScannerSees(s)

IndexMoves(a) ==
    \/ index'[a] = index[a] /\ (IsRunning(a)' => IsRunning(a))
    \/ index'[a] # NotIndexed /\ Exists(a)'
    \/ index'[a] = NotIndexed /\ ~IsRunning(a)'

(* Every script keeps the index of each auction in step with its hash. *)
LEMMA LoadIndexes ==
    ASSUME ServiceInv, NEW a \in Auctions, NEW c \in Auctions, NEW rule \in RuleType, NEW now,
           LoadAuction(c, rule, now)
    PROVE  IndexMoves(a)
<1>1. rule.end \in Nat /\ LoadedState(rule, now).status = Running
    BY DEF RuleType, LoadedState
<1>2. CASE c = a
    <2>1. index'[a] = rule.end /\ state'[a] = LoadedState(rule, now)
        BY <1>2 DEF LoadAuction, ServiceInv, RedisTypeOK
    <2> QED BY <1>1, <2>1, StatusesDiffer DEF IndexMoves, NotIndexed, Exists
<1>3. CASE c # a
    BY <1>3 DEF LoadAuction, ServiceInv, RedisTypeOK, IndexMoves, IsRunning
<1> QED BY <1>2, <1>3

(* An accepted bid scores the auction in the index at its new expiry. *)
LEMMA BidIndexes ==
    ASSUME ServiceInv, NEW a \in Auctions, NEW c \in Auctions, NEW now \in Nat, NEW room, NEW u, NEW p, NEW req,
           AcceptBid(c, room, u, p, req, now)
    PROVE  IndexMoves(a)
<1>1. now + Countdown \in Nat
    BY NumbersAssumption
<1>2. CASE c = a
    <2>1. index'[a] = now + Countdown /\ state'[a] = BidState(state[a], u, p, now) /\ state[a].status = Running
        BY <1>2 DEF AcceptBid, Acceptable, ServiceInv, RedisTypeOK
    <2>2. state'[a].status = Running
        BY <1>2, <2>1 DEF BidState, ServiceInv, RedisTypeOK, AuctionState
    <2> QED BY <1>1, <2>1, <2>2, StatusesDiffer DEF IndexMoves, NotIndexed, Exists
<1>3. CASE c # a
    BY <1>3 DEF AcceptBid, ServiceInv, RedisTypeOK, IndexMoves, IsRunning
<1> QED BY <1>2, <1>3

(* The closing scripts take the auction off the index together with its status. *)
LEMMA CloseUnindexes ==
    ASSUME ServiceInv, NEW a \in Auctions, NEW c \in Auctions, NEW now,
           FinishAuction(c, now) \/ CancelAuction(c, now)
    PROVE  IndexMoves(a)
<1>1. PICK status \in Final : Close(c, status, now)
    BY OutcomeIsFinal DEF FinishAuction, CancelAuction, Final
<1>2. CASE c = a
    <2>1. index'[a] = NotIndexed /\ state'[a] = ClosedState(state[a], status, now) /\ state[a] \in AuctionState
        BY <1>1, <1>2 DEF Close, ServiceInv, RedisTypeOK
    <2>2. state'[a].status = status
        BY <2>1 DEF ClosedState, AuctionState
    <2> QED BY <2>1, <2>2, StatusesDiffer DEF IndexMoves, IsRunning
<1>3. CASE c # a
    BY <1>1, <1>3 DEF Close, ServiceInv, RedisTypeOK, IndexMoves, IsRunning
<1> QED BY <1>2, <1>3

(* So do the scanner's own writes, by what the scanner saw. *)
LEMMA ScannerIndexes ==
    ASSUME ServiceInv, NEW s \in Scanners, ScannerSees(s), ScanReindexes(s), NEW a \in Auctions
    PROVE  IndexMoves(a)
<1> DEFINE c == scanner[s].auction
<1>1. c \in Auctions /\ scanner[s].expire \in Nat /\ scanner[s].pc \in {"remove", "reindex"}
    BY ScannerHas DEF ScanReindexes
<1>2. UNCHANGED state /\ Exists(c) /\ (scanner[s].pc = "remove" => ~IsRunning(c))
    BY <1>1 DEF ScanReindexes, RemoveRunningAuction, IndexRunningAuction, ScannerSees
<1>3. CASE c = a /\ scanner[s].pc = "remove"
    <2>1. index'[a] = NotIndexed
        BY <1>3 DEF ScanReindexes, RemoveRunningAuction, ServiceInv, RedisTypeOK
    <2> QED BY <1>2, <1>3, <2>1 DEF IndexMoves, IsRunning
<1>4. CASE c = a /\ scanner[s].pc = "reindex"
    <2>1. index'[a] = scanner[s].expire
        BY <1>4 DEF ScanReindexes, IndexRunningAuction, ServiceInv, RedisTypeOK
    <2> QED BY <1>1, <1>2, <1>4, <2>1 DEF IndexMoves, Exists, NotIndexed
<1>5. CASE c # a
    BY <1>2, <1>5 DEF ScanReindexes, RemoveRunningAuction, IndexRunningAuction, ServiceInv, RedisTypeOK,
           IndexMoves, IsRunning
<1> QED BY <1>1, <1>3, <1>4, <1>5

(* What every step does to the index entry of one auction. *)
LEMMA ServiceIndexSteps ==
    ASSUME AnyArguments, ServiceInv, \A s \in Scanners : ScannerSees(s), [Next]_vars, NEW a \in Auctions
    PROVE  IndexMoves(a)
<1>0. CASE UNCHANGED <<state, index>>
    BY <1>0 DEF IndexMoves, IsRunning
<1>1. CASE UNCHANGED vars \/ Tick
    BY <1>0, <1>1 DEF vars, redisVars, Tick
<1>2. ASSUME NEW m \in Merchants, MerchantAsks(m) \/ MerchantStops(m)
      PROVE  UNCHANGED <<state, index>>
    BY <1>2 DEF MerchantAsks, MerchantStops, CreateAuction, UpdateRead, DeleteAuction, StartRead, CancelRead,
           FinishRead, redisVars
<1>3. ASSUME NEW m \in Merchants, MerchantWorks(m), ~UNCHANGED <<state, index>>
      PROVE  IndexMoves(a)
    <2>1. StartLoad(m) \/ CloseScript(m)
        BY <1>3 DEF MerchantWorks, UpdateSave, StartCheck, StartSave, PublishLast, CancelSave, PublishFinal,
               SaveFinal, redisVars
    <2>2. CASE StartLoad(m)
        <3>1. merchant[m].auction \in Auctions /\ merchant[m].rule \in RuleType
            BY <2>2, MerchantHolds DEF StartLoad, RuleWork
        <3>2. WithEnd(merchant[m].rule, clock) \in RuleType
            BY <3>1, ServiceAssumption DEF WithEnd, RuleType, ServiceInv, CountersOK
        <3> QED BY <1>3, <2>2, <3>1, <3>2, LoadIndexes DEF StartLoad, redisVars
    <2>3. CASE CloseScript(m)
        <3>1. merchant[m].auction \in Auctions
            BY <2>3, MerchantHolds DEF CloseScript, ScriptWork
        <3> QED BY <1>3, <2>3, <3>1, CloseUnindexes DEF CloseScript, redisVars
    <2> QED BY <2>1, <2>2, <2>3
<1>4. ASSUME NEW b \in Bidders, BidderAsks(b) \/ BidderWorks(b) \/ BidderStops(b), ~UNCHANGED <<state, index>>
      PROVE  IndexMoves(a)
    <2>1. PICK u \in Users, p \in Prices, req \in Requests : BidIsAccepted(b, u, p, req)
        BY <1>4 DEF BidderAsks, BidderWorks, BidderStops, BidArrives, BidIsRefused, RejectBid, BidRecorded,
               BidPublished, ExpireCheckPublished, BidSaved, redisVars
    <2>2. bidder[b].auction \in Auctions /\ bidder[b].now \in Nat
        BY <2>1, BidderHolds DEF BidIsAccepted, ArrivedWork
    <2> QED BY <2>1, <2>2, BidIndexes DEF BidIsAccepted
<1>5. ASSUME Receive \/ ConsumerWorks \/ ConsumerStops, ~UNCHANGED <<state, index>>
      PROVE  IndexMoves(a)
    <2>1. ConsumerFinishes
        BY <1>5 DEF Receive, ConsumerWorks, ConsumerStops, ConsumerRecords, ConsumerSaves, ConsumerRereads,
               ConsumerPublishes, redisVars
    <2>2. consumer.msg.auction \in Auctions
        BY <2>1, ConsumerHolds DEF ConsumerFinishes, CheckWork, ExpireChecks
    <2>3. FinishExpiredAuction(consumer.msg.auction, consumer.msg.version, consumer.msg.expire, clock)
        BY <1>5, <2>1 DEF ConsumerFinishes, redisVars
    <2>4. FinishAuction(consumer.msg.auction, clock)
        BY <2>3 DEF FinishExpiredAuction, StillExpired, FinishAuction
    <2> QED BY <2>2, <2>4, CloseUnindexes
<1>6. ASSUME NEW s \in Scanners, ScannerWorks(s) \/ ScannerStops(s), ~UNCHANGED <<state, index>>
      PROVE  IndexMoves(a)
    <2>1. ScanReindexes(s) \/ ScanFinishes(s)
        BY <1>6 DEF ScannerWorks, ScannerStops, ScanLists, ScanReads, ScanRereads, ScanPublishes, ScanSaves, redisVars
    <2>2. CASE ScanFinishes(s)
        <3>1. scanner[s].auction \in Auctions
            BY <2>2, ScannerHas DEF ScanFinishes
        <3>2. FinishAuction(scanner[s].auction, scanner[s].now)
            BY <1>6, <2>2 DEF ScanFinishes, redisVars, FinishExpiredAuction, StillExpired, FinishAuction
        <3> QED BY <3>1, <3>2, CloseUnindexes
    <2> QED BY <2>1, <2>2, ScannerIndexes
<1> QED BY <1>0, <1>1, <1>2, <1>3, <1>4, <1>5, <1>6 DEF Next

(* A hash stays, and one that is closed is not opened again. *)
LEMMA HashesStay ==
    ASSUME OneAtATime, MirrorInv, [Next]_vars, NEW a \in Auctions, Exists(a)
    PROVE  Exists(a)' /\ (~IsRunning(a) => ~IsRunning(a)')
<1>1. ServiceInv /\ Mirrors(a)
    BY DEF MirrorInv
<1> QED BY <1>1, ServiceHashSteps, LoadedMirrors DEF HashGrows, IsRunning, Exists

(* A scanner that takes an auction off the index still knows why. *)
LEMMA ScannerSeesStep ==
    ASSUME OneAtATime, MirrorInv, \A a \in Auctions : IndexFits(a), [Next]_vars,
           NEW s \in Scanners, ScannerSees(s)
    PROVE  ScannerSees(s)'
<1> DEFINE work == scanner[s]
<1>0. ServiceInv /\ DOMAIN scanner = Scanners
    BY DEF MirrorInv, ServiceInv, ScannersOK
<1>1. work.pc # "idle" => work.todo \in SUBSET Auctions
    BY <1>0 DEF ServiceInv, ScannersOK, Idle, ReadWork, CandidateWork, ClosedWork
<1>2. work.pc \notin {"idle", "read"} => work.auction \in Auctions
    BY <1>0 DEF ServiceInv, ScannersOK, Idle, ReadWork, CandidateWork, ClosedWork
<1>3. CASE scanner'[s] = scanner[s]
    BY <1>1, <1>2, <1>3, HashesStay DEF ScannerSees
<1>4. ASSUME NEW next, ScannerGoes(s, next)
      PROVE  scanner'[s] = next
    BY <1>0, <1>4 DEF ScannerGoes
<1>5. ASSUME scanner'[s] = Idle
      PROVE  ScannerSees(s)'
    BY <1>5 DEF ScannerSees, Idle
<1>6. ASSUME NEW next, ScannerGoes(s, next), next.pc = "read", \A a \in next.todo : a \in Auctions /\ Exists(a)
      PROVE  ScannerSees(s)'
    BY <1>4, <1>6, HashesStay DEF ScannerSees
<1>7. ASSUME work.pc # "idle", NEW a, ScannerLeaves(s, a)
      PROVE  ScannerSees(s)'
    <2> DEFINE left == work.todo \ {a}
               next == [pc |-> "read", todo |-> left, now |-> work.now]
    <2>1. next.pc = "read" /\ next.todo = left
        OBVIOUS
    <2>2. \A c \in left : c \in Auctions /\ Exists(c)
        BY <1>1, <1>7 DEF ScannerSees
    <2>3. ScannerGoes(s, Idle) \/ ScannerGoes(s, next)
        BY <1>7 DEF ScannerLeaves
    <2> HIDE DEF next, left
    <2> QED BY <1>4, <1>5, <1>6, <2>1, <2>2, <2>3
<1>8. CASE ScanLists(s)
    <2>1. PICK batch \in SUBSET Candidates(clock) :
              ScannerGoes(s, [pc |-> "read", todo |-> batch, now |-> clock])
        BY <1>8 DEF ScanLists
    <2>2. \A a \in batch : a \in Auctions /\ Exists(a)
        BY DEF Candidates, IndexFits
    <2> DEFINE next == [pc |-> "read", todo |-> batch, now |-> clock]
    <2>3. next.pc = "read" /\ next.todo = batch /\ ScannerGoes(s, next)
        BY <2>1
    <2> HIDE DEF next
    <2> QED BY <1>6, <2>2, <2>3
<1>9. CASE ScanReads(s)
    <2>1. PICK c \in work.todo :
              ScannerGoes(s, [pc |-> Verdict(c, work.now), todo |-> work.todo, now |-> work.now, auction |-> c,
                              version |-> state[c].version, expire |-> state[c].expire])
        BY <1>9 DEF ScanReads
    <2> DEFINE next == [pc |-> Verdict(c, work.now), todo |-> work.todo, now |-> work.now, auction |-> c,
                        version |-> state[c].version, expire |-> state[c].expire]
    <2>2. next.pc = Verdict(c, work.now) /\ next.todo = work.todo /\ next.auction = c
        OBVIOUS
    <2>3. scanner'[s] = next
        BY <1>4, <2>1
    <2>4. Verdict(c, work.now) = "remove" => ~IsRunning(c)
        BY DEF Verdict
    <2>5. c \in Auctions /\ Exists(c) /\ \A a \in work.todo : a \in Auctions /\ Exists(a)
        BY <1>1, <1>9 DEF ScanReads, ScannerSees
    <2> HIDE DEF next
    <2> QED BY <2>2, <2>3, <2>4, <2>5, HashesStay DEF ScannerSees
<1>10. CASE ScanReindexes(s)
    BY <1>7, <1>10 DEF ScanReindexes
<1>11. CASE ScanFinishes(s)
    <2>1. /\ work.auction \in Auctions /\ Exists(work.auction)
          /\ \A a \in work.todo : a \in Auctions /\ Exists(a)
        BY <1>1, <1>2, <1>11 DEF ScanFinishes, ScannerSees
    <2>2. work \in CandidateWork
        BY <1>0, <1>11, ScannerHolds DEF ScanFinishes
    <2>3. \E next : /\ scanner'[s] = next /\ next.pc \in {"publish", "reread"}
                    /\ next.todo = work.todo /\ next.auction = work.auction
        <3>1. /\ [work EXCEPT !.pc = "reread"].pc = "reread" /\ [work EXCEPT !.pc = "reread"].todo = work.todo
              /\ [work EXCEPT !.pc = "reread"].auction = work.auction
            BY <2>2 DEF CandidateWork
        <3>2. CASE ScannerGoes(s, [work EXCEPT !.pc = "reread"])
            BY <1>4, <3>1, <3>2
        <3>3. CASE ScannerGoes(s, [pc |-> "publish", todo |-> work.todo, now |-> work.now, auction |-> work.auction,
                                   snap |-> SnapOf(state'[work.auction])])
            BY <1>4, <3>3
        <3> QED BY <1>11, <3>2, <3>3 DEF ScanFinishes
    <2> QED BY <2>1, <2>3, HashesStay DEF ScannerSees
<1>12. CASE ScanRereads(s)
    <2>1. /\ work.auction \in Auctions /\ Exists(work.auction)
          /\ \A a \in work.todo : a \in Auctions /\ Exists(a)
        BY <1>1, <1>2, <1>12 DEF ScanRereads, ScannerSees
    <2>2. work \in CandidateWork
        BY <1>0, <1>12, ScannerHolds DEF ScanRereads
    <2> DEFINE next == [work EXCEPT !.pc = IF IsRunning(work.auction) THEN "reindex" ELSE "remove",
                                    !.expire = state[work.auction].expire]
    <2>3. /\ next.pc = IF IsRunning(work.auction) THEN "reindex" ELSE "remove"
          /\ next.todo = work.todo /\ next.auction = work.auction
        BY <2>2 DEF CandidateWork
    <2>4. scanner'[s] = next
        BY <1>4, <1>12 DEF ScanRereads
    <2> HIDE DEF next
    <2> QED BY <2>1, <2>3, <2>4, HashesStay DEF ScannerSees
<1>13. CASE ScanPublishes(s)
    <2>1. CASE ScannerLeaves(s, work.auction)
        BY <1>7, <1>13, <2>1 DEF ScanPublishes
    <2>2. CASE ScannerGoes(s, [work EXCEPT !.pc = "save"])
        <3>1. /\ work.auction \in Auctions /\ Exists(work.auction)
              /\ \A a \in work.todo : a \in Auctions /\ Exists(a)
            BY <1>1, <1>2, <1>13 DEF ScanPublishes, ScannerSees
        <3>2. work \in ClosedWork
            BY <1>0, <1>13, ScannerHolds DEF ScanPublishes
        <3> DEFINE next == [work EXCEPT !.pc = "save"]
        <3>3. next.pc = "save" /\ next.todo = work.todo /\ next.auction = work.auction
            BY <3>2 DEF ClosedWork
        <3>4. scanner'[s] = next
            BY <1>4, <2>2
        <3> HIDE DEF next
        <3> QED BY <3>1, <3>3, <3>4, HashesStay DEF ScannerSees
    <2> QED BY <1>13, <2>1, <2>2 DEF ScanPublishes
<1>14. CASE ScanSaves(s)
    BY <1>7, <1>14 DEF ScanSaves
<1>15. CASE ScannerStops(s)
    BY <1>4, <1>5, <1>15 DEF ScannerStops
<1>16. ASSUME NEW r \in Scanners, r # s, ScannerWorks(r) \/ ScannerStops(r)
       PROVE  scanner'[s] = scanner[s]
    BY <1>0, <1>16 DEF ScannerWorks, ScannerStops, ScanLists, ScanReads, ScanReindexes, ScanFinishes, ScanRereads,
           ScanPublishes, ScanSaves, ScannerLeaves, ScannerGoes
<1>17. CASE UNCHANGED vars \/ Tick \/ Receive \/ ConsumerWorks \/ ConsumerStops
    BY <1>3, <1>17 DEF vars, workers, Tick, Receive, ConsumerWorks, ConsumerStops, ConsumerRecords, ConsumerSaves,
           ConsumerFinishes, ConsumerRereads, ConsumerPublishes, ConsumerGoes, Ack, Retry
<1>18. ASSUME NEW m \in Merchants, MerchantAsks(m) \/ MerchantWorks(m) \/ MerchantStops(m)
       PROVE  UNCHANGED scanner
    BY <1>18 DEF MerchantAsks, MerchantWorks, MerchantStops, CreateAuction, UpdateRead, DeleteAuction, StartRead,
           CancelRead, FinishRead, UpdateSave, StartCheck, StartLoad, StartSave, PublishLast, CancelSave, CloseScript,
           PublishFinal, SaveFinal, MerchantGoes, workers
<1>19. ASSUME NEW b \in Bidders, BidderAsks(b) \/ BidderWorks(b) \/ BidderStops(b)
       PROVE  UNCHANGED scanner
    BY <1>19 DEF BidderAsks, BidderWorks, BidderStops, BidArrives, BidIsAccepted, BidIsRefused, BidRecorded,
           BidPublished, ExpireCheckPublished, BidSaved, BidderGoes
<1> QED BY <1>3, <1>8, <1>9, <1>10, <1>11, <1>12, <1>13, <1>14, <1>15, <1>16, <1>17, <1>18, <1>19
        DEF Next, ScannerWorks

(* A running auction is in the expire index whatever scans, bids and closes   *)
(* are under way: it cannot be overlooked for good.                           *)
THEOREM RunningAreIndexed ==
    ASSUME AnyArguments, OneAtATime
    PROVE  Spec => []RunningIsIndexed
<1>1. Init => IndexInv
    <2>1. ASSUME Init, NEW a \in Auctions
          PROVE  IndexFits(a)
        <3>1. state[a].status = Absent /\ index[a] = NotIndexed
            BY <2>1 DEF Init, RedisInit, EmptyState
        <3> QED BY <3>1, StatusesDiffer DEF IndexFits, IsRunning
    <2>2. Init => \A s \in Scanners : ScannerSees(s)
        BY DEF Init, Idle, ScannerSees
    <2> QED BY <2>1, <2>2 DEF IndexInv
<1>2. MirrorInv /\ IndexInv /\ [Next]_vars => IndexInv'
    <2> SUFFICES ASSUME MirrorInv, IndexInv, [Next]_vars
                 PROVE  IndexInv'
        OBVIOUS
    <2>1. ASSUME NEW a \in Auctions
          PROVE  IndexFits(a)'
        BY ServiceIndexSteps, HashesStay DEF MirrorInv, IndexInv, IndexMoves, IndexFits
    <2> QED BY <2>1, ScannerSeesStep DEF IndexInv
<1>3. IndexInv => RunningIsIndexed
    BY DEF IndexInv, IndexFits, RunningIsIndexed
<1> QED BY <1>1, <1>2, <1>3, MirrorStarts, MirrorSteps, PTL DEF Spec

-----------------------------------------------------------------------------
(* The audit records, where the ids survive as doubles: a bid keeps its       *)
(* identity in its handler, in its event and in the consumer's hands.         *)

ExactDoubles == (\A n \in Nat : BidIdAsDouble[n] = n) /\ \A u \in Users : UserIdAsDouble[u] = u

BidTold(a, id, u, p) == BidRecord(a, id, u, p) \in accepted

EventTells(msg) == msg.kind = "bid" => BidTold(msg.auction, msg.id, msg.user, msg.snap.price)

BidderTells(b) ==
    bidder[b].pc \in {"record", "publish", "publish_delay", "save"} =>
        BidTold(bidder[b].auction, bidder[b].id, bidder[b].user, bidder[b].snap.price)

ConsumerTells == consumer.pc \in {"record", "save", "publish"} => EventTells(consumer.msg)

RecordInv ==
    /\ RecordsAreBids /\ ConsumerTells
    /\ \A b \in Bidders : BidderTells(b)
    /\ \A msg \in msgs : EventTells(msg)

(* Who writes the audit table, and what is under way to it, step by step. *)
LEMMA RecordMoves ==
    ASSUME ServiceInv, [Next]_vars, RecordInv, ExactDoubles
    PROVE  records' \subseteq accepted
<1>1. CASE UNCHANGED records
    BY <1>1 DEF RecordInv, RecordsAreBids
<1>2. ASSUME NEW b \in Bidders, BidRecorded(b)
      PROVE  records' \subseteq accepted
    BY <1>2 DEF BidRecorded, RecordInv, RecordsAreBids, BidderTells, BidTold
<1>3. CASE ConsumerRecords
    <2>1. consumer.msg \in BidEvents
        BY <1>3, ConsumerHolds DEF ConsumerRecords, RecordWork
    <2>2. RecordFromEvent(consumer.msg) \in accepted
        BY <1>3, <2>1 DEF ConsumerRecords, RecordInv, ConsumerTells, EventTells, BidTold, BidEvents, RecordFromEvent,
               ExactDoubles
    <2> QED BY <1>3, <2>2 DEF ConsumerRecords, RecordInv, RecordsAreBids
<1>4. CASE UNCHANGED vars \/ Tick
    BY <1>1, <1>4 DEF vars, Tick
<1>5. ASSUME NEW m \in Merchants, MerchantAsks(m) \/ MerchantWorks(m) \/ MerchantStops(m)
      PROVE  UNCHANGED records
    BY <1>5 DEF MerchantAsks, MerchantWorks, MerchantStops, CreateAuction, UpdateRead, DeleteAuction, StartRead,
           CancelRead, FinishRead, UpdateSave, StartCheck, StartLoad, StartSave, PublishLast, CancelSave, CloseScript,
           PublishFinal, SaveFinal
<1>6. ASSUME NEW b \in Bidders, BidderAsks(b) \/ BidderWorks(b) \/ BidderStops(b), ~BidRecorded(b)
      PROVE  UNCHANGED records
    BY <1>6 DEF BidderAsks, BidderWorks, BidderStops, BidArrives, BidIsAccepted, BidIsRefused, BidPublished,
           ExpireCheckPublished, BidSaved
<1>7. ASSUME Receive \/ ConsumerWorks \/ ConsumerStops, ~ConsumerRecords
      PROVE  UNCHANGED records
    BY <1>7 DEF Receive, ConsumerWorks, ConsumerStops, ConsumerSaves, ConsumerFinishes, ConsumerRereads,
           ConsumerPublishes
<1>8. ASSUME NEW s \in Scanners, ScannerWorks(s) \/ ScannerStops(s)
      PROVE  UNCHANGED records
    BY <1>8 DEF ScannerWorks, ScannerStops, ScanLists, ScanReads, ScanReindexes, ScanFinishes, ScanRereads,
           ScanPublishes, ScanSaves
<1> QED BY <1>1, <1>2, <1>3, <1>4, <1>5, <1>6, <1>7, <1>8 DEF Next

(* What a bid request will record and publish is a bid that was accepted. *)
LEMMA BidderTellsStep ==
    ASSUME ServiceInv, [Next]_vars, ExactDoubles, accepted \subseteq accepted', NEW b \in Bidders, BidderTells(b)
    PROVE  BidderTells(b)'
<1> DEFINE work == bidder[b]
<1>0. DOMAIN bidder = Bidders
    BY DEF ServiceInv, BiddersOK
<1>1. CASE bidder'[b] = bidder[b]
    BY <1>1 DEF BidderTells, BidTold
<1>2. ASSUME NEW next, BidderGoes(b, next)
      PROVE  bidder'[b] = next
    BY <1>0, <1>2 DEF BidderGoes
<1>3. CASE BidderGoes(b, Idle)
    BY <1>2, <1>3 DEF BidderTells, Idle
<1>4. ASSUME NEW a \in Auctions, BidArrives(b, a)
      PROVE  BidderTells(b)'
    <2>1. bidder'[b].pc = "script"
        BY <1>2, <1>4 DEF BidArrives
    <2> QED BY <2>1 DEF BidderTells
<1>5. ASSUME NEW u \in Users, NEW p \in Prices, NEW req \in Requests, BidIsAccepted(b, u, p, req)
      PROVE  BidderTells(b)'
    <2> DEFINE a == work.auction
               id == Cardinality(accepted) + 1
               s == SnapOf(state'[a])
    <2>1. a \in Auctions
        BY <1>5, BidderHolds DEF BidIsAccepted, ArrivedWork
    <2>2. id \in Nat
        BY FS_CardinalityType DEF ServiceInv, CountersOK
    <2>3. state'[a].price = p
        BY <1>5, <2>1 DEF BidIsAccepted, AcceptBid, BidState, ServiceInv, RedisTypeOK, AuctionState
    <2>4. s.price = p
        BY <2>3 DEF SnapOf
    <2>5. bidder'[b] = [pc |-> "record", auction |-> a, id |-> BidIdAsDouble[id], user |-> u,
                        snap |-> s, expire |-> state'[a].expire]
        BY <1>2, <1>5 DEF BidIsAccepted
    <2>6. BidRecord(a, id, u, p) \in accepted'
        BY <1>5 DEF BidIsAccepted
    <2>7. BidIdAsDouble[id] = id
        BY <2>2 DEF ExactDoubles
    <2> HIDE DEF s, id, a
    <2>8. bidder'[b].auction = a /\ bidder'[b].id = id /\ bidder'[b].user = u /\ bidder'[b].snap = s
        BY <2>5, <2>7
    <2> QED BY <2>4, <2>6, <2>8 DEF BidderTells, BidTold
<1>6. ASSUME BidRecorded(b) \/ BidPublished(b) \/ ExpireCheckPublished(b)
      PROVE  BidderTells(b)'
    <2>1. work \in BidWork /\ work.pc \in {"record", "publish", "publish_delay", "save"}
        BY <1>6, BidderHolds DEF BidRecorded, BidPublished, ExpireCheckPublished
    <2>2. PICK pc : BidderGoes(b, [work EXCEPT !.pc = pc])
        BY <1>6 DEF BidRecorded, BidPublished, ExpireCheckPublished
    <2> DEFINE next == [work EXCEPT !.pc = pc]
    <2>3. next.auction = work.auction /\ next.id = work.id /\ next.user = work.user /\ next.snap = work.snap
        BY <2>1 DEF BidWork
    <2>4. bidder'[b] = next
        BY <1>2, <2>2
    <2> HIDE DEF next
    <2> QED BY <2>1, <2>3, <2>4 DEF BidderTells, BidTold
<1>7. ASSUME BidSaved(b) \/ BidderStops(b)
             \/ \E u \in Users, p \in Prices, req \in Requests : BidIsRefused(b, u, p, req)
      PROVE  BidderTells(b)'
    BY <1>3, <1>7 DEF BidSaved, BidderStops, BidIsRefused
<1>8. ASSUME NEW c \in Bidders, c # b, BidderAsks(c) \/ BidderWorks(c) \/ BidderStops(c)
      PROVE  bidder'[b] = bidder[b]
    BY <1>0, <1>8 DEF BidderAsks, BidderWorks, BidderStops, BidArrives, BidIsAccepted, BidIsRefused, BidRecorded,
           BidPublished, ExpireCheckPublished, BidSaved, BidderGoes
<1>9. CASE UNCHANGED vars \/ Tick \/ Receive \/ ConsumerWorks \/ ConsumerStops
    BY <1>1, <1>9 DEF vars, workers, Tick, Receive, ConsumerWorks, ConsumerStops, ConsumerRecords, ConsumerSaves,
           ConsumerFinishes, ConsumerRereads, ConsumerPublishes, ConsumerGoes, Ack, Retry
<1>10. ASSUME NEW m \in Merchants, MerchantAsks(m) \/ MerchantWorks(m) \/ MerchantStops(m)
       PROVE  UNCHANGED bidder
    BY <1>10 DEF MerchantAsks, MerchantWorks, MerchantStops, CreateAuction, UpdateRead, DeleteAuction, StartRead,
           CancelRead, FinishRead, UpdateSave, StartCheck, StartLoad, StartSave, PublishLast, CancelSave, CloseScript,
           PublishFinal, SaveFinal, MerchantGoes, workers
<1>11. ASSUME NEW s \in Scanners, ScannerWorks(s) \/ ScannerStops(s)
       PROVE  UNCHANGED bidder
    BY <1>11 DEF ScannerWorks, ScannerStops, ScanLists, ScanReads, ScanReindexes, ScanFinishes, ScanRereads,
           ScanPublishes, ScanSaves, ScannerLeaves, ScannerGoes
<1> QED BY <1>1, <1>4, <1>5, <1>6, <1>7, <1>8, <1>9, <1>10, <1>11 DEF Next, BidderAsks, BidderWorks

(* A new event is the bidder's; a retried one tells what it told before. *)
LEMMA TopicTellsStep ==
    ASSUME ServiceInv, [Next]_vars, RecordInv, accepted \subseteq accepted', NEW msg \in msgs'
    PROVE  EventTells(msg)'
<1>1. ASSUME EventTells(msg)
      PROVE  EventTells(msg)'
    BY <1>1 DEF EventTells, BidTold
<1>2. CASE msg \in msgs
    BY <1>1, <1>2 DEF RecordInv
<1>3. CASE msg.kind # "bid"
    BY <1>3 DEF EventTells
<1>4. ASSUME NEW b \in Bidders, BidPublished(b), msg \notin msgs
      PROVE  EventTells(msg)'
    <2>1. /\ bidder[b].pc = "publish"
          /\ msg = BidEvent(bidder[b].auction, bidder[b].snap, bidder[b].id, bidder[b].user)
        BY <1>4 DEF BidPublished, Send, SendFails
    <2>2. BidTold(bidder[b].auction, bidder[b].id, bidder[b].user, bidder[b].snap.price)
        BY <2>1 DEF RecordInv, BidderTells
    <2> QED BY <1>1, <2>1, <2>2 DEF BidEvent, EventTells
<1>5. ASSUME NEW b \in Bidders, BidderAsks(b) \/ BidderWorks(b) \/ BidderStops(b), ~BidPublished(b), msg \notin msgs
      PROVE  msg.kind # "bid"
    <2>1. ExpireCheckPublished(b)
        BY <1>5 DEF BidderAsks, BidderWorks, BidderStops, BidArrives, BidIsAccepted, BidIsRefused, BidRecorded, BidSaved
    <2>2. msg = ExpireCheck(bidder[b].auction, bidder[b].snap, bidder[b].expire)
        BY <1>5, <2>1 DEF ExpireCheckPublished, Send, SendFails
    <2> QED BY <2>2 DEF ExpireCheck
<1>6. ASSUME NEW m \in Merchants, MerchantAsks(m) \/ MerchantWorks(m) \/ MerchantStops(m), msg \notin msgs
      PROVE  msg.kind # "bid"
    <2>1. PublishLast(m) \/ PublishFinal(m)
        BY <1>6 DEF MerchantAsks, MerchantWorks, MerchantStops, CreateAuction, UpdateRead, DeleteAuction, StartRead,
               CancelRead, FinishRead, UpdateSave, StartCheck, StartLoad, StartSave, CancelSave, CloseScript, SaveFinal
    <2>2. msg = SnapshotEvent(merchant[m].auction, merchant[m].snap)
        BY <1>6, <2>1 DEF PublishLast, PublishFinal, Send, SendFails
    <2> QED BY <2>2 DEF SnapshotEvent
<1>7. ASSUME NEW s \in Scanners, ScannerWorks(s) \/ ScannerStops(s), msg \notin msgs
      PROVE  msg.kind # "bid"
    BY <1>7 DEF ScannerWorks, ScannerStops, ScanLists, ScanReads, ScanReindexes, ScanFinishes, ScanRereads,
           ScanPublishes, ScanSaves, Send, SendFails, SnapshotEvent
<1>8. ASSUME Receive \/ ConsumerWorks \/ ConsumerStops, msg \notin msgs
      PROVE  EventTells(msg)'
    <2> DEFINE old == consumer.msg
    <2>1. CASE msg = SnapshotEvent(old.auction, consumer.snap)
        BY <1>3, <2>1 DEF SnapshotEvent
    <2>2. CASE Retry(old) /\ (ConsumerRecords \/ ConsumerSaves \/ ConsumerPublishes)
        <3>1. consumer.pc \in {"record", "save", "publish"}
            BY <2>2 DEF ConsumerRecords, ConsumerSaves, ConsumerPublishes
        <3>2. EventTells(old)
            BY <3>1 DEF RecordInv, ConsumerTells
        <3>3. msg = [old EXCEPT !.tries = @ + 1]
            BY <1>8, <2>2 DEF Retry
        <3>4. old \in Events
            BY <3>1, ConsumerHolds DEF RecordWork, SaveWork, Events
        <3>5. msg.kind = old.kind /\ (old.kind = "bid" =>
                  msg.auction = old.auction /\ msg.id = old.id /\ msg.user = old.user /\ msg.snap = old.snap)
            BY <3>3, <3>4 DEF Events, SnapshotEvents, BidEvents, ExpireChecks
        <3> QED BY <1>1, <3>2, <3>5 DEF EventTells
    <2>3. CASE msgs' \subseteq msgs
        BY <1>8, <2>3
    <2>4. ASSUME Send(SnapshotEvent(old.auction, consumer.snap))
          PROVE  EventTells(msg)'
        BY <1>8, <2>1, <2>4 DEF Send
    <2>5. ASSUME Ack(old) \/ UNCHANGED msgs
          PROVE  msgs' \subseteq msgs
        BY <2>5 DEF Ack
    <2>6. CASE ConsumerRecords
        BY <2>2, <2>3, <2>5, <2>6 DEF ConsumerRecords
    <2>7. CASE ConsumerSaves
        BY <2>2, <2>3, <2>5, <2>7 DEF ConsumerSaves
    <2>8. CASE ConsumerPublishes
        BY <2>2, <2>4, <2>8 DEF ConsumerPublishes
    <2>9. CASE Receive \/ ConsumerFinishes \/ ConsumerRereads \/ ConsumerStops
        BY <2>3, <2>5, <2>9 DEF Receive, ConsumerFinishes, ConsumerRereads, ConsumerStops
    <2> QED BY <1>8, <2>6, <2>7, <2>8, <2>9 DEF ConsumerWorks
<1>9. CASE UNCHANGED vars \/ Tick
    BY <1>2, <1>9 DEF vars, Tick
<1> QED BY <1>2, <1>3, <1>4, <1>5, <1>6, <1>7, <1>8, <1>9 DEF Next

(* So is the event the consumer works on. *)
LEMMA ConsumerTellsStep ==
    ASSUME ServiceInv, [Next]_vars, RecordInv, accepted \subseteq accepted'
    PROVE  ConsumerTells'
<1>1. ASSUME NEW msg, EventTells(msg), consumer'.msg = msg
      PROVE  ConsumerTells'
    BY <1>1 DEF ConsumerTells, EventTells, BidTold
<1>2. CASE UNCHANGED consumer
    BY <1>2 DEF RecordInv, ConsumerTells, EventTells, BidTold
<1>3. CASE consumer' = Idle
    BY <1>3 DEF ConsumerTells, Idle
<1>4. CASE Receive
    <2>1. PICK msg \in msgs : consumer'.msg = msg
        <3>1. PICK msg \in msgs :
                ConsumerGoes(CASE msg.kind = "bid" -> [pc |-> "record", msg |-> msg]
                               [] msg.kind = "snapshot" -> [pc |-> "save", msg |-> msg, snap |-> msg.snap]
                               [] msg.kind = "expire" -> [pc |-> "finish", msg |-> msg])
            BY <1>4 DEF Receive
        <3>2. msg.kind \in {"bid", "snapshot", "expire"}
            BY DEF ServiceInv, MsgsOK, Events, SnapshotEvents, BidEvents, ExpireChecks
        <3> QED BY <3>1, <3>2 DEF ConsumerGoes
    <2> QED BY <1>1, <2>1 DEF RecordInv
<1>5. CASE ConsumerRecords
    <2>1. EventTells(consumer.msg)
        BY <1>5 DEF ConsumerRecords, RecordInv, ConsumerTells
    <2> QED BY <1>1, <1>3, <1>5, <2>1 DEF ConsumerRecords, ConsumerGoes, Ack, Retry
<1>6. CASE ConsumerSaves
    BY <1>3, <1>6 DEF ConsumerSaves, ConsumerGoes, Ack, Retry
<1>7. CASE ConsumerPublishes
    <2>1. EventTells(consumer.msg) /\ consumer \in SaveWork
        BY <1>7, ConsumerHolds DEF ConsumerPublishes, RecordInv, ConsumerTells
    <2>2. [consumer EXCEPT !.pc = "save"].msg = consumer.msg
        BY <2>1 DEF SaveWork
    <2> QED BY <1>1, <1>3, <1>7, <2>1, <2>2 DEF ConsumerPublishes, ConsumerGoes, Retry
<1>8. ASSUME ConsumerFinishes \/ ConsumerRereads
      PROVE  ConsumerTells'
    <2>1. consumer.msg.kind = "expire"
        BY <1>8, ConsumerHolds DEF ConsumerFinishes, ConsumerRereads, CheckWork, ExpireChecks
    <2>2. consumer' = Idle \/ consumer'.msg = consumer.msg
        BY <1>8 DEF ConsumerFinishes, ConsumerRereads, ConsumerGoes, Ack
    <2>3. EventTells(consumer.msg)
        BY <2>1 DEF EventTells
    <2> QED BY <1>1, <1>3, <2>2, <2>3
<1>9. CASE ConsumerStops
    BY <1>3, <1>9 DEF ConsumerStops, ConsumerGoes
<1>10. CASE UNCHANGED vars \/ Tick
    BY <1>2, <1>10 DEF vars, workers, Tick
<1>11. ASSUME NEW m \in Merchants, MerchantAsks(m) \/ MerchantWorks(m) \/ MerchantStops(m)
       PROVE  UNCHANGED consumer
    BY <1>11 DEF MerchantAsks, MerchantWorks, MerchantStops, CreateAuction, UpdateRead, DeleteAuction, StartRead,
           CancelRead, FinishRead, UpdateSave, StartCheck, StartLoad, StartSave, PublishLast, CancelSave, CloseScript,
           PublishFinal, SaveFinal, MerchantGoes, workers
<1>12. ASSUME NEW b \in Bidders, BidderAsks(b) \/ BidderWorks(b) \/ BidderStops(b)
       PROVE  UNCHANGED consumer
    BY <1>12 DEF BidderAsks, BidderWorks, BidderStops, BidArrives, BidIsAccepted, BidIsRefused, BidRecorded,
           BidPublished, ExpireCheckPublished, BidSaved, BidderGoes
<1>13. ASSUME NEW s \in Scanners, ScannerWorks(s) \/ ScannerStops(s)
       PROVE  UNCHANGED consumer
    BY <1>13 DEF ScannerWorks, ScannerStops, ScanLists, ScanReads, ScanReindexes, ScanFinishes, ScanRereads,
           ScanPublishes, ScanSaves, ScannerLeaves, ScannerGoes
<1> QED BY <1>2, <1>4, <1>5, <1>6, <1>7, <1>8, <1>9, <1>10, <1>11, <1>12, <1>13 DEF Next, ConsumerWorks

(* Every audit record is a bid that was accepted, under its own id, whoever   *)
(* wrote it and however often its event was delivered.                        *)
THEOREM RecordsAreOfBids ==
    ASSUME AnyArguments, ExactDoubles
    PROVE  Spec => []RecordsAreBids
<1>1. Init => RecordInv
    BY DEF Init, Idle, RecordInv, RecordsAreBids, ConsumerTells, BidderTells
<1>2. ServiceInv /\ RecordInv /\ [Next]_vars => RecordInv'
    <2> SUFFICES ASSUME ServiceInv, RecordInv, [Next]_vars
                 PROVE  RecordInv'
        OBVIOUS
    <2>1. accepted \subseteq accepted'
        BY AcceptedSteps DEF BidIsAccepted
    <2>2. RecordsAreBids'
        BY <2>1, RecordMoves DEF RecordsAreBids
    <2>3. \A b \in Bidders : BidderTells(b)'
        BY <2>1, BidderTellsStep DEF RecordInv
    <2>4. \A msg \in msgs' : EventTells(msg)'
        BY <2>1, TopicTellsStep
    <2>5. ConsumerTells'
        BY <2>1, ConsumerTellsStep
    <2> QED BY <2>2, <2>3, <2>4, <2>5 DEF RecordInv
<1>3. RecordInv => RecordsAreBids
    BY DEF RecordInv
<1>4. ServiceInv /\ [Next]_vars => ServiceInv'
    BY StepKeeps DEF Keeps
<1> QED BY <1>1, <1>2, <1>3, <1>4, ServiceStarts, PTL DEF Spec

-----------------------------------------------------------------------------
(* The promise of AuctionPromise.  What clients are shown comes from the row  *)
(* until there is a hash, and from the hash ever after.  No order of requests *)
(* is assumed: starts may overlap, stop half-way and load an auction again.   *)

(* The cancellation of a row that waited for its start. *)
Blank(snap) ==
    /\ snap.status = Canceled /\ snap.version = 1
    /\ snap.bids = 0 /\ snap.winner = NoUser /\ snap.price > 0

RowWaits(a) ==
    db[a].status = Pending =>
        db[a].version = 0 /\ db[a].bids = 0 /\ db[a].winner = NoUser /\ db[a].price > 0

CancelIsBlank(a) == \A m \in Merchants : At(m, {"cancel_save"}, a) => Blank(merchant[m].snap)

(* As long as there is no hash, only such cancellations are under way. *)
NothingElse(a) ==
    ~Exists(a) =>
        /\ \A snap : Carried(a, snap) => Blank(snap)
        /\ db[a].status \in {Absent, Pending} \/ Blank(SnapOf(db[a]))

Waits(a) == RowWaits(a) /\ CancelIsBlank(a) /\ NothingElse(a)

PromiseInv == ServiceInv /\ \A a \in Auctions : Waits(a)

(* A row that has not started shows a start price and no bid. *)
LEMMA RowWaitsStep ==
    ASSUME ServiceInv, ServiceInv', [Next]_vars, NEW a \in Auctions, RowWaits(a)
    PROVE  RowWaits(a)'
<1>0. db'[a].rule \in RuleType
    BY DEF ServiceInv, RowsOK, Row
<1>1. CASE db'[a] = db[a]
    BY <1>1 DEF RowWaits
<1>2. CASE Saved(a)
    <2>1. PICK snap \in Snapshot : SnapOf(db'[a]) = snap
        BY <1>2 DEF Saved
    <2>2. db'[a].status = snap.status
        BY <2>1, SnapIsFields
    <2>3. db'[a].status # Pending
        BY <2>2 DEF Snapshot, Final, Pending, Running, Deal, Failed, Canceled
    <2> QED BY <2>3 DEF RowWaits
<1>3. CASE Created(a)
    BY <1>0, <1>3 DEF Created, FirstRow, RowWaits, RuleType
<1>4. CASE Deleted(a)
    BY <1>4, SnapFields DEF Deleted, RowWaits
<1>5. CASE Updated(a)
    BY <1>0, <1>5 DEF Updated, MergedRow, StillPending, RowWaits, RuleType
<1> QED BY <1>1, <1>2, <1>3, <1>4, <1>5, ServiceRowSteps DEF RowMoves

(* A cancellation of a Pending row carries what that row showed. *)
LEMMA CancelIsBlankStep ==
    ASSUME ServiceInv, [Next]_vars, NEW a \in Auctions, RowWaits(a), CancelIsBlank(a)
    PROVE  CancelIsBlank(a)'
<1> SUFFICES ASSUME NEW m \in Merchants, At(m, {"cancel_save"}, a)'
             PROVE  Blank(merchant'[m].snap)
    BY DEF CancelIsBlank, At, Blank
<1>1. merchant'[m].pc = "cancel_save" /\ merchant'[m].auction = a
    BY DEF At
<1>2. CASE merchant'[m] = merchant[m]
    BY <1>1, <1>2 DEF CancelIsBlank, At
<1>3. ASSUME NEW c \in Auctions, StartRead(m, c) \/ UpdateRead(m, c)
      PROVE  FALSE
    <2>1. merchant'[m].pc \in {"start_check", "update"}
        BY <1>3 DEF StartRead, UpdateRead, MerchantGoes, ServiceInv, MerchantsOK
    <2> QED BY <1>1, <2>1
<1>4. ~StartCheck(m)
    BY <1>1, CheckGoesOn
<1>5. ASSUME NEW c \in Auctions, CancelRead(m, c)
      PROVE  Blank(merchant'[m].snap)
    <2> DEFINE row == db[c]
               snap == [status |-> Canceled, price |-> row.price, bids |-> row.bids,
                        winner |-> row.winner, version |-> row.version + 1]
    <2>1. CASE CancelsRowAlone(row)
        <3>1. merchant'[m] = [pc |-> "cancel_save", auction |-> c, snap |-> snap]
            BY <1>5, <2>1 DEF CancelRead, MerchantGoes, ServiceInv, MerchantsOK
        <3>2. Blank(snap) \/ c # a
            BY <2>1 DEF CancelsRowAlone, RowWaits, Blank
        <3> HIDE DEF snap
        <3> QED BY <1>1, <3>1, <3>2
    <2>2. CASE ~CancelsRowAlone(row)
        <3>1. merchant'[m].pc = "cancel_script"
            BY <1>5, <2>2 DEF CancelRead, MerchantGoes, ServiceInv, MerchantsOK
        <3> QED BY <1>1, <3>1
    <2> QED BY <2>1, <2>2
<1> QED BY <1>1, <1>2, <1>3, <1>4, <1>5, MerchantReads

(* A hash that is not there yet has left nothing to carry. *)
LEMMA NothingElseStep ==
    ASSUME ServiceInv, [Next]_vars, NEW a \in Auctions, CancelIsBlank(a), NothingElse(a)
    PROVE  NothingElse(a)'
<1> SUFFICES ASSUME state'[a].status = Absent
             PROVE  /\ \A snap : Carried(a, snap)' => Blank(snap)
                    /\ db'[a].status \in {Absent, Pending} \/ Blank(SnapOf(db'[a]))
    BY DEF NothingElse, Exists, Blank, SnapOf
<1>1. ~Exists(a)
    <2>1. ASSUME NEW m \in Merchants, merchant[m].auction = a, Loaded(m)
          PROVE  FALSE
        <3>1. state'[a] = LoadedState(WithEnd(merchant[m].rule, clock), clock)
            BY <2>1 DEF Loaded, LoadAuction, ServiceInv, RedisTypeOK
        <3>2. state'[a].status = Running
            BY <3>1 DEF LoadedState
        <3> QED BY <3>2, StatusesDiffer
    <2> QED BY <2>1, ServiceHashSteps DEF HashGrows, Exists
<1>2. ASSUME NEW snap, Carried(a, snap) \/ CanceledAlone(a, snap)
      PROVE  Blank(snap)
    BY <1>1, <1>2 DEF NothingElse, CanceledAlone, CancelIsBlank
<1>3. ASSUME NEW snap, Carried(a, snap)'
      PROVE  Blank(snap)
    BY <1>2, <1>3, SnapshotSource DEF Source, Fresh
<1>4. db[a].status \in {Absent, Pending} \/ Blank(SnapOf(db[a]))
    BY <1>1 DEF NothingElse
<1>5. Saved(a) => Blank(SnapOf(db'[a]))
    BY <1>2 DEF Saved
<1>6. Deleted(a) => SnapOf(db'[a]) = SnapOf(db[a]) /\ db'[a].status = db[a].status
    BY SnapFields DEF Deleted
<1>7. db'[a].status \in {Absent, Pending} \/ Blank(SnapOf(db'[a]))
    BY <1>4, <1>5, <1>6, ServiceRowSteps DEF RowMoves, Created, Updated
<1> QED BY <1>3, <1>7

(* Together: every step keeps what the promise rests on. *)
LEMMA PromiseInvSteps ==
    ASSUME AnyArguments, PromiseInv, [Next]_vars
    PROVE  PromiseInv'
<1>1. ServiceInv /\ ServiceInv'
    BY StepKeeps DEF Keeps, PromiseInv
<1>2. ASSUME NEW a \in Auctions
      PROVE  Waits(a)'
    <2>1. Waits(a)
        BY DEF PromiseInv
    <2> QED BY <1>1, <2>1, RowWaitsStep, CancelIsBlankStep, NothingElseStep DEF Waits
<1> QED BY <1>1, <1>2 DEF PromiseInv

(* One step writes one auction: its hash or its row. *)
Alone(a) == \A c \in Auctions : c # a => state'[c] = state[c] /\ db'[c] = db[c]

(* A snapshot is saved to one row ... *)
LEMMA SaveIsAlone ==
    ASSUME ServiceInv, NEW a \in Auctions, NEW snap, SaveSnapshot(a, snap), UNCHANGED redisVars
    PROVE  Alone(a)
BY DEF SaveSnapshot, ServiceInv, RowsOK, Alone, redisVars

(* ... and a script writes one hash. *)
LEMMA ScriptIsAlone ==
    ASSUME ServiceInv, NEW a \in Auctions, UNCHANGED db,
           \/ \E rule, now : LoadAuction(a, rule, now)
           \/ \E room, u, p, req, now : AcceptBid(a, room, u, p, req, now)
           \/ \E now : FinishAuction(a, now) \/ CancelAuction(a, now)
    PROVE  Alone(a)
BY DEF LoadAuction, AcceptBid, FinishAuction, CancelAuction, Close, ServiceInv, RedisTypeOK, Alone

(* So every step that writes a hash or a row writes those of one auction. *)
LEMMA StepIsAlone ==
    ASSUME ServiceInv, [Next]_vars, ~UNCHANGED <<state, db>>
    PROVE  \E a \in Auctions : Alone(a)
<1>0. state \in [Auctions -> AuctionState] /\ db \in [Auctions -> Row]
    BY DEF ServiceInv, RedisTypeOK, RowsOK
<1>1. ~(UNCHANGED vars \/ Tick)
    BY DEF vars, redisVars, Tick
<1>2. ASSUME NEW m \in Merchants, MerchantAsks(m) \/ MerchantStops(m)
      PROVE  \E a \in Auctions : Alone(a)
    <2>1. PICK a \in Auctions : DeleteAuction(m, a) \/ \E rule \in Rules : CreateAuction(m, a, rule)
        BY <1>2 DEF MerchantAsks, MerchantStops, UpdateRead, StartRead, CancelRead, FinishRead, redisVars
    <2> QED BY <1>0, <2>1 DEF DeleteAuction, CreateAuction, Alone, redisVars
<1>3. ASSUME NEW m \in Merchants, MerchantWorks(m)
      PROVE  \E a \in Auctions : Alone(a)
    <2> DEFINE a == merchant[m].auction
    <2>1. CASE StartSave(m) \/ CancelSave(m) \/ SaveFinal(m)
        <3>1. a \in Auctions
            BY <2>1, MerchantHolds DEF StartSave, CancelSave, SaveFinal, SnapWork
        <3> QED BY <2>1, <3>1, SaveIsAlone DEF StartSave, CancelSave, SaveFinal, redisVars
    <2>2. CASE StartLoad(m)
        <3>1. a \in Auctions
            BY <2>2, MerchantHolds DEF StartLoad, RuleWork
        <3> QED BY <2>2, <3>1, ScriptIsAlone DEF StartLoad, redisVars
    <2>3. CASE CloseScript(m)
        <3>1. a \in Auctions
            BY <2>3, MerchantHolds DEF CloseScript, ScriptWork
        <3> QED BY <2>3, <3>1, ScriptIsAlone DEF CloseScript, redisVars
    <2>4. ASSUME NEW request \in Updates, UpdateSave(m, request)
          PROVE  \E c \in Auctions : Alone(c)
        <3>1. a \in Auctions
            BY <2>4, MerchantHolds DEF UpdateSave, RuleWork
        <3> DEFINE rule == Merged(merchant[m].rule, request)
        <3>2. UNCHANGED state /\ (db' = db \/ db' = [db EXCEPT ![a].rule = rule, ![a].price = rule.startPrice])
            BY <2>4 DEF UpdateSave, redisVars
        <3> HIDE DEF rule, a
        <3>3. Alone(a)
            BY <1>0, <3>1, <3>2 DEF Alone
        <3> QED BY <3>1, <3>3
    <2>5. ~(StartCheck(m) \/ PublishLast(m) \/ PublishFinal(m))
        BY DEF StartCheck, PublishLast, PublishFinal, redisVars
    <2> QED BY <1>3, <2>1, <2>2, <2>3, <2>4, <2>5 DEF MerchantWorks
<1>4. ASSUME NEW b \in Bidders, BidderAsks(b) \/ BidderWorks(b) \/ BidderStops(b)
      PROVE  \E a \in Auctions : Alone(a)
    <2> DEFINE a == bidder[b].auction
    <2>1. BidSaved(b) \/ \E u \in Users, p \in Prices, req \in Requests : BidIsAccepted(b, u, p, req)
        BY <1>4 DEF BidderAsks, BidderWorks, BidderStops, BidArrives, BidIsRefused, RejectBid, BidRecorded,
               BidPublished, ExpireCheckPublished, redisVars
    <2>2. CASE BidSaved(b)
        <3>1. a \in Auctions
            BY <2>2, BidderHolds DEF BidSaved, BidWork
        <3> QED BY <2>2, <3>1, SaveIsAlone DEF BidSaved, redisVars
    <2>3. CASE \E u \in Users, p \in Prices, req \in Requests : BidIsAccepted(b, u, p, req)
        <3>1. a \in Auctions
            BY <2>3, BidderHolds DEF BidIsAccepted, ArrivedWork
        <3> QED BY <2>3, <3>1, ScriptIsAlone DEF BidIsAccepted
    <2> QED BY <2>1, <2>2, <2>3
<1>5. ASSUME Receive \/ ConsumerWorks \/ ConsumerStops
      PROVE  \E a \in Auctions : Alone(a)
    <2> DEFINE a == consumer.msg.auction
    <2>1. ConsumerSaves \/ ConsumerFinishes
        BY <1>5 DEF Receive, ConsumerWorks, ConsumerStops, ConsumerRecords, ConsumerRereads, ConsumerPublishes, redisVars
    <2>2. CASE ConsumerSaves
        <3>1. a \in Auctions
            BY <2>2, ConsumerHolds DEF ConsumerSaves, SaveWork, Events, SnapshotEvents, BidEvents, ExpireChecks
        <3> QED BY <2>2, <3>1, SaveIsAlone DEF ConsumerSaves, redisVars
    <2>3. CASE ConsumerFinishes
        <3>1. a \in Auctions
            BY <2>3, ConsumerHolds DEF ConsumerFinishes, CheckWork, ExpireChecks
        <3>2. FinishAuction(a, clock)
            BY <2>3 DEF ConsumerFinishes, FinishExpiredAuction, StillExpired, FinishAuction, redisVars
        <3> QED BY <2>3, <3>1, <3>2, ScriptIsAlone DEF ConsumerFinishes
    <2> QED BY <2>1, <2>2, <2>3
<1>6. ASSUME NEW s \in Scanners, ScannerWorks(s) \/ ScannerStops(s)
      PROVE  \E a \in Auctions : Alone(a)
    <2> DEFINE a == scanner[s].auction
    <2>1. ScanSaves(s) \/ ScanFinishes(s)
        BY <1>6 DEF ScannerWorks, ScannerStops, ScanLists, ScanReads, ScanReindexes, IndexRunningAuction,
               RemoveRunningAuction, ScanRereads, ScanPublishes, redisVars
    <2>2. CASE ScanSaves(s)
        <3>1. a \in Auctions
            BY <2>2, ScannerHas DEF ScanSaves
        <3> QED BY <2>2, <3>1, SaveIsAlone DEF ScanSaves, redisVars
    <2>3. CASE ScanFinishes(s)
        <3>1. a \in Auctions
            BY <2>3, ScannerHas DEF ScanFinishes
        <3>2. FinishAuction(a, scanner[s].now)
            BY <2>3 DEF ScanFinishes, FinishExpiredAuction, StillExpired, FinishAuction, redisVars
        <3> QED BY <2>3, <3>1, <3>2, ScriptIsAlone DEF ScanFinishes
    <2> QED BY <2>1, <2>2, <2>3
<1> QED BY <1>1, <1>2, <1>3, <1>4, <1>5, <1>6 DEF Next

(* What is shown of an auction, and the ways in which the promise lets it move. *)
ViewOf(s) == [status |-> s.status, price |-> s.price, winner |-> s.winner, bids |-> s.bids]
NoView == [status |-> Absent, price |-> 0, winner |-> NoUser, bids |-> 0]

IsAfresh(new, status) ==
    new.price > 0 /\ new = [status |-> status, price |-> new.price, winner |-> NoUser, bids |-> 0]

Announced(old, new) == old.status \in {Absent, Pending} /\ IsAfresh(new, Pending)
Opened(new) == IsAfresh(new, Running)
CancelledWaiting(old, new) == old.status = Pending /\ IsAfresh(new, Canceled)
Withdrawn(old, new) == old.status \in {Pending, Canceled} /\ old.bids = 0 /\ new = NoView
TakenBy(old, new, u) ==
    /\ old.status = Running /\ old.winner # u /\ (old.bids > 0 => new.price >= old.price)
    /\ new = [status |-> Running, price |-> new.price, winner |-> u, bids |-> old.bids + 1]
Ended(old, new) ==
    old.status = Running /\ new = [old EXCEPT !.status = IF old.winner = NoUser THEN Failed ELSE Deal]
CalledOff(old, new) == old.status = Running /\ new = [old EXCEPT !.status = Canceled]

ViewCloses(old, new) == Ended(old, new) \/ CalledOff(old, new)

ViewMoves(a, old, new) ==
    \/ new = old
    \/ ~Settled(a) /\ (Announced(old, new) \/ Opened(new) \/ CancelledWaiting(old, new))
    \/ Withdrawn(old, new)
    \/ \E u \in Users : TakenBy(old, new, u)
    \/ ViewCloses(old, new)

(* The closing scripts end it or call it off. *)
LEMMA CloseEnds ==
    ASSUME ServiceInv, BidsExplainPrice, NEW a \in Auctions, HashCloses(a)
    PROVE  ViewCloses(ViewOf(state[a]), ViewOf(state'[a]))
<1>1. state[a] \in AuctionState /\ state[a].status = Running
    BY DEF ServiceInv, RedisTypeOK, HashCloses, IsRunning
<1>2. PICK status \in {Outcome(state[a]), Canceled} : \E now : state'[a] = ClosedState(state[a], status, now)
    BY DEF HashCloses
<1>3. /\ state'[a].status = status /\ state'[a].price = state[a].price
      /\ state'[a].winner = state[a].winner /\ state'[a].bids = state[a].bids
    BY <1>1, <1>2, AfterClose
<1>4. state[a].bids = 0 <=> state[a].winner = NoUser
    BY <1>1, StatusesDiffer DEF BidsExplainPrice, Exists
<1>5. Outcome(state[a]) = IF state[a].winner = NoUser THEN Failed ELSE Deal
    BY <1>1, <1>4 DEF Outcome, AuctionState
<1>6. status = Canceled \/ status = IF state[a].winner = NoUser THEN Failed ELSE Deal
    BY <1>5
<1>7. CASE status = Canceled
    BY <1>1, <1>3, <1>7 DEF ViewCloses, CalledOff, ViewOf
<1>8. CASE status = IF state[a].winner = NoUser THEN Failed ELSE Deal
    BY <1>1, <1>3, <1>8 DEF ViewCloses, Ended, ViewOf
<1> QED BY <1>6, <1>7, <1>8

(* An accepted bid is somebody else's, and does not fall below a bid: below    *)
(* the seal price it adds an increment, and at the seal price it stays.        *)
LEMMA BidTakes ==
    ASSUME ServiceInv, BidsExplainPrice, IncrementIsPositive, NEW a \in Auctions, HashTakesBid(a)
    PROVE  \E u \in Users : TakenBy(ViewOf(state[a]), ViewOf(state'[a]), u)
<1>1. state[a] \in AuctionState /\ state \in [Auctions -> AuctionState]
    BY DEF ServiceInv, RedisTypeOK
<1>2. PICK b \in Bidders, user \in Users, p \in Prices, req \in Requests :
          BidIsAccepted(b, user, p, req) /\ bidder[b].auction = a
    BY DEF HashTakesBid
<1> DEFINE u == UserIdAsDouble[user]
           now == bidder[b].now
<1>3. Acceptable(state[a], u, p, now) /\ state'[a] = BidState(state[a], u, p, now)
    BY <1>1, <1>2 DEF BidIsAccepted, AcceptBid
<1>4. u \in Users /\ p \in Nat
    BY ServiceAssumption, NumbersAssumption
<1> HIDE DEF u, now
<1>5. /\ state'[a].status = state[a].status /\ state'[a].bids = state[a].bids + 1
      /\ state'[a].price = p /\ state'[a].winner = u
    BY <1>1, <1>3, AfterBid
<1>6. state[a].status = Running /\ state[a].winner # u /\ MinBidPrice(state[a]) <= p
    BY <1>3 DEF Acceptable
<1>7. state[a].seal > 0 /\ state[a].bids > 0 => state[a].price <= state[a].seal
    BY <1>6, StatusesDiffer DEF BidsExplainPrice, Exists
<1>8. state[a].bids > 0 => p >= state[a].price
    BY <1>1, <1>4, <1>6, <1>7 DEF MinBidPrice, AuctionState
<1>9. TakenBy(ViewOf(state[a]), ViewOf(state'[a]), u)
    BY <1>5, <1>6, <1>8 DEF TakenBy, ViewOf
<1> QED BY <1>4, <1>9

(* As long as there is no hash, the row is shown. *)
RowView(a) == IF Live(a) THEN ViewOf(db[a]) ELSE NoView

LEMMA RowsView ==
    ASSUME PromiseInv, PromiseInv', [Next]_vars, NEW a \in Auctions, ~Exists(a)
    PROVE  ViewMoves(a, RowView(a), RowView(a)')
<1>1. ServiceInv /\ Waits(a) /\ RowWaits(a)'
    BY DEF PromiseInv, Waits
<1>2. CASE db'[a] = db[a]
    BY <1>2 DEF ViewMoves, RowView, Live
<1>3. CASE Deleted(a)
    <2>1. RowView(a)' = NoView
        BY <1>3 DEF Deleted, RowView, Live
    <2>2. CASE ~Live(a)
        BY <2>1, <2>2 DEF RowView, ViewMoves
    <2>3. CASE Live(a)
        <3>1. db[a].status \in {Pending, Canceled} /\ db[a].bids = 0
            BY <1>1, <2>3 DEF Live, Waits, NothingElse, RowWaits, Blank, SnapOf
        <3> QED BY <2>1, <2>3, <3>1 DEF RowView, ViewOf, ViewMoves, Withdrawn
    <2> QED BY <2>2, <2>3
<1>4. CASE Created(a) \/ Updated(a)
    <2>1. ~Settled(a) /\ RowView(a).status \in {Absent, Pending}
        <3>1. CASE Created(a)
            BY <3>1 DEF Created, Settled, RowView, ViewOf, NoView, Live, Absent, Pending
        <3>2. CASE Updated(a)
            BY <3>2 DEF Updated, StillPending, Settled, RowView, ViewOf, Live, Absent, Pending
        <3> QED BY <1>4, <3>1, <3>2
    <2>2. db'[a].status = Pending /\ ~db'[a].deleted
        BY <1>4 DEF Created, Updated, StillPending, Live
    <2>3. RowView(a)' = ViewOf(db'[a])
        BY <2>2, StatusesDiffer DEF RowView, Live, ViewOf
    <2>4. IsAfresh(ViewOf(db'[a]), Pending)
        BY <1>1, <2>2 DEF RowWaits, IsAfresh, ViewOf
    <2> QED BY <2>1, <2>3, <2>4 DEF ViewMoves, Announced
<1>5. CASE Saved(a)
    <2>1. PICK snap \in Snapshot : /\ Newer(a, snap) /\ SnapOf(db'[a]) = snap /\ db'[a].deleted = db[a].deleted
                                   /\ Carried(a, snap) \/ CanceledAlone(a, snap)
        BY <1>5 DEF Saved
    <2>2. Blank(snap)
        BY <1>1, <2>1 DEF Waits, NothingElse, CancelIsBlank, CanceledAlone
    <2>3. Live(a) /\ db[a].status = Pending
        <3>1. Live(a) /\ db[a].version < 1
            BY <2>1, <2>2 DEF Newer, Blank
        <3>2. ~Blank(SnapOf(db[a]))
            BY <3>1 DEF Blank, SnapOf
        <3> QED BY <1>1, <3>1, <3>2 DEF Live, Waits, NothingElse
    <2>4. ~Settled(a) /\ RowView(a).status = Pending
        BY <2>3, StatusesDiffer DEF Settled, Live, RowView, ViewOf
    <2>5. Blank(SnapOf(db'[a])) /\ ~db'[a].deleted
        BY <2>1, <2>2, <2>3 DEF Live
    <2>6. Blank(db'[a])
        BY <2>5 DEF Blank, SnapOf
    <2>7. RowView(a)' = ViewOf(db'[a])
        BY <2>5, <2>6, StatusesDiffer DEF RowView, Live, Blank, ViewOf
    <2>8. IsAfresh(ViewOf(db'[a]), Canceled)
        BY <2>6 DEF Blank, IsAfresh, ViewOf
    <2> QED BY <2>4, <2>7, <2>8 DEF ViewMoves, CancelledWaiting
<1> QED BY <1>1, <1>2, <1>3, <1>4, <1>5, ServiceRowSteps DEF RowMoves

(* The hash is shown when there is one, and the row otherwise. *)
LEMMA ShownIs ==
    ASSUME NEW a \in Auctions
    PROVE  /\ Exists(a) => Shown(a) = ViewOf(state[a])
           /\ ~Exists(a) => Shown(a) = RowView(a)
BY DEF Shown, RowView, ViewOf, NoView, Exists, Live

(* Whatever is shown of an auction moves as the promise says. *)
LEMMA ShownMoves ==
    ASSUME PromiseInv, PromiseInv', BidsExplainPrice, IncrementIsPositive, [Next]_vars, NEW a \in Auctions
    PROVE  ViewMoves(a, Shown(a), Shown(a)')
<1>0. ServiceInv
    BY DEF PromiseInv
<1>1. /\ Exists(a)' => Shown(a)' = ViewOf(state'[a])
      /\ ~Exists(a)' => Shown(a)' = RowView(a)'
    BY DEF Shown, RowView, ViewOf, NoView, Exists, Live
<1>2. CASE state'[a] = state[a] /\ Exists(a)
    BY <1>1, <1>2, ShownIs DEF ViewMoves, Exists
<1>3. CASE state'[a] = state[a] /\ ~Exists(a)
    BY <1>1, <1>3, RowsView, ShownIs DEF Exists
<1>4. CASE HashGrows(a)
    <2>1. Exists(a) /\ Exists(a)'
        BY <1>4, StatusesDiffer DEF HashGrows, IsRunning, Exists
    <2>2. Shown(a) = ViewOf(state[a]) /\ Shown(a)' = ViewOf(state'[a])
        BY <1>1, <2>1, ShownIs
    <2>3. CASE HashCloses(a)
        BY <1>0, <2>2, <2>3, CloseEnds DEF ViewMoves
    <2>4. CASE HashTakesBid(a)
        BY <1>0, <2>2, <2>4, BidTakes DEF ViewMoves
    <2> QED BY <1>4, <2>3, <2>4 DEF HashGrows
<1>5. ASSUME NEW m \in Merchants, merchant[m].auction = a, Loaded(m)
      PROVE  ViewMoves(a, Shown(a), Shown(a)')
    <2> DEFINE rule == WithEnd(merchant[m].rule, clock)
    <2>1. rule.startPrice = merchant[m].rule.startPrice /\ rule.startPrice > 0
        <3>1. merchant[m].rule \in RuleType
            BY <1>0, <1>5, MerchantHolds DEF Loaded, RuleWork
        <3> QED BY <3>1 DEF WithEnd, RuleType
    <2>2. state'[a] = LoadedState(rule, clock)
        BY <1>0, <1>5 DEF Loaded, LoadAuction, ServiceInv, RedisTypeOK
    <2> HIDE DEF rule
    <2>3. /\ state'[a].status = Running /\ state'[a].price = rule.startPrice
          /\ state'[a].bids = 0 /\ state'[a].winner = NoUser
        BY <2>2 DEF LoadedState
    <2>4. Exists(a)'
        BY <2>3, StatusesDiffer DEF Exists
    <2>5. Opened(Shown(a)')
        BY <1>1, <2>1, <2>3, <2>4 DEF Opened, IsAfresh, ViewOf
    <2>6. ~Settled(a)
        BY <1>5 DEF Settled, Starting, Loaded
    <2> QED BY <2>5, <2>6 DEF ViewMoves
<1> QED BY <1>0, <1>2, <1>3, <1>4, <1>5, ServiceHashSteps

(* And no step shows two of them move. *)
LEMMA ShownAlone ==
    ASSUME ServiceInv, [Next]_vars
    PROVE  \/ \A c \in Auctions : Shown(c)' = Shown(c)
           \/ \E a \in Auctions : \A c \in Auctions : c # a => Shown(c)' = Shown(c)
<1>1. CASE UNCHANGED <<state, db>>
    BY <1>1 DEF Shown, Exists, Live
<1>2. CASE ~UNCHANGED <<state, db>>
    BY <1>2, StepIsAlone DEF Alone, Shown, Exists, Live
<1> QED BY <1>1, <1>2

(* One auction that moves is a step of the promise. *)
LEMMA PromiseSteps ==
    ASSUME PromiseInv, PromiseInv', BidsExplainPrice, IncrementIsPositive, [Next]_vars
    PROVE  Promise!Next
<1> DEFINE shown == [a \in Auctions |-> Shown(a)]
           settled == {a \in Auctions : Settled(a)}
<1>0. ServiceInv
    BY DEF PromiseInv
<1>1. settled \subseteq settled'
    BY <1>0, SettledStep
<1>2. CASE \A c \in Auctions : Shown(c)' = Shown(c)
    <2>1. shown' = shown
        BY <1>2
    <2> QED BY <1>1, <2>1 DEF Promise!Next
<1>3. ASSUME NEW a \in Auctions, \A c \in Auctions : c # a => Shown(c)' = Shown(c)
      PROVE  Promise!Next
    <2>1. ASSUME NEW next, Shown(a)' = next
          PROVE  Promise!Becomes(a, next)
        BY <1>3, <2>1 DEF Promise!Becomes
    <2>2. ViewMoves(a, Shown(a), Shown(a)')
        BY ShownMoves
    <2>3. CASE Shown(a)' = Shown(a)
        BY <1>2, <1>3, <2>3
    <2>4. ASSUME NEW status, ~Settled(a), IsAfresh(Shown(a)', status)
          PROVE  Promise!Afresh(a, status)
        BY <2>1, <2>4 DEF Promise!Afresh, IsAfresh
    <2>5. ASSUME ~Settled(a) /\ Announced(Shown(a), Shown(a)')
          PROVE  Promise!Changes(a)
        BY <2>4, <2>5 DEF Promise!Changes, Promise!Announce, Announced, Absent, Pending
    <2>6. ASSUME ~Settled(a) /\ Opened(Shown(a)')
          PROVE  Promise!Changes(a)
        BY <2>4, <2>6 DEF Promise!Changes, Promise!Open, Opened, Running
    <2>7. ASSUME ~Settled(a) /\ CancelledWaiting(Shown(a), Shown(a)')
          PROVE  Promise!Changes(a)
        BY <2>4, <2>7 DEF Promise!Changes, Promise!CancelWaiting, CancelledWaiting, Pending, Canceled
    <2>8. ASSUME Withdrawn(Shown(a), Shown(a)')
          PROVE  Promise!Changes(a)
        BY <2>1, <2>8 DEF Promise!Changes, Promise!Withdraw, Promise!Unknown, Withdrawn, NoView, Absent, Pending, Canceled
    <2>9. ASSUME NEW u \in Users, TakenBy(Shown(a), Shown(a)', u)
          PROVE  Promise!Changes(a)
        <3>1. Promise!Bid(a, u)
            BY <2>1, <2>9 DEF Promise!Bid, TakenBy, Running
        <3> QED BY <3>1 DEF Promise!Changes
    <2>10. ASSUME Ended(Shown(a), Shown(a)')
          PROVE  Promise!Changes(a)
        BY <2>1, <2>10 DEF Promise!Changes, Promise!Finish, Ended, Running, Failed, Deal
    <2>11. ASSUME CalledOff(Shown(a), Shown(a)')
          PROVE  Promise!Changes(a)
        BY <2>1, <2>11 DEF Promise!Changes, Promise!Cancel, CalledOff, Running, Canceled
    <2>12. Shown(a)' = Shown(a) \/ Promise!Changes(a)
        BY <2>2, <2>5, <2>6, <2>7, <2>8, <2>9, <2>10, <2>11 DEF ViewMoves, ViewCloses
    <2> QED BY <1>1, <2>3, <2>12 DEF Promise!Next
<1> QED BY <1>0, <1>2, <1>3, ShownAlone

(* At first every auction is shown as unknown. *)
LEMMA PromiseStarts ==
    ASSUME Init
    PROVE  PromiseInv /\ Promise!Init
<1>1. ASSUME NEW a \in Auctions
      PROVE  Waits(a) /\ Shown(a) = Promise!Unknown /\ ~Settled(a)
    <2>1. ~Exists(a) /\ db[a].status = Absent
        BY DEF Init, RedisInit, EmptyState, Exists, NoRow
    <2>2. Shown(a) = Promise!Unknown
        BY <2>1 DEF Shown, Exists, Live, Promise!Unknown, Absent
    <2>3. ASSUME NEW snap PROVE ~Carried(a, snap)
        BY DEF Init, Idle, Carried, MerchantCarries, BidderCarries, TopicCarries, ConsumerCarries, ScannerCarries, At
    <2>4. ASSUME NEW m \in Merchants PROVE merchant[m].pc = "idle"
        BY DEF Init, Idle
    <2>5. Waits(a)
        BY <2>1, <2>3, <2>4, StatusesDiffer DEF Waits, RowWaits, CancelIsBlank, NothingElse, At
    <2> QED BY <2>1, <2>2, <2>5, StatusesDiffer DEF Settled
<1>2. Promise!Init
    BY <1>1 DEF Promise!Init
<1> QED BY <1>1, <1>2, ServiceStarts DEF PromiseInv

(* What merchants and bidders are shown of every auction moves as the promise *)
(* allows: announced or opened afresh until it is settled; then bid on by     *)
(* changing leaders at prices that never fall below a bid, and closed once    *)
(* and for good, or withdrawn unopened.  It comes from the row until          *)
(* StartAuction loads it and from Redis ever after, so this rests on what may *)
(* be under way to a row that has no hash.  It is about any number of         *)
(* merchants, every failure and every request.                                *)
THEOREM PromiseIsKept ==
    ASSUME AnyArguments
    PROVE  Spec => KeepsPromise
<1>1. Init => PromiseInv /\ Promise!Init
    BY PromiseStarts
<1>2. PromiseInv /\ [Next]_vars => PromiseInv'
    BY PromiseInvSteps
<1>3. PromiseInv /\ PromiseInv' /\ BidsExplainPrice /\ IncrementIsPositive /\ [Next]_vars => Promise!Next
    BY PromiseSteps
<1>4. Spec => []BidsExplainPrice
    BY ServiceUsesScripts, PricesAreExplained, PTL
<1>5. Spec => []IncrementIsPositive
    BY ServiceUsesScripts, IncrementsArePositive, PTL
<1> QED BY <1>1, <1>2, <1>3, <1>4, <1>5, PTL DEF Spec, KeepsPromise, Promise!Spec
=============================================================================
