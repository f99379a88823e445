--------------------------- MODULE AuctionService ---------------------------
(* auction-service: the gRPC handlers of merchants and bidders, the RocketMQ  *)
(* consumer and the expire scanner, around three stores that fail one by one: *)
(* Redis (RedisState), the MySQL row with its bid records, and the topic.     *)
(* Each call to a store is a step of its own; everybody else moves between    *)
(* two of them.                                                               *)
EXTENDS RedisState, FiniteSets

CONSTANTS
    Merchants,     \* merchant requests served at the same time
    Bidders,       \* bid requests served at the same time
    Scanners,      \* service instances, each with one scanner
    GoodsOf,       \* goods_id of an auction
    Updates,       \* what an UpdateAuction request may set: partial rules
    BidIdAsDouble,  \* what is left of a bid record id as a double: a Lua number
                    \* in the script, a float64 where JSON decodes an event
    UserIdAsDouble, \* the same of a user id
    DefaultRun,    \* 24h: how long an auction without an end time runs
    Delay,         \* the broker's delay level for expire checks
    BatchSize,     \* expire_scanner.batch_size
    MaxReconsume,  \* rocketmq.max_reconsume_times
    MaxTime,       \* bound: the clock stops here
    Faults,        \* the kinds of failure that may happen
    MaxFaults      \* bound: failures in one run

FaultKinds ==
    {"start",     \* StartAuction stops between its Redis load and its row update
     "merchant",  \* a merchant's handler stops elsewhere
     "bidder",    \* a bid handler stops after its script
     "consumer", "scanner",  \* they stop and start over
     "mq",        \* a send fails
     "db"}        \* a row update fails

(* The rules a Pending row has after a request, whatever fields that sets.    *)
Merged(rule, request) ==
    [field \in DOMAIN rule |-> IF field \in DOMAIN request THEN request[field] ELSE rule[field]]

ASSUME ServiceAssumption ==
    /\ Faults \subseteq FaultKinds
    /\ MaxTime \in Nat /\ MaxFaults \in Nat /\ MaxReconsume \in Nat
    /\ DefaultRun \in Nat /\ Delay \in Nat /\ BatchSize \in Nat \ {0}
    /\ \A rule \in Rules, request \in Updates : Merged(rule, request) \in RuleType
    /\ \A u \in Users : UserIdAsDouble[u] \in Users

VARIABLES
    db,        \* the auction table: one row per auction, status Absent when none
    records,   \* the bid_record table
    msgs,      \* the topic: events sent and not yet acknowledged
    merchant, bidder, consumer, scanner,  \* what each request or worker is doing
    clock,     \* wall clock of the service
    faults,    \* failures so far
    accepted,  \* the bids bidders were told are accepted
    lost       \* history: those of them a later StartAuction wiped

workers == <<merchant, bidder, consumer, scanner>>
vars == <<redisVars, db, records, msgs, workers, clock, faults, accepted, lost>>

Idle == [pc |-> "idle"]

(* The columns UpdateStatusSnapshot writes, and what an event carries. *)
Snapshot == [status: {Running, Canceled} \cup Final, price: Nat, bids: Nat,
             winner: Users \cup {NoUser}, version: Nat]

SnapOf(s) == [status |-> s.status, price |-> s.price, bids |-> s.bids,
              winner |-> s.winner, version |-> s.version]

(* A row: the snapshot columns, the rules and the is_delete flag. *)
NoRow == [status |-> Absent, price |-> 0, bids |-> 0, winner |-> NoUser, version |-> 0,
          rule |-> [startPrice |-> 1, incr |-> 1, seal |-> 0, end |-> 0], deleted |-> FALSE]

Live(a) == db[a].status # Absent /\ ~db[a].deleted

Init ==
    /\ RedisInit
    /\ db = [a \in Auctions |-> NoRow]
    /\ records = {} /\ msgs = {} /\ accepted = {} /\ lost = {}
    /\ merchant = [m \in Merchants |-> Idle]
    /\ bidder = [b \in Bidders |-> Idle]
    /\ scanner = [s \in Scanners |-> Idle]
    /\ consumer = Idle
    /\ clock = 0 /\ faults = 0

-----------------------------------------------------------------------------
(* Shared pieces. *)

Fault(kind) ==
    /\ kind \in Faults /\ faults < MaxFaults
    /\ faults' = faults + 1

(* Mutant of Newer: only the very next version is applied. *)
NewerByOne(a, snap) == Live(a) /\ db[a].version + 1 = snap.version

(* Mutant of Newer: the version guard is missing. *)
NewerUnguarded(a, snap) == Live(a) /\ snap.version >= 0

(* The WHERE clause of UpdateStatusSnapshot. *)
Newer(a, snap) == Live(a) /\ db[a].version < snap.version

(* UpdateStatusSnapshot; when no row matches the caller sees "outdated". *)
SaveSnapshot(a, snap) ==
    db' = IF Newer(a, snap)
          THEN [db EXCEPT ![a] = [@ EXCEPT !.status = snap.status, !.price = snap.price,
                    !.bids = snap.bids, !.winner = snap.winner, !.version = snap.version]]
          ELSE db

SnapshotEvent(a, snap) == [kind |-> "snapshot", auction |-> a, snap |-> snap, tries |-> 0]

BidEvent(a, snap, id, user) ==
    [kind |-> "bid", auction |-> a, snap |-> snap, id |-> id, user |-> user, tries |-> 0]

ExpireCheck(a, snap, expire) ==
    [kind |-> "expire", auction |-> a, version |-> snap.version, expire |-> expire,
     due |-> clock + Delay, tries |-> 0]

Send(event) == msgs' = msgs \cup {event} /\ UNCHANGED faults
SendFails == Fault("mq") /\ UNCHANGED msgs

Tick ==
    /\ clock < MaxTime
    /\ clock' = clock + 1
    /\ UNCHANGED <<redisVars, db, records, msgs, workers, faults, accepted, lost>>

-----------------------------------------------------------------------------
(* Requests of merchants.  A request that fails its checks changes nothing    *)
(* and is no step; one that fails half-way returns to Idle.                   *)

MerchantGoes(m, work) ==
    merchant' = [merchant EXCEPT ![m] = work] /\ UNCHANGED <<bidder, consumer, scanner>>

(* CreateAuction, once goods-service and live-service confirmed the owner.    *)
(* uk_goods_id also counts deleted rows.                                      *)
CreateAuction(m, a, rule) ==
    /\ merchant[m] = Idle /\ db[a].status = Absent
    /\ rule.seal > 0 => rule.seal >= rule.startPrice
    /\ \A other \in Auctions : db[other].status # Absent => GoodsOf[other] # GoodsOf[a]
    /\ db' = [db EXCEPT ![a] = [NoRow EXCEPT !.status = Pending, !.rule = rule,
                                             !.price = rule.startPrice]]
    /\ UNCHANGED <<redisVars, records, msgs, workers, clock, faults, accepted, lost>>

(* UpdateAuction reads the row, merges the request into what it read ...      *)
UpdateRead(m, a) ==
    /\ merchant[m] = Idle /\ Live(a) /\ db[a].status = Pending
    /\ MerchantGoes(m, [pc |-> "update", auction |-> a, rule |-> db[a].rule])
    /\ UNCHANGED <<redisVars, db, records, msgs, clock, faults, accepted, lost>>

(* ... and checks the seal price only when the request carries one.           *)
UpdateIsValid(rule, request) ==
    "seal" \in DOMAIN request => request.seal >= Merged(rule, request).startPrice

(* Mutant of StillPending: the status is only checked on the row read before. *)
StillPendingUnchecked(a) == Live(a)

StillPending(a) == Live(a) /\ db[a].status = Pending

(* ... UpdatePendingConfig writes all rule columns of a row still Pending.    *)
UpdateSave(m, request) ==
    LET work == merchant[m] IN
    /\ work.pc = "update"
    /\ db' = IF UpdateIsValid(work.rule, request) /\ StillPending(work.auction)
             THEN [db EXCEPT ![work.auction].rule = Merged(work.rule, request),
                             ![work.auction].price = Merged(work.rule, request).startPrice]
             ELSE db
    /\ MerchantGoes(m, Idle)
    /\ UNCHANGED <<redisVars, records, msgs, clock, faults, accepted, lost>>

DeleteAuction(m, a) ==
    /\ merchant[m] = Idle /\ Live(a) /\ db[a].status \in {Pending, Failed, Canceled}
    /\ db' = [db EXCEPT ![a].deleted = TRUE]
    /\ UNCHANGED <<redisVars, records, msgs, workers, clock, faults, accepted, lost>>

(* StartAuction: read the row, look for another running row of the room,      *)
(* load Redis, save the row, publish.                                         *)
StartRead(m, a) ==
    /\ merchant[m] = Idle /\ StillPending(a)
    /\ MerchantGoes(m, [pc |-> "start_check", auction |-> a, rule |-> db[a].rule])
    /\ UNCHANGED <<redisVars, db, records, msgs, clock, faults, accepted, lost>>


RunningRows(room) == {a \in Auctions : Live(a) /\ db[a].status = Running /\ RoomOf[a] = room}

(* FindCurrentByRoomID returns one running row, the newest; ties are open.    *)
StartCheck(m) ==
    LET work == merchant[m]
        running == RunningRows(RoomOf[work.auction])
    IN
    /\ work.pc = "start_check"
    /\ \/ /\ running = {} \/ work.auction \in running
          /\ MerchantGoes(m, [work EXCEPT !.pc = "start_load"])
       \/ /\ \E other \in running : other # work.auction
          /\ MerchantGoes(m, Idle)
    /\ UNCHANGED <<redisVars, db, records, msgs, clock, faults, accepted, lost>>

(* The hash starts at version 1: a Pending row has version 0, and StartAuction *)
(* raised it.                                                                 *)
WithEnd(rule, now) == [rule EXCEPT !.end = IF @ = 0 THEN now + DefaultRun ELSE @]

StartLoad(m) ==
    LET work == merchant[m]
        a == work.auction
    IN
    /\ work.pc = "start_load"
    /\ \/ /\ LoadAuction(a, WithEnd(work.rule, clock), clock)
          /\ lost' = lost \cup {b \in accepted : b.auction = a}
          /\ MerchantGoes(m, [pc |-> "start_save", auction |-> a, snap |-> SnapOf(state'[a])])
       \/ ~RoomIsFree(a) /\ MerchantGoes(m, Idle) /\ UNCHANGED <<redisVars, lost>>
    /\ UNCHANGED <<db, records, msgs, clock, faults, accepted>>

(* An outdated snapshot is ignored here; a failed update, or a handler that   *)
(* stops, ends the request with Redis loaded.                                 *)
StartSave(m) ==
    LET work == merchant[m] IN
    /\ work.pc = "start_save"
    /\ \/ SaveSnapshot(work.auction, work.snap) /\ UNCHANGED faults
          /\ MerchantGoes(m, [work EXCEPT !.pc = "publish_last"])
       \/ Fault("start") /\ UNCHANGED db /\ MerchantGoes(m, Idle)
    /\ UNCHANGED <<redisVars, records, msgs, clock, accepted, lost>>

(* h.publish drops the error of a send. *)
PublishLast(m) ==
    LET work == merchant[m] IN
    /\ work.pc = "publish_last"
    /\ Send(SnapshotEvent(work.auction, work.snap)) \/ SendFails
    /\ MerchantGoes(m, Idle)
    /\ UNCHANGED <<redisVars, db, records, clock, accepted, lost>>

CancelsRowAlone(row) == row.status = Pending

(* CancelAuction: a row read as Pending is cancelled in the database alone,   *)
(* any other through Redis.                                                   *)
CancelRead(m, a) ==
    LET row == db[a] IN
    /\ merchant[m] = Idle /\ Live(a)
    /\ MerchantGoes(m,
         IF CancelsRowAlone(row)
         THEN [pc |-> "cancel_save", auction |-> a,
               snap |-> [status |-> Canceled, price |-> row.price, bids |-> row.bids,
                         winner |-> row.winner, version |-> row.version + 1]]
         ELSE [pc |-> "cancel_script", auction |-> a])
    /\ UNCHANGED <<redisVars, db, records, msgs, clock, faults, accepted, lost>>

CancelSave(m) ==
    LET work == merchant[m] IN
    /\ work.pc = "cancel_save"
    /\ \/ /\ SaveSnapshot(work.auction, work.snap)
          /\ MerchantGoes(m, IF Newer(work.auction, work.snap)
                             THEN [work EXCEPT !.pc = "publish_last"] ELSE Idle)
          /\ UNCHANGED faults
       \/ Fault("db") /\ UNCHANGED db /\ MerchantGoes(m, Idle)
    /\ UNCHANGED <<redisVars, records, msgs, clock, accepted, lost>>

FinishRead(m, a) ==
    /\ merchant[m] = Idle /\ Live(a)
    /\ MerchantGoes(m, [pc |-> "finish_script", auction |-> a])
    /\ UNCHANGED <<redisVars, db, records, msgs, clock, faults, accepted, lost>>

(* FinishAuction and CancelAuction in Redis, then the event, then the row;    *)
(* a script that refuses ends the request.                                    *)
CloseScript(m) ==
    LET work == merchant[m]
        a == work.auction
        closes == \/ work.pc = "finish_script" /\ FinishAuction(a, clock)
                  \/ work.pc = "cancel_script" /\ CancelAuction(a, clock)
    IN
    /\ \/ closes /\ MerchantGoes(m, [pc |-> "publish_final", auction |-> a, snap |-> SnapOf(state'[a])])
       \/ /\ work.pc \in {"finish_script", "cancel_script"} /\ ~IsRunning(a)
          /\ MerchantGoes(m, Idle) /\ UNCHANGED redisVars
    /\ UNCHANGED <<db, records, msgs, clock, faults, accepted, lost>>

PublishFinal(m) ==
    LET work == merchant[m] IN
    /\ work.pc = "publish_final"
    /\ Send(SnapshotEvent(work.auction, work.snap)) \/ SendFails
    /\ MerchantGoes(m, [work EXCEPT !.pc = "save_final"])
    /\ UNCHANGED <<redisVars, db, records, clock, accepted, lost>>

SaveFinal(m) ==
    LET work == merchant[m] IN
    /\ work.pc = "save_final"
    /\ \/ SaveSnapshot(work.auction, work.snap) /\ UNCHANGED faults
       \/ Fault("db") /\ UNCHANGED db
    /\ MerchantGoes(m, Idle)
    /\ UNCHANGED <<redisVars, records, msgs, clock, accepted, lost>>

MerchantStops(m) ==
    /\ merchant[m].pc \notin {"idle", "start_save"}
    /\ Fault("merchant") /\ MerchantGoes(m, Idle)
    /\ UNCHANGED <<redisVars, db, records, msgs, clock, accepted, lost>>

MerchantAsks(m) ==
    \E a \in Auctions :
        \/ \E rule \in Rules : CreateAuction(m, a, rule)
        \/ UpdateRead(m, a) \/ DeleteAuction(m, a)
        \/ StartRead(m, a) \/ CancelRead(m, a) \/ FinishRead(m, a)

MerchantWorks(m) ==
    \/ \E request \in Updates : UpdateSave(m, request)
    \/ StartCheck(m) \/ StartLoad(m) \/ StartSave(m) \/ PublishLast(m)
    \/ CancelSave(m) \/ CloseScript(m) \/ PublishFinal(m) \/ SaveFinal(m)

-----------------------------------------------------------------------------
(* PlaceBid: the script, then the record, two events and the row, in order;   *)
(* every error after the script is dropped.                                   *)

BidderGoes(b, work) ==
    bidder' = [bidder EXCEPT ![b] = work] /\ UNCHANGED <<merchant, consumer, scanner>>

(* A bid as its bidder knows it, and a row of bid_record. *)
BidRecord(a, id, u, p) == [id |-> id, auction |-> a, user |-> u, price |-> p]

(* The handler reads its clock before it calls Redis; who bids what under    *)
(* which request id matters at the script, and is chosen there.               *)
BidArrives(b, a) ==
    /\ bidder[b] = Idle /\ db[a].status # Absent
    /\ BidderGoes(b, [pc |-> "script", auction |-> a, now |-> clock])
    /\ UNCHANGED <<redisVars, db, records, msgs, clock, faults, accepted, lost>>

(* The script's numbers are doubles: the leader it stores and the record id it *)
(* hands back are those, while the handler still knows its user.              *)
BidIsAccepted(b, u, p, req) ==
    LET work == bidder[b]
        a == work.auction
        id == Cardinality(accepted) + 1
    IN
    /\ work.pc = "script"
    /\ AcceptBid(a, RoomOf[a], UserIdAsDouble[u], p, req, work.now)
    /\ accepted' = accepted \cup {BidRecord(a, id, u, p)}
    /\ BidderGoes(b, [pc |-> "record", auction |-> a, id |-> BidIdAsDouble[id], user |-> u,
                      snap |-> SnapOf(state'[a]), expire |-> state'[a].expire])
    /\ UNCHANGED <<db, records, msgs, clock, faults, lost>>

(* Refused by a check after the SET NX, or by one before it. *)
BidIsRefused(b, u, p, req) ==
    LET work == bidder[b]
        a == work.auction
    IN
    /\ work.pc = "script"
    /\ \/ RejectBid(a, RoomOf[a], UserIdAsDouble[u], p, req, work.now)
       \/ ~RequestIsNew(a, RoomOf[a], req) /\ UNCHANGED redisVars
    /\ BidderGoes(b, Idle)
    /\ UNCHANGED <<db, records, msgs, clock, faults, accepted, lost>>

(* Mutant of HasRecord: the record is taken to be there. *)
HasRecordAssumed(id) == id > 0

HasRecord(id) == \E r \in records : r.id = id

(* bids.Create; a primary key that is taken fails and is dropped too. *)
BidRecorded(b) ==
    LET work == bidder[b] IN
    /\ work.pc = "record"
    /\ \/ /\ records' = IF HasRecord(work.id) THEN records
                        ELSE records \cup {BidRecord(work.auction, work.id, work.user, work.snap.price)}
          /\ UNCHANGED faults
       \/ Fault("db") /\ UNCHANGED records
    /\ BidderGoes(b, [work EXCEPT !.pc = "publish"])
    /\ UNCHANGED <<redisVars, db, msgs, clock, accepted, lost>>

BidPublished(b) ==
    LET work == bidder[b] IN
    /\ work.pc = "publish"
    /\ Send(BidEvent(work.auction, work.snap, work.id, work.user)) \/ SendFails
    /\ BidderGoes(b, [work EXCEPT !.pc = "publish_delay"])
    /\ UNCHANGED <<redisVars, db, records, clock, accepted, lost>>

ExpireCheckPublished(b) ==
    LET work == bidder[b] IN
    /\ work.pc = "publish_delay"
    /\ Send(ExpireCheck(work.auction, work.snap, work.expire)) \/ SendFails
    /\ BidderGoes(b, [work EXCEPT !.pc = "save"])
    /\ UNCHANGED <<redisVars, db, records, clock, accepted, lost>>

BidSaved(b) ==
    LET work == bidder[b] IN
    /\ work.pc = "save"
    /\ \/ SaveSnapshot(work.auction, work.snap) /\ UNCHANGED faults
       \/ Fault("db") /\ UNCHANGED db
    /\ BidderGoes(b, Idle)
    /\ UNCHANGED <<redisVars, records, msgs, clock, accepted, lost>>

BidderStops(b) ==
    /\ bidder[b].pc # "idle"
    /\ Fault("bidder") /\ BidderGoes(b, Idle)
    /\ UNCHANGED <<redisVars, db, records, msgs, clock, accepted, lost>>

BidderAsks(b) == \E a \in Auctions : BidArrives(b, a)

BidderWorks(b) ==
    \/ \E u \in Users, p \in Prices, req \in Requests :
          BidIsAccepted(b, u, p, req) \/ BidIsRefused(b, u, p, req)
    \/ BidRecorded(b) \/ BidPublished(b) \/ ExpireCheckPublished(b) \/ BidSaved(b)

-----------------------------------------------------------------------------
(* The consumer: one goroutine.  A message leaves the topic when it is        *)
(* acknowledged, so one in hand when the consumer stops is delivered again.   *)
(* Sends of concurrent handlers and redeliveries arrive in any order.         *)

ConsumerGoes(work) == consumer' = work /\ UNCHANGED <<merchant, bidder, scanner>>

Ack(msg) == msgs' = msgs \ {msg} /\ ConsumerGoes(Idle)

(* ConsumeRetryLater, until maxReconsumeTimes: then the message is dropped. *)
Retry(msg) ==
    /\ msgs' = (msgs \ {msg}) \cup
               (IF msg.tries >= MaxReconsume THEN {} ELSE {[msg EXCEPT !.tries = @ + 1]})
    /\ ConsumerGoes(Idle)

Receive ==
    /\ consumer = Idle
    /\ \E msg \in msgs :
        /\ msg.kind = "expire" => msg.due <= clock
        /\ ConsumerGoes(
             CASE msg.kind = "bid" -> [pc |-> "record", msg |-> msg]
               [] msg.kind = "snapshot" -> [pc |-> "save", msg |-> msg, snap |-> msg.snap]
               [] msg.kind = "expire" -> [pc |-> "finish", msg |-> msg])
    /\ UNCHANGED <<redisVars, db, records, msgs, clock, faults, accepted, lost>>

(* Mutant of RecordFromEvent: the consumer gives the record an id of its own. *)
RecordFromEventNewId(msg) ==
    BidRecord(msg.auction, msg.id + 1, UserIdAsDouble[msg.user], msg.snap.price)

(* The record the event describes: its id and the leader in its snapshot went  *)
(* through the script and are doubles already, its user was not.               *)
RecordFromEvent(msg) ==
    BidRecord(msg.auction, msg.id, UserIdAsDouble[msg.user], msg.snap.price)

(* CreateIfNotExists: a taken primary key acknowledges the whole message and  *)
(* leaves the row alone.                                                      *)
ConsumerRecords ==
    LET msg == consumer.msg IN
    /\ consumer.pc = "record"
    /\ \/ /\ HasRecord(msg.id) /\ Ack(msg) /\ UNCHANGED <<records, faults>>
       \/ /\ ~HasRecord(msg.id)
          /\ records' = records \cup {RecordFromEvent(msg)}
          /\ ConsumerGoes([pc |-> "save", msg |-> msg, snap |-> msg.snap])
          /\ UNCHANGED <<msgs, faults>>
       \/ Fault("db") /\ Retry(msg) /\ UNCHANGED records
    /\ UNCHANGED <<redisVars, db, clock, accepted, lost>>

ConsumerSaves ==
    /\ consumer.pc = "save"
    /\ \/ SaveSnapshot(consumer.msg.auction, consumer.snap) /\ Ack(consumer.msg) /\ UNCHANGED faults
       \/ Fault("db") /\ Retry(consumer.msg) /\ UNCHANGED db
    /\ UNCHANGED <<redisVars, records, clock, accepted, lost>>

(* applyExpireCheck: the script finishes the auction, or the state is read    *)
(* again to see whether somebody else did.                                    *)
ConsumerFinishes ==
    LET msg == consumer.msg
        a == msg.auction
    IN
    /\ consumer.pc = "finish"
    /\ \/ /\ FinishExpiredAuction(a, msg.version, msg.expire, clock)
          /\ ConsumerGoes([pc |-> "publish", msg |-> msg, snap |-> SnapOf(state'[a])])
       \/ /\ ~StillExpired(a, msg.version, msg.expire, clock)
          /\ ConsumerGoes([pc |-> "reread", msg |-> msg]) /\ UNCHANGED redisVars
    /\ UNCHANGED <<db, records, msgs, clock, faults, accepted, lost>>

ConsumerRereads ==
    LET msg == consumer.msg IN
    /\ consumer.pc = "reread"
    /\ IF state[msg.auction].status \in {Deal, Failed}
       THEN ConsumerGoes([pc |-> "publish", msg |-> msg, snap |-> SnapOf(state[msg.auction])])
            /\ UNCHANGED msgs
       ELSE Ack(msg)
    /\ UNCHANGED <<redisVars, db, records, clock, faults, accepted, lost>>

(* publishAndSnapshotFinalState: a send that fails leaves the row unsaved. *)
ConsumerPublishes ==
    LET msg == consumer.msg IN
    /\ consumer.pc = "publish"
    /\ \/ Send(SnapshotEvent(msg.auction, consumer.snap)) /\ ConsumerGoes([consumer EXCEPT !.pc = "save"])
       \/ Fault("mq") /\ Retry(msg)
    /\ UNCHANGED <<redisVars, db, records, clock, accepted, lost>>

ConsumerStops ==
    /\ consumer # Idle
    /\ Fault("consumer") /\ ConsumerGoes(Idle)
    /\ UNCHANGED <<redisVars, db, records, msgs, clock, accepted, lost>>

ConsumerWorks ==
    \/ ConsumerRecords \/ ConsumerSaves \/ ConsumerFinishes \/ ConsumerRereads \/ ConsumerPublishes

-----------------------------------------------------------------------------
(* The expire scanner: a list of candidates and one clock reading per scan,   *)
(* then for each candidate a read and what the read calls for.                *)

ScannerGoes(s, work) ==
    scanner' = [scanner EXCEPT ![s] = work] /\ UNCHANGED <<merchant, bidder, consumer>>

Candidates(now) == {a \in Auctions : index[a] # NotIndexed /\ index[a] <= now}

(* ZRANGEBYSCORE -inf now LIMIT 0 batch_size: the lowest scores. *)
ScanLists(s) ==
    /\ scanner[s] = Idle
    /\ \E batch \in SUBSET Candidates(clock) :
        /\ batch # {} /\ Cardinality(batch) <= BatchSize
        /\ Cardinality(batch) < BatchSize => batch = Candidates(clock)
        /\ \A a \in batch, other \in Candidates(clock) \ batch : index[a] <= index[other]
        /\ ScannerGoes(s, [pc |-> "read", todo |-> batch, now |-> clock])
    /\ UNCHANGED <<redisVars, db, records, msgs, clock, faults, accepted, lost>>

(* The next candidate, or the end of the scan. *)
ScannerLeaves(s, a) ==
    LET left == scanner[s].todo \ {a} IN
    ScannerGoes(s, IF left = {} THEN Idle ELSE [pc |-> "read", todo |-> left, now |-> scanner[s].now])

(* Mutant of Verdict: a candidate that was bid on since is dropped. *)
VerdictDropsRefreshed(a, now) ==
    IF ~IsRunning(a) \/ state[a].expire > now THEN "remove" ELSE "finish"

(* What a candidate's state calls for, as of one read of it. *)
Verdict(a, now) ==
    IF ~IsRunning(a) THEN "remove" ELSE IF state[a].expire > now THEN "reindex" ELSE "finish"

ScanReads(s) ==
    LET work == scanner[s] IN
    /\ work.pc = "read"
    /\ \E a \in work.todo :
        ScannerGoes(s, [pc |-> Verdict(a, work.now), todo |-> work.todo, now |-> work.now, auction |-> a,
                        version |-> state[a].version, expire |-> state[a].expire])
    /\ UNCHANGED <<redisVars, db, records, msgs, clock, faults, accepted, lost>>

ScanReindexes(s) ==
    LET work == scanner[s] IN
    /\ \/ work.pc = "remove" /\ RemoveRunningAuction(work.auction)
       \/ work.pc = "reindex" /\ IndexRunningAuction(work.auction, work.expire)
    /\ ScannerLeaves(s, work.auction)
    /\ UNCHANGED <<db, records, msgs, clock, faults, accepted, lost>>

ScanFinishes(s) ==
    LET work == scanner[s]
        a == work.auction
    IN
    /\ work.pc = "finish"
    /\ \/ /\ FinishExpiredAuction(a, work.version, work.expire, work.now)
          /\ ScannerGoes(s, [pc |-> "publish", todo |-> work.todo, now |-> work.now, auction |-> a,
                             snap |-> SnapOf(state'[a])])
       \/ /\ ~StillExpired(a, work.version, work.expire, work.now)
          /\ ScannerGoes(s, [work EXCEPT !.pc = "reread"]) /\ UNCHANGED redisVars
    /\ UNCHANGED <<db, records, msgs, clock, faults, accepted, lost>>

(* The script found the candidate changed: index it again or drop it. *)
ScanRereads(s) ==
    LET work == scanner[s]
        a == work.auction
    IN
    /\ work.pc = "reread"
    /\ ScannerGoes(s, [work EXCEPT !.pc = IF IsRunning(a) THEN "reindex" ELSE "remove",
                                   !.expire = state[a].expire])
    /\ UNCHANGED <<redisVars, db, records, msgs, clock, faults, accepted, lost>>

(* publishAndSnapshotFinalState, as the consumer's: nothing retries it here. *)
ScanPublishes(s) ==
    LET work == scanner[s] IN
    /\ work.pc = "publish"
    /\ \/ Send(SnapshotEvent(work.auction, work.snap)) /\ ScannerGoes(s, [work EXCEPT !.pc = "save"])
       \/ SendFails /\ ScannerLeaves(s, work.auction)
    /\ UNCHANGED <<redisVars, db, records, clock, accepted, lost>>

ScanSaves(s) ==
    LET work == scanner[s] IN
    /\ work.pc = "save"
    /\ \/ SaveSnapshot(work.auction, work.snap) /\ UNCHANGED faults
       \/ Fault("db") /\ UNCHANGED db
    /\ ScannerLeaves(s, work.auction)
    /\ UNCHANGED <<redisVars, records, msgs, clock, accepted, lost>>

ScannerStops(s) ==
    /\ scanner[s] # Idle
    /\ Fault("scanner") /\ ScannerGoes(s, Idle)
    /\ UNCHANGED <<redisVars, db, records, msgs, clock, accepted, lost>>

ScannerWorks(s) ==
    \/ ScanLists(s) \/ ScanReads(s) \/ ScanReindexes(s) \/ ScanFinishes(s)
    \/ ScanRereads(s) \/ ScanPublishes(s) \/ ScanSaves(s)

-----------------------------------------------------------------------------
Next ==
    \/ Tick
    \/ \E m \in Merchants : MerchantAsks(m) \/ MerchantWorks(m) \/ MerchantStops(m)
    \/ \E b \in Bidders : BidderAsks(b) \/ BidderWorks(b) \/ BidderStops(b)
    \/ Receive \/ ConsumerWorks \/ ConsumerStops
    \/ \E s \in Scanners : ScannerWorks(s) \/ ScannerStops(s)

Spec == Init /\ [][Next]_vars

(* Requests that were accepted run on, workers never rest while there is work, *)
(* and time passes; nobody has to ask anything.                                *)
Fairness ==
    /\ WF_vars(Tick)
    /\ \A m \in Merchants : WF_vars(MerchantWorks(m))
    /\ \A b \in Bidders : WF_vars(BidderWorks(b))
    /\ WF_vars(Receive) /\ WF_vars(ConsumerWorks)
    /\ \A s \in Scanners : WF_vars(ScannerWorks(s))

FairSpec == Spec /\ Fairness

-----------------------------------------------------------------------------
(* Properties of the service.                                                 *)

Row == [status: {Absent, Pending, Running} \cup Final, price: Nat, bids: Nat,
        winner: Users \cup {NoUser}, version: Nat, rule: RuleType, deleted: BOOLEAN]

TypeOK ==
    /\ RedisTypeOK
    /\ db \in [Auctions -> Row]
    /\ \A r \in records : r.auction \in Auctions /\ r.price \in Nat
    /\ clock \in 0..MaxTime /\ faults \in 0..MaxFaults

(* Snapshots travel on many paths: handler, event, redelivered event, consumer *)
(* and scanner.  Wherever the row is, it never is ahead of Redis, and at equal *)
(* versions it shows exactly what Redis holds.                                 *)
RowMirrorsRedis ==
    \A a \in Auctions : Exists(a) =>
        /\ db[a].version <= state[a].version
        /\ db[a].version = state[a].version =>
              \A f \in {"status", "price", "bids", "winner"} : db[a][f] = state[a][f]

(* Only StartAuction loses a bid whose bidder was told "accepted": of the      *)
(* others the hash counts each one, whatever rows, events and closings do      *)
(* meanwhile, and its price is at least the highest of them.                   *)
AcceptedBidsCount ==
    \A a \in Auctions :
        LET mine == {b \in accepted \ lost : b.auction = a} IN
        /\ state[a].bids = Cardinality(mine)
        /\ \A b \in mine : b.price <= state[a].price

(* Every audit record is a bid that was accepted, under its own id, whether    *)
(* its handler or the consumer wrote it.                                       *)
RecordsAreBids == records \subseteq accepted

(* A running auction is in the expire index, where the scanner can find it,    *)
(* whatever scans, bids and closes are under way: a scan that read the state   *)
(* before a bid writes the index after it.                                     *)
RunningIsIndexed == \A a \in Auctions : IsRunning(a) => index[a] # NotIndexed

(* All closing events of one auction, sent by handler, consumer or scanner and *)
(* however often, tell of one and the same outcome.                            *)
OneOutcome ==
    \A m1, m2 \in msgs :
        /\ m1.kind = "snapshot" /\ m2.kind = "snapshot" /\ m1.auction = m2.auction
        /\ m1.snap.status \in Final /\ m2.snap.status \in Final
        => m1.snap = m2.snap


(* No StartAuction can still load the auction: its row has left Pending, or   *)
(* was deleted, and no merchant holds a read of it that said Pending.          *)
Starting(a) ==
    \E m \in Merchants : merchant[m].pc \in {"start_check", "start_load"} /\ merchant[m].auction = a
Settled(a) ==
    /\ db[a].status \notin {Absent, Pending} \/ (db[a].status = Pending /\ db[a].deleted)
    /\ ~Starting(a)

(* From there on Redis never goes back to an earlier version, nor is an        *)
(* accepted bid lost: no late snapshot, redelivered event, edit, deletion or   *)
(* overlapping request makes the row Pending again.                            *)
NeverReloadedOnceSettled ==
    [][\A a \in Auctions : Settled(a) =>
          /\ Settled(a)' /\ state'[a].version >= state[a].version
          /\ \A b \in lost' \ lost : b.auction # a]_vars

(* A row that reached a final status keeps it, whatever arrives late.          *)
FinalRowStays ==
    [][\A a \in Auctions : db[a].status \in Final => db'[a].status = db[a].status]_vars

(* UpdatePendingConfig never changes the rules of a row that left Pending,     *)
(* however its read was interleaved with a start or a cancellation.            *)
RulesFrozenOnceStarted ==
    [][\A a \in Auctions : db[a].status \notin {Absent, Pending} => db'[a].rule = db[a].rule]_vars

(* An auction that runs is closed in the end, by its expire check or a scan,   *)
(* unless a bid moved its end beyond the bound of the clock.                   *)
RunningEnds ==
    \A a \in Auctions : IsRunning(a) ~> ~IsRunning(a) \/ state[a].expire > MaxTime

(* The row learns how the auction ended.                                       *)
RowLearnsOutcome ==
    \A a \in Auctions :
        state[a].status \in Final ~> db[a].deleted \/ db[a].status = state[a].status

(* Every accepted bid gets its audit record.                                   *)
BidsAreRecorded ==
    \A n \in 1..MaxBids : (\E b \in accepted : b.id = n) ~> (\E r \in records : r.id = n)

(* What a client is shown: GetAuctionRuntime reads Redis and falls back to the *)
(* row, which it does not find once it is deleted.                             *)
Shown(a) ==
    CASE Exists(a) -> [status |-> state[a].status, price |-> state[a].price,
                       winner |-> state[a].winner, bids |-> state[a].bids]
      [] ~Exists(a) /\ Live(a) -> [status |-> db[a].status, price |-> db[a].price,
                                  winner |-> db[a].winner, bids |-> db[a].bids]
      [] OTHER -> [status |-> Absent, price |-> 0, winner |-> NoUser, bids |-> 0]

(* Seen through it, the service keeps the promise of AuctionPromise, for       *)
(* requests of any number of merchants and a start that stopped half-way.      *)
Promise == INSTANCE AuctionPromise WITH
    auction <- [a \in Auctions |-> Shown(a)], settled <- {a \in Auctions : Settled(a)}
KeepsPromise == Promise!Spec

-----------------------------------------------------------------------------
(* What docs and comments say and the code does not do; runs refute it.       *)

(* An auction that is no longer Pending is not started again, so that nothing  *)
(* is loaded twice or goes back (docs/services/auction-service, 服务设计.md:   *)
(* 499).  Two starts that both read Pending pass the room's key, and the       *)
(* second wipes the bids taken since the first.                                *)
NeverReloaded == [][\A a \in Auctions : state'[a].version >= state[a].version]_vars

(* "A duplicate key means this bid's record is stored": a bid event leaves the *)
(* topic with the record of that very bid in the table.  The script hands the  *)
(* record id back as a Lua number, a double: the ids of two bids minted in one *)
(* millisecond become one id, and the second record is never stored.           *)
AckedBidIsRecorded ==
    [][\A msg \in msgs \ msgs' :
          msg.kind = "bid" =>
              \E r \in records' : r.auction = msg.auction /\ r.user = msg.user
                                   /\ r.price = msg.snap.price]_vars
=============================================================================
