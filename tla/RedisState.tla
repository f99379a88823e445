----------------------------- MODULE RedisState -----------------------------
(* The run-time state of auctions that auction-service keeps in Redis        *)
(* (services/auction-service/internal/repository/redis_state.go).  Redis      *)
(* runs a Lua script atomically, so every script is one action here.  A       *)
(* script that returns an error before its first write changes nothing and    *)
(* is no action at all.                                                       *)
(*                                                                            *)
(* Several instances of the service, each with its own clock, call the        *)
(* scripts: the time they pass is any member of Times, in any order.          *)
EXTENDS Integers

CONSTANTS
    Auctions,   \* auction ids
    Rooms,      \* live room ids
    RoomOf,     \* the room an auction is bound to when it is created
    Users,      \* bidder ids, as the numbers the scripts compare
    Requests,   \* the request ids clients put on their bids
    Prices,     \* the prices clients offer
    Times,      \* clock readings, in the unit of Countdown
    Rules,      \* the rows StartAuction may load: rules a merchant configured
    Countdown,  \* bid_countdown_millis
    MaxBids,    \* bound: bids accepted by one auction
    NoAuction, NoUser

NotIndexed == -1

(* Every rule record is what a Pending row holds.  A seal price of 0 is none. *)
RuleType == [startPrice: Nat \ {0}, incr: Nat \ {0}, seal: Nat, end: Nat]

ASSUME AuctionsAssumption == RoomOf \in [Auctions -> Rooms] /\ NoAuction \notin Auctions
ASSUME UsersAssumption == NoUser \notin Users
ASSUME NumbersAssumption ==
    /\ Prices \subseteq Nat \ {0} /\ Times \subseteq Nat
    /\ Countdown \in Nat \ {0} /\ MaxBids \in Nat
    /\ Rules \subseteq RuleType

Absent == "absent"
Pending == "pending"
Running == "running"
Deal == "deal"
Failed == "failed"
Canceled == "canceled"

Final == {Deal, Failed, Canceled}

VARIABLES
    state,        \* auction:{id}:state, a hash; status Absent when there is none
    roomCurrent,  \* auction:room:{id}:current
    index,        \* auction:running:expire_index, auction -> score
    requests,     \* the request keys that have not expired
    rank          \* auction:{id}:bid:rank, with the last-bid keys; 0 when unset

redisVars == <<state, roomCurrent, index, requests, rank>>

AuctionState ==
    [status: {Absent, Running} \cup Final,
     startPrice: Nat, incr: Nat, seal: Nat, start: Nat, end: Nat,
     price: Nat, bids: Nat, winner: Users \cup {NoUser},
     expire: Nat, version: Nat]

RedisTypeOK ==
    /\ state \in [Auctions -> AuctionState]
    /\ roomCurrent \in [Rooms -> Auctions \cup {NoAuction}]
    /\ index \in [Auctions -> Nat \cup {NotIndexed}]
    /\ requests \subseteq Auctions \X Requests
    /\ rank \in [Auctions -> [Users -> Nat]]

EmptyState ==
    [status |-> Absent, startPrice |-> 0, incr |-> 0, seal |-> 0, start |-> 0, end |-> 0,
     price |-> 0, bids |-> 0, winner |-> NoUser, expire |-> 0, version |-> 0]

RedisInit ==
    /\ state = [a \in Auctions |-> EmptyState]
    /\ roomCurrent = [r \in Rooms |-> NoAuction]
    /\ index = [a \in Auctions |-> NotIndexed]
    /\ requests = {}
    /\ rank = [a \in Auctions |-> [u \in Users |-> 0]]

Exists(a) == state[a].status # Absent
IsRunning(a) == state[a].status = Running

-----------------------------------------------------------------------------
(* loadAuctionScript.  StartAuction passes a row it read as Pending: no bid,  *)
(* no winner, price at the start price, and the version it raised to 1.       *)

(* Mutant of LoadedState: the hash is written as still Pending. *)
LoadedStatePending(rule, now) ==
    [status |-> Pending, startPrice |-> rule.startPrice, incr |-> rule.incr,
     seal |-> rule.seal, start |-> now, end |-> rule.end, price |-> rule.startPrice,
     bids |-> 0, winner |-> NoUser, expire |-> rule.end, version |-> 1]

(* The state the HSET writes. *)
LoadedState(rule, now) ==
    [status |-> Running, startPrice |-> rule.startPrice, incr |-> rule.incr,
     seal |-> rule.seal, start |-> now, end |-> rule.end, price |-> rule.startPrice,
     bids |-> 0, winner |-> NoUser, expire |-> rule.end, version |-> 1]

(* Mutant of RoomIsFree: the key is never consulted. *)
RoomIsFreeUnchecked(a) == roomCurrent[RoomOf[a]] \in Auctions \cup {NoAuction}

(* The room's key names no other auction that is still running. *)
RoomIsFree(a) ==
    LET current == roomCurrent[RoomOf[a]]
    IN  current \notin {NoAuction, a} => ~IsRunning(current)

(* Mutant of LoadAuction: the expire index is left for the first bid. *)
LoadAuctionUnindexed(a, rule, now) ==
    /\ RoomIsFree(a)
    /\ state' = [state EXCEPT ![a] = LoadedState(rule, now)]
    /\ roomCurrent' = [roomCurrent EXCEPT ![RoomOf[a]] = a]
    /\ UNCHANGED <<index, requests, rank>>

(* Mutant of LoadAuction: the bid count of an earlier load stays. *)
LoadAuctionKeepsCount(a, rule, now) ==
    /\ RoomIsFree(a)
    /\ state' = [state EXCEPT ![a] = [LoadedState(rule, now) EXCEPT !.bids = state[a].bids]]
    /\ roomCurrent' = [roomCurrent EXCEPT ![RoomOf[a]] = a]
    /\ index' = [index EXCEPT ![a] = rule.end]
    /\ UNCHANGED <<requests, rank>>

LoadAuction(a, rule, now) ==
    /\ RoomIsFree(a)
    /\ state' = [state EXCEPT ![a] = LoadedState(rule, now)]
    /\ roomCurrent' = [roomCurrent EXCEPT ![RoomOf[a]] = a]
    /\ index' = [index EXCEPT ![a] = rule.end]
    /\ UNCHANGED <<requests, rank>>

-----------------------------------------------------------------------------
(* placeBidScript. *)

(* The request reaches the SET NX of its key: the hash exists, the room is    *)
(* the auction's, and the key is not there yet.                               *)
RequestIsNew(a, room, req) ==
    /\ Exists(a)
    /\ room = RoomOf[a]
    /\ <<a, req>> \notin requests

(* Mutant of MinBidPrice: the increment is forgotten. *)
MinBidPriceNoIncrement(s) == s.price

(* The least acceptable price: one increment up, but never above the seal. *)
MinBidPrice(s) ==
    IF s.seal > 0 /\ s.price + s.incr > s.seal THEN s.seal ELSE s.price + s.incr

(* Mutant of Acceptable: the status is not looked at. *)
AcceptableInAnyStatus(s, u, p, now) ==
    s.start <= now /\ now <= s.end /\ s.winner # u /\ MinBidPrice(s) <= p /\ (s.seal > 0 => p <= s.seal)

(* The checks that follow the SET NX. *)
Acceptable(s, u, p, now) ==
    /\ s.status = Running
    /\ s.start <= now /\ now <= s.end
    /\ s.winner # u
    /\ MinBidPrice(s) <= p
    /\ s.seal > 0 => p <= s.seal

BidState(s, u, p, now) ==
    [s EXCEPT !.bids = @ + 1, !.version = @ + 1, !.price = p, !.winner = u,
              !.expire = now + Countdown]

(* Mutant of RankedAt: the ranking adds prices up (ZINCRBY). *)
RankedAtSum(a, u, p) == [rank EXCEPT ![a][u] = @ + p]

RankedAt(a, u, p) == [rank EXCEPT ![a][u] = p]

AcceptBid(a, room, u, p, req, now) ==
    /\ RequestIsNew(a, room, req)
    /\ Acceptable(state[a], u, p, now)
    /\ state[a].bids < MaxBids
    /\ requests' = requests \cup {<<a, req>>}
    /\ state' = [state EXCEPT ![a] = BidState(@, u, p, now)]
    /\ rank' = RankedAt(a, u, p)
    /\ index' = [index EXCEPT ![a] = now + Countdown]
    /\ UNCHANGED roomCurrent

(* A rejected bid has spent its request key: the script does not give it back. *)
RejectBid(a, room, u, p, req, now) ==
    /\ RequestIsNew(a, room, req)
    /\ ~Acceptable(state[a], u, p, now)
    /\ requests' = requests \cup {<<a, req>>}
    /\ UNCHANGED <<state, roomCurrent, index, rank>>

(* The request key lives 600 seconds. *)
RequestKeyExpires(a, req) ==
    /\ <<a, req>> \in requests
    /\ requests' = requests \ {<<a, req>>}
    /\ UNCHANGED <<state, roomCurrent, index, rank>>

-----------------------------------------------------------------------------
(* finishAuctionScript, finishExpiredAuctionScript, cancelAuctionScript.      *)

(* Mutant of Outcome: every auction ends in a deal. *)
OutcomeAlwaysDeal(s) == IF s.bids >= 0 THEN Deal ELSE Failed

Outcome(s) == IF s.bids > 0 THEN Deal ELSE Failed

(* Mutant of ClosedState: closing does not raise the version. *)
ClosedStateSameVersion(s, status, now) ==
    [s EXCEPT !.status = status, !.end = now, !.expire = now]

ClosedState(s, status, now) ==
    [s EXCEPT !.status = status, !.version = @ + 1, !.end = now, !.expire = now]

(* The end the three scripts share: close the hash, leave the index, and      *)
(* delete the room's key whichever auction it names.                          *)
Close(a, status, now) ==
    /\ state' = [state EXCEPT ![a] = ClosedState(@, status, now)]
    /\ index' = [index EXCEPT ![a] = NotIndexed]
    /\ roomCurrent' = [roomCurrent EXCEPT ![RoomOf[a]] = NoAuction]
    /\ UNCHANGED <<requests, rank>>

FinishAuction(a, now) ==
    /\ IsRunning(a)
    /\ Close(a, Outcome(state[a]), now)

StillExpired(a, version, expire, now) ==
    /\ IsRunning(a)
    /\ state[a].version = version
    /\ state[a].expire = expire
    /\ expire <= now

FinishExpiredAuction(a, version, expire, now) ==
    /\ StillExpired(a, version, expire, now)
    /\ Close(a, Outcome(state[a]), now)

(* Mutant of CancelAuction: any hash can be cancelled, a finished one too. *)
CancelAuctionUnchecked(a, now) ==
    Exists(a) /\ Close(a, Canceled, now)

CancelAuction(a, now) ==
    /\ state[a].status \in {Pending, Running}
    /\ Close(a, Canceled, now)

-----------------------------------------------------------------------------
(* ZADD and ZREM of the expire index by the scanner. *)

IndexRunningAuction(a, expire) ==
    /\ index' = [index EXCEPT ![a] = expire]
    /\ UNCHANGED <<state, roomCurrent, requests, rank>>

RemoveRunningAuction(a) ==
    /\ index' = [index EXCEPT ![a] = NotIndexed]
    /\ UNCHANGED <<state, roomCurrent, requests, rank>>

-----------------------------------------------------------------------------
(* The store on its own: any caller, any argument (with an expire_at other    *)
(* than the hash's own finishExpiredAuctionScript returns {0}).               *)

RedisNext ==
    \E a \in Auctions :
        \/ \E rule \in Rules, now \in Times : LoadAuction(a, rule, now)
        \/ \E r \in Rooms, u \in Users, p \in Prices, req \in Requests, now \in Times :
              \/ AcceptBid(a, r, u, p, req, now)
              \/ RejectBid(a, r, u, p, req, now)
        \/ \E req \in Requests : RequestKeyExpires(a, req)
        \/ \E now \in Times :
              \/ FinishAuction(a, now)
              \/ \E version \in 1..(MaxBids + 1) : FinishExpiredAuction(a, version, state[a].expire, now)
              \/ CancelAuction(a, now)
        \/ \E expire \in Times : IndexRunningAuction(a, expire)
        \/ RemoveRunningAuction(a)

RedisSpec == RedisInit /\ [][RedisNext]_redisVars

-----------------------------------------------------------------------------
(* What the scripts promise, whoever calls them and in whatever order.        *)

(* Two auctions of one room never run at once, although LoadAuction checks    *)
(* the room's key only and the closing scripts delete it blindly.             *)
RoomExclusive ==
    \A a, b \in Auctions : IsRunning(a) /\ IsRunning(b) /\ RoomOf[a] = RoomOf[b] => a = b

(* The price is explained by the bids: without one it is the start price and  *)
(* nobody leads; each adds at least an increment until the seal price, which  *)
(* no accepted bid exceeds, is reached.                                       *)
BidsExplainPrice ==
    \A a \in Auctions : Exists(a) =>
        LET s == state[a] IN
        /\ s.bids = 0 <=> s.winner = NoUser
        /\ s.bids = 0 => s.price = s.startPrice
        /\ s.price >= s.startPrice + s.incr * s.bids \/ (s.seal > 0 /\ s.price = s.seal)
        /\ s.seal > 0 /\ s.bids > 0 => s.price <= s.seal

(* An auction is a deal exactly when somebody bid, and a failure otherwise.   *)
OutcomeFollowsBids ==
    \A a \in Auctions :
        /\ state[a].status = Deal => state[a].bids > 0
        /\ state[a].status = Failed => state[a].bids = 0

(* The version counts the writes since the load, so the closing write has a   *)
(* version of its own: what the snapshot guard of the database relies on.     *)
VersionCountsWrites ==
    \A a \in Auctions : Exists(a) =>
        state[a].version = 1 + state[a].bids + (IF state[a].status \in Final THEN 1 ELSE 0)

(* The leader's entry in the ranking is the price the leader offered.         *)
LeaderIsRanked ==
    \A a \in Auctions : state[a].winner # NoUser => rank[a][state[a].winner] = state[a].price

(* A closed auction stays as it was closed: no bid, no second close, no       *)
(* cancellation of a deal; only a new load replaces it.                       *)
ClosedUntilReloaded ==
    [][\A a \in Auctions : state[a].status \in Final => state'[a] = state[a] \/ state'[a].version = 1]_redisVars
=============================================================================
