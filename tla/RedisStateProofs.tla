-------------------------- MODULE RedisStateProofs --------------------------
(* Proofs about the Redis scripts, for every set of auctions, users, prices,  *)
(* clock readings and rules, and for every bound on the bids.                 *)
EXTENDS RedisState, TLAPS

USE AuctionsAssumption, UsersAssumption, NumbersAssumption

-----------------------------------------------------------------------------
(* What the scripts write is a hash again. *)

(* loadAuctionScript writes a well-typed hash. *)
LEMMA LoadedType ==
    ASSUME NEW rule \in Rules, NEW now \in Times
    PROVE  LoadedState(rule, now) \in AuctionState
BY DEF LoadedState, AuctionState, RuleType, Running

(* placeBidScript writes a well-typed hash. *)
LEMMA BidType ==
    ASSUME NEW s \in AuctionState, NEW u \in Users, NEW p \in Prices, NEW now \in Times
    PROVE  BidState(s, u, p, now) \in AuctionState
<1>1. s.bids + 1 \in Nat /\ s.version + 1 \in Nat
  BY DEF AuctionState
<1>2. p \in Nat /\ now + Countdown \in Nat
  OBVIOUS
<1> QED BY <1>1, <1>2 DEF BidState, AuctionState

(* The closing scripts write a well-typed hash with a final status. *)
LEMMA ClosedType ==
    ASSUME NEW s \in AuctionState, NEW status \in Final, NEW now \in Times
    PROVE  ClosedState(s, status, now) \in AuctionState
<1>1. s.version + 1 \in Nat /\ now \in Nat
  BY DEF AuctionState
<1> QED BY <1>1 DEF ClosedState, AuctionState

(* finishAuctionScript chooses between the two outcomes. *)
LEMMA OutcomeIsFinal == \A s : Outcome(s) \in {Deal, Failed}
BY DEF Outcome

-----------------------------------------------------------------------------
(* The three closing scripts agree: the auction was running, and is closed.   *)
Closes(a) ==
    /\ IsRunning(a)
    /\ \E now \in Times, status \in {Outcome(state[a]), Canceled} : Close(a, status, now)

(* A cancellation needs a running auction: no hash is ever Pending. *)
LEMMA CancelCloses ==
    ASSUME RedisTypeOK, NEW a \in Auctions, NEW now \in Times, CancelAuction(a, now)
    PROVE  Closes(a)
<1>1. state[a].status # Pending
  BY DEF RedisTypeOK, AuctionState, Pending, Absent, Running, Final, Deal, Failed, Canceled
<1>2. IsRunning(a) /\ Close(a, Canceled, now)
  BY <1>1 DEF CancelAuction, IsRunning
<1> QED BY <1>2 DEF Closes

(* A step of the store is one of five kinds. *)
Loads(a) == \E rule \in Rules, now \in Times : LoadAuction(a, rule, now)

Bids(a) ==
    \E r \in Rooms, u \in Users, p \in Prices, req \in Requests, now \in Times :
        AcceptBid(a, r, u, p, req, now)

LeavesHashes ==
    /\ UNCHANGED <<state, roomCurrent, rank>>
    /\ index' \in [Auctions -> Nat \cup {NotIndexed}]
    /\ requests' \subseteq Auctions \X Requests

(* Every step loads, bids on or closes one auction, or writes only request    *)
(* keys and the index.                                                        *)
LEMMA StepKinds ==
    ASSUME RedisTypeOK, RedisNext
    PROVE  \/ \E a \in Auctions : Loads(a) \/ Bids(a) \/ Closes(a)
           \/ LeavesHashes
<1> PICK a \in Auctions :
        \/ \E rule \in Rules, now \in Times : LoadAuction(a, rule, now)
        \/ \E r \in Rooms, u \in Users, p \in Prices, req \in Requests, now \in Times :
              \/ AcceptBid(a, r, u, p, req, now)
              \/ RejectBid(a, r, u, p, req, now)
        \/ \E req \in Requests : RequestKeyExpires(a, req)
        \/ \E now \in Times :
              \/ FinishAuction(a, now)
              \/ \E version \in 1..(MaxBids + 1) : FinishExpiredAuction(a, version, state[a].expire, now)
              \/ CancelAuction(a, now)
        \/ \E expire \in Times : IndexRunningAuction(a, expire)
        \/ RemoveRunningAuction(a)
  BY DEF RedisNext
<1>1. CASE \E rule \in Rules, now \in Times : LoadAuction(a, rule, now)
  BY <1>1 DEF Loads
<1>2. ASSUME NEW r \in Rooms, NEW u \in Users, NEW p \in Prices, NEW req \in Requests, NEW now \in Times,
             AcceptBid(a, r, u, p, req, now) \/ RejectBid(a, r, u, p, req, now)
      PROVE  Bids(a) \/ LeavesHashes
  BY <1>2 DEF Bids, LeavesHashes, RejectBid, RedisTypeOK
<1>3. ASSUME NEW req \in Requests, RequestKeyExpires(a, req)
      PROVE  LeavesHashes
  BY <1>3 DEF LeavesHashes, RequestKeyExpires, RedisTypeOK
<1>4. ASSUME NEW now \in Times, FinishAuction(a, now)
      PROVE  Closes(a)
  BY <1>4 DEF Closes, FinishAuction
<1>5. ASSUME NEW now \in Times, NEW version \in 1..(MaxBids + 1),
             FinishExpiredAuction(a, version, state[a].expire, now)
      PROVE  Closes(a)
  BY <1>5 DEF Closes, FinishExpiredAuction, StillExpired
<1>6. ASSUME NEW now \in Times, CancelAuction(a, now)
      PROVE  Closes(a)
  BY <1>6, CancelCloses
<1>7. ASSUME NEW expire \in Times, IndexRunningAuction(a, expire)
      PROVE  LeavesHashes
  BY <1>7 DEF LeavesHashes, IndexRunningAuction, RedisTypeOK
<1>8. CASE RemoveRunningAuction(a)
  BY <1>8 DEF LeavesHashes, RemoveRunningAuction, RedisTypeOK
<1> QED BY <1>1, <1>2, <1>3, <1>4, <1>5, <1>6, <1>7, <1>8
-----------------------------------------------------------------------------
(* Type correctness. *)

(* A load keeps the types. *)
LEMMA LoadKeepsType ==
    ASSUME RedisTypeOK, NEW a \in Auctions, Loads(a)
    PROVE  RedisTypeOK'
<1> PICK rule \in Rules, now \in Times : LoadAuction(a, rule, now)
  BY DEF Loads
<1>1. LoadedState(rule, now) \in AuctionState
  BY LoadedType
<1>2. rule.end \in Nat
  BY DEF RuleType
<1> QED BY <1>1, <1>2 DEF LoadAuction, RedisTypeOK

(* An accepted bid keeps the types. *)
LEMMA BidKeepsType ==
    ASSUME RedisTypeOK, NEW a \in Auctions, Bids(a)
    PROVE  RedisTypeOK'
<1> PICK r \in Rooms, u \in Users, p \in Prices, req \in Requests, now \in Times :
        AcceptBid(a, r, u, p, req, now)
  BY DEF Bids
<1>1. BidState(state[a], u, p, now) \in AuctionState
  BY BidType DEF RedisTypeOK
<1>2. state' \in [Auctions -> AuctionState]
  BY <1>1 DEF AcceptBid, RedisTypeOK
<1>3. rank' \in [Auctions -> [Users -> Nat]]
  BY DEF AcceptBid, RankedAt, RedisTypeOK
<1>4. /\ index' \in [Auctions -> Nat \cup {NotIndexed}]
      /\ requests' \subseteq Auctions \X Requests
      /\ roomCurrent' \in [Rooms -> Auctions \cup {NoAuction}]
  BY DEF AcceptBid, RedisTypeOK
<1> QED BY <1>2, <1>3, <1>4 DEF RedisTypeOK

(* Closing keeps the types. *)
LEMMA CloseKeepsType ==
    ASSUME RedisTypeOK, NEW a \in Auctions, Closes(a)
    PROVE  RedisTypeOK'
<1> PICK now \in Times, status \in {Outcome(state[a]), Canceled} : Close(a, status, now)
  BY DEF Closes
<1>1. status \in Final
  BY OutcomeIsFinal DEF Final
<1>2. ClosedState(state[a], status, now) \in AuctionState
  BY <1>1, ClosedType DEF RedisTypeOK
<1> QED BY <1>2 DEF Close, RedisTypeOK

(* RedisTypeOK is inductive as it stands. *)
LEMMA StepKeepsType == RedisTypeOK /\ [RedisNext]_redisVars => RedisTypeOK'
<1> SUFFICES ASSUME RedisTypeOK, [RedisNext]_redisVars PROVE RedisTypeOK'
  OBVIOUS
<1>1. CASE UNCHANGED redisVars
  BY <1>1 DEF redisVars, RedisTypeOK
<1>2. CASE RedisNext
  <2>1. ASSUME NEW a \in Auctions, Loads(a) \/ Bids(a) \/ Closes(a)
        PROVE  RedisTypeOK'
    BY <2>1, LoadKeepsType, BidKeepsType, CloseKeepsType
  <2>2. CASE LeavesHashes
    BY <2>2 DEF LeavesHashes, RedisTypeOK
  <2> QED BY <1>2, <2>1, <2>2, StepKinds
<1> QED BY <1>1, <1>2

(* The empty store is well-typed. *)
LEMMA InitType == RedisInit => RedisTypeOK
<1>1. EmptyState \in AuctionState
  BY DEF EmptyState, AuctionState
<1> QED BY <1>1 DEF RedisInit, RedisTypeOK

(* Whatever the callers do, Redis holds well-formed hashes; in particular no  *)
(* hash is ever Pending, and prices and versions are numbers.                 *)
THEOREM TypeCorrect == RedisSpec => []RedisTypeOK
<1> QED BY InitType, StepKeepsType, PTL DEF RedisSpec

-----------------------------------------------------------------------------
(* One auction per room.  RoomExclusive is not inductive: the load script     *)
(* looks at the room's key alone, and the closing scripts delete that key     *)
(* without reading it.  Both are right because the key of a room names the    *)
(* running auction of that room for as long as there is one.                  *)
RoomKeyNamesRunning == \A a \in Auctions : IsRunning(a) => roomCurrent[RoomOf[a]] = a

(* Only loading and closing write the room's key. *)
LEMMA StepKeepsRoomKey ==
    RedisTypeOK /\ RoomKeyNamesRunning /\ [RedisNext]_redisVars => RoomKeyNamesRunning'
<1> SUFFICES ASSUME RedisTypeOK, RoomKeyNamesRunning, [RedisNext]_redisVars,
                    NEW b \in Auctions, IsRunning(b)'
             PROVE  (roomCurrent[RoomOf[b]] = b)'
  BY DEF RoomKeyNamesRunning
<1>1. CASE UNCHANGED redisVars
  BY <1>1 DEF redisVars, RoomKeyNamesRunning, IsRunning
<1>2. ASSUME NEW a \in Auctions, Loads(a)
      PROVE  (roomCurrent[RoomOf[b]] = b)'
  <2> PICK rule \in Rules, now \in Times : LoadAuction(a, rule, now)
    BY <1>2 DEF Loads
  <2>1. CASE b = a
    BY <2>1 DEF LoadAuction, RedisTypeOK
  <2>2. CASE b # a
    <3>1. IsRunning(b)
      BY <2>2 DEF LoadAuction, IsRunning, RedisTypeOK
    <3>2. roomCurrent[RoomOf[b]] = b /\ b # NoAuction
      BY <3>1 DEF RoomKeyNamesRunning
    <3>3. RoomOf[b] # RoomOf[a]
      BY <2>2, <3>1, <3>2 DEF LoadAuction, RoomIsFree
    <3> QED BY <3>2, <3>3 DEF LoadAuction, RedisTypeOK
  <2> QED BY <2>1, <2>2
<1>3. ASSUME NEW a \in Auctions, Bids(a)
      PROVE  (roomCurrent[RoomOf[b]] = b)'
  <2>1. IsRunning(b) /\ UNCHANGED roomCurrent
    BY <1>3 DEF Bids, AcceptBid, Acceptable, BidState, IsRunning, RedisTypeOK, AuctionState
  <2> QED BY <2>1 DEF RoomKeyNamesRunning
<1>4. ASSUME NEW a \in Auctions, Closes(a)
      PROVE  (roomCurrent[RoomOf[b]] = b)'
  <2> PICK now \in Times, status \in {Outcome(state[a]), Canceled} : Close(a, status, now)
    BY <1>4 DEF Closes
  <2>1. status # Running
    BY OutcomeIsFinal DEF Running, Deal, Failed, Canceled
  <2>2. b # a
    BY <2>1 DEF Close, ClosedState, IsRunning, RedisTypeOK, AuctionState
  <2>3. IsRunning(b)
    BY <2>2 DEF Close, IsRunning, RedisTypeOK
  <2>4. RoomOf[b] # RoomOf[a]
    BY <1>4, <2>2, <2>3 DEF Closes, RoomKeyNamesRunning
  <2> QED BY <2>3, <2>4 DEF Close, RoomKeyNamesRunning, RedisTypeOK
<1>5. CASE LeavesHashes
  BY <1>5 DEF LeavesHashes, RoomKeyNamesRunning, IsRunning
<1> QED BY <1>1, <1>2, <1>3, <1>4, <1>5, StepKinds

(* Two auctions of one room are never running at the same time, for any       *)
(* number of rooms and auctions and any interleaving of the scripts.          *)
THEOREM RoomsAreExclusive == RedisSpec => []RoomExclusive
<1>1. RedisInit => RoomKeyNamesRunning
  BY DEF RedisInit, RoomKeyNamesRunning, IsRunning, EmptyState, Absent, Running
<1>2. RoomKeyNamesRunning => RoomExclusive
  BY DEF RoomKeyNamesRunning, RoomExclusive
<1> QED BY <1>1, <1>2, InitType, StepKeepsType, StepKeepsRoomKey, PTL DEF RedisSpec

-----------------------------------------------------------------------------
(* What one step does to the hash of one auction: nothing, a load, an         *)
(* accepted bid, or its close.                                                *)
HashKept(a) == state'[a] = state[a] /\ rank'[a] = rank[a]

HashLoaded(a) == \E rule \in Rules, now \in Times : state'[a] = LoadedState(rule, now)

HashBidOn(a) ==
    \E u \in Users, p \in Prices, now \in Times :
        /\ Acceptable(state[a], u, p, now)
        /\ state'[a] = BidState(state[a], u, p, now)
        /\ rank'[a] = [rank[a] EXCEPT ![u] = p]

HashClosed(a) ==
    /\ IsRunning(a)
    /\ \E now \in Times, status \in {Outcome(state[a]), Canceled} :
          state'[a] = ClosedState(state[a], status, now)
    /\ rank'[a] = rank[a]

(* Every step is one of the four for every auction. *)
LEMMA HashSteps ==
    ASSUME RedisTypeOK, [RedisNext]_redisVars, NEW b \in Auctions
    PROVE  HashKept(b) \/ HashLoaded(b) \/ HashBidOn(b) \/ HashClosed(b)
<1>1. CASE UNCHANGED redisVars
  BY <1>1 DEF redisVars, HashKept
<1>2. ASSUME NEW a \in Auctions, Loads(a)
      PROVE  HashKept(b) \/ HashLoaded(b)
  BY <1>2 DEF Loads, LoadAuction, HashKept, HashLoaded, RedisTypeOK
<1>3. ASSUME NEW a \in Auctions, Bids(a)
      PROVE  HashKept(b) \/ HashBidOn(b)
  <2> PICK r \in Rooms, u \in Users, p \in Prices, req \in Requests, now \in Times :
          AcceptBid(a, r, u, p, req, now)
    BY <1>3 DEF Bids
  <2>1. CASE b = a
    <3>1. Acceptable(state[b], u, p, now) /\ state'[b] = BidState(state[b], u, p, now)
      BY <2>1 DEF AcceptBid, RedisTypeOK
    <3>2. rank'[b] = [rank[b] EXCEPT ![u] = p]
      BY <2>1 DEF AcceptBid, RankedAt, RedisTypeOK
    <3> QED BY <3>1, <3>2 DEF HashBidOn
  <2>2. CASE b # a
    BY <2>2 DEF AcceptBid, RankedAt, HashKept, RedisTypeOK
  <2> QED BY <2>1, <2>2
<1>4. ASSUME NEW a \in Auctions, Closes(a)
      PROVE  HashKept(b) \/ HashClosed(b)
  BY <1>4 DEF Closes, Close, HashKept, HashClosed, RedisTypeOK
<1>5. CASE LeavesHashes
  BY <1>5 DEF LeavesHashes, HashKept
<1> QED BY <1>1, <1>2, <1>3, <1>4, <1>5, StepKinds

-----------------------------------------------------------------------------
(* The hash of a running auction, which each of the writes starts from.       *)

(* A bid keeps the auction running, counts itself and raises the version. *)
LEMMA AfterBid ==
    ASSUME NEW s \in AuctionState, NEW u, NEW p, NEW now
    PROVE  LET t == BidState(s, u, p, now) IN
           /\ t.status = s.status /\ t.startPrice = s.startPrice
           /\ t.incr = s.incr /\ t.seal = s.seal
           /\ t.bids = s.bids + 1 /\ t.version = s.version + 1
           /\ t.price = p /\ t.winner = u
BY DEF BidState, AuctionState

(* Closing changes the status and raises the version, and keeps the result. *)
LEMMA AfterClose ==
    ASSUME NEW s \in AuctionState, NEW status, NEW now
    PROVE  LET t == ClosedState(s, status, now) IN
           /\ t.status = status /\ t.startPrice = s.startPrice
           /\ t.incr = s.incr /\ t.seal = s.seal
           /\ t.bids = s.bids /\ t.version = s.version + 1
           /\ t.price = s.price /\ t.winner = s.winner
BY DEF ClosedState, AuctionState

(* A deal has bids and a failure has none, whichever script closed.  The      *)
(* closing scripts decide on the count that the bids before them left.        *)
THEOREM OutcomesFollowBids == RedisSpec => []OutcomeFollowsBids
<1>1. RedisInit => OutcomeFollowsBids
  <2> SUFFICES ASSUME RedisInit, NEW a \in Auctions
               PROVE  state[a].status \notin {Deal, Failed}
    BY DEF OutcomeFollowsBids
  <2> QED BY DEF RedisInit, EmptyState, Absent, Deal, Failed
<1>2. RedisTypeOK /\ OutcomeFollowsBids /\ [RedisNext]_redisVars => OutcomeFollowsBids'
  <2> SUFFICES ASSUME RedisTypeOK, OutcomeFollowsBids, [RedisNext]_redisVars, NEW a \in Auctions
               PROVE  /\ state'[a].status = Deal => state'[a].bids > 0
                      /\ state'[a].status = Failed => state'[a].bids = 0
    BY DEF OutcomeFollowsBids
  <2> state[a] \in AuctionState
    BY DEF RedisTypeOK
  <2>1. CASE HashKept(a)
    BY <2>1 DEF HashKept, OutcomeFollowsBids
  <2>2. CASE HashLoaded(a)
    BY <2>2 DEF HashLoaded, LoadedState, Running, Deal, Failed
  <2>3. CASE HashBidOn(a)
    <3>1. state'[a].status = Running
      BY <2>3, AfterBid DEF HashBidOn, Acceptable
    <3> QED BY <3>1 DEF Running, Deal, Failed
  <2>4. CASE HashClosed(a)
    <3> PICK now \in Times, status \in {Outcome(state[a]), Canceled} :
            state'[a] = ClosedState(state[a], status, now)
      BY <2>4 DEF HashClosed
    <3>1. state'[a].status = status /\ state'[a].bids = state[a].bids
      BY AfterClose
    <3>2. state[a].bids \in Nat
      BY DEF AuctionState
    <3> QED BY <3>1, <3>2 DEF Outcome, Deal, Failed, Canceled
  <2> QED BY <2>1, <2>2, <2>3, <2>4, HashSteps
<1> QED BY <1>1, <1>2, InitType, StepKeepsType, PTL DEF RedisSpec

(* The version of a hash is the number of writes since its load, so the       *)
(* version guards of finishExpiredAuctionScript and of the row mean what they *)
(* are taken to mean: equal versions of one load are equal states.            *)
THEOREM VersionsCountWrites == RedisSpec => []VersionCountsWrites
<1>1. RedisInit => VersionCountsWrites
  BY DEF RedisInit, VersionCountsWrites, Exists, EmptyState
<1>2. RedisTypeOK /\ VersionCountsWrites /\ [RedisNext]_redisVars => VersionCountsWrites'
  <2> SUFFICES ASSUME RedisTypeOK, VersionCountsWrites, [RedisNext]_redisVars,
                      NEW a \in Auctions, state'[a].status # Absent
               PROVE  state'[a].version =
                        1 + state'[a].bids + (IF state'[a].status \in Final THEN 1 ELSE 0)
    BY DEF VersionCountsWrites, Exists
  <2> state[a] \in AuctionState
    BY DEF RedisTypeOK
  <2>1. CASE HashKept(a)
    BY <2>1 DEF HashKept, VersionCountsWrites, Exists
  <2>2. CASE HashLoaded(a)
    BY <2>2 DEF HashLoaded, LoadedState, Running, Final, Deal, Failed, Canceled
  <2>3. CASE HashBidOn(a)
    <3>1. state[a].status = Running /\ state'[a].status = Running
      BY <2>3, AfterBid DEF HashBidOn, Acceptable
    <3>2. state'[a].bids = state[a].bids + 1 /\ state'[a].version = state[a].version + 1
      BY <2>3, AfterBid DEF HashBidOn
    <3>3. state[a].version = 1 + state[a].bids + 0
      BY <3>1 DEF VersionCountsWrites, Exists, Running, Absent, Final, Deal, Failed, Canceled
    <3>4. state[a].bids \in Nat
      BY DEF AuctionState
    <3> QED BY <3>1, <3>2, <3>3, <3>4 DEF Running, Final, Deal, Failed, Canceled
  <2>4. CASE HashClosed(a)
    <3> PICK now \in Times, status \in {Outcome(state[a]), Canceled} :
            state'[a] = ClosedState(state[a], status, now)
      BY <2>4 DEF HashClosed
    <3>1. /\ state'[a].status = status /\ state'[a].bids = state[a].bids
          /\ state'[a].version = state[a].version + 1
      BY AfterClose
    <3>2. status \in Final
      BY OutcomeIsFinal DEF Final
    <3>3. state[a].version = 1 + state[a].bids + 0
      BY <2>4 DEF HashClosed, IsRunning, VersionCountsWrites, Exists, Running, Absent, Final, Deal, Failed, Canceled
    <3>4. state[a].bids \in Nat
      BY DEF AuctionState
    <3> QED BY <3>1, <3>2, <3>3, <3>4
  <2> QED BY <2>1, <2>2, <2>3, <2>4, HashSteps
<1> QED BY <1>1, <1>2, InitType, StepKeepsType, PTL DEF RedisSpec

(* The leader's ranking entry is the leader's price: the script sets both in  *)
(* one step, and a load drops the winner but leaves the ranking.              *)
THEOREM LeadersAreRanked == RedisSpec => []LeaderIsRanked
<1>1. RedisInit => LeaderIsRanked
  BY DEF RedisInit, LeaderIsRanked, EmptyState
<1>2. RedisTypeOK /\ LeaderIsRanked /\ [RedisNext]_redisVars => LeaderIsRanked'
  <2> SUFFICES ASSUME RedisTypeOK, LeaderIsRanked, [RedisNext]_redisVars,
                      NEW a \in Auctions, state'[a].winner # NoUser
               PROVE  rank'[a][state'[a].winner] = state'[a].price
    BY DEF LeaderIsRanked
  <2> state[a] \in AuctionState /\ rank[a] \in [Users -> Nat]
    BY DEF RedisTypeOK
  <2>1. CASE HashKept(a)
    BY <2>1 DEF HashKept, LeaderIsRanked
  <2>2. CASE HashLoaded(a)
    BY <2>2 DEF HashLoaded, LoadedState
  <2>3. CASE HashBidOn(a)
    BY <2>3, AfterBid DEF HashBidOn
  <2>4. CASE HashClosed(a)
    BY <2>4, AfterClose DEF HashClosed, LeaderIsRanked
  <2> QED BY <2>1, <2>2, <2>3, <2>4, HashSteps
<1> QED BY <1>1, <1>2, InitType, StepKeepsType, PTL DEF RedisSpec

-----------------------------------------------------------------------------
(* Prices.  That an auction which can be bid on has a positive increment is   *)
(* what makes the seal price reachable in one way only: the rest of           *)
(* BidsExplainPrice rests on it.                                              *)
IncrementIsPositive == \A a \in Auctions : IsRunning(a) => state[a].incr > 0

(* The increment is written by the load alone. *)
LEMMA StepKeepsIncrement ==
    RedisTypeOK /\ IncrementIsPositive /\ [RedisNext]_redisVars => IncrementIsPositive'
<1> SUFFICES ASSUME RedisTypeOK, IncrementIsPositive, [RedisNext]_redisVars,
                    NEW a \in Auctions, state'[a].status = Running
             PROVE  state'[a].incr > 0
  BY DEF IncrementIsPositive, IsRunning
<1> state[a] \in AuctionState
  BY DEF RedisTypeOK
<1>1. CASE HashKept(a)
  BY <1>1 DEF HashKept, IncrementIsPositive, IsRunning
<1>2. CASE HashLoaded(a)
  BY <1>2 DEF HashLoaded, LoadedState, RuleType
<1>3. CASE HashBidOn(a)
  BY <1>3, AfterBid DEF HashBidOn, Acceptable, IncrementIsPositive, IsRunning
<1>4. CASE HashClosed(a)
  BY <1>4, AfterClose DEF HashClosed, IncrementIsPositive
<1> QED BY <1>1, <1>2, <1>3, <1>4, HashSteps

(* What BidsExplainPrice says of one hash. *)
PriceExplained(s) ==
    /\ s.bids = 0 <=> s.winner = NoUser
    /\ s.bids = 0 => s.price = s.startPrice
    /\ s.price >= s.startPrice + s.incr * s.bids \/ (s.seal > 0 /\ s.price = s.seal)
    /\ s.seal > 0 /\ s.bids > 0 => s.price <= s.seal

(* One more bid is one more increment. *)
LEMMA OneMoreIncrement == \A i, n \in Nat : i * (n + 1) = i * n + i
OBVIOUS

(* An acceptable bid leaves an explained price explained. *)
LEMMA BidIsExplained ==
    ASSUME NEW s \in AuctionState, s.incr > 0, PriceExplained(s),
           NEW u \in Users, NEW p \in Prices, NEW now \in Times, Acceptable(s, u, p, now)
    PROVE  PriceExplained(BidState(s, u, p, now))
<1> DEFINE t == BidState(s, u, p, now)
<1>1. /\ t.startPrice = s.startPrice /\ t.incr = s.incr /\ t.seal = s.seal
      /\ t.bids = s.bids + 1 /\ t.price = p /\ t.winner = u
  BY AfterBid
<1>2. /\ s.startPrice \in Nat /\ s.incr \in Nat /\ s.seal \in Nat
      /\ s.bids \in Nat /\ s.price \in Nat /\ p \in Nat /\ s.incr * s.bids \in Nat
  BY DEF AuctionState
<1>3. MinBidPrice(s) <= p /\ (s.seal > 0 => p <= s.seal)
  BY DEF Acceptable
<1>4. t.price >= t.startPrice + t.incr * t.bids \/ (t.seal > 0 /\ t.price = t.seal)
  <2>1. CASE s.seal > 0 /\ s.price + s.incr > s.seal
    <3>1. p = s.seal
      BY <1>2, <1>3, <2>1 DEF MinBidPrice
    <3> QED BY <1>1, <2>1, <3>1
  <2>2. CASE ~(s.seal > 0 /\ s.price + s.incr > s.seal)
    <3>1. p >= s.price + s.incr
      BY <1>3, <2>2 DEF MinBidPrice
    <3>2. s.price >= s.startPrice + s.incr * s.bids
      BY <1>2, <2>2 DEF PriceExplained
    <3>3. s.incr * (s.bids + 1) = s.incr * s.bids + s.incr
      BY <1>2, OneMoreIncrement
    <3>4. p >= s.startPrice + s.incr * (s.bids + 1)
      BY <1>2, <3>1, <3>2, <3>3
    <3> QED BY <1>1, <3>4
  <2> QED BY <2>1, <2>2
<1>5. t.bids # 0 /\ t.winner # NoUser
  BY <1>1, <1>2
<1>6. t.seal > 0 => t.price <= t.seal
  BY <1>1, <1>3
<1>7. PriceExplained(t)
  <2> HIDE DEF t
  <2> QED BY <1>4, <1>5, <1>6 DEF PriceExplained
<1> QED BY <1>7

(* The price an auction shows is always explained by its start price, its     *)
(* increment, its seal price and the number of its bids: no interleaving of   *)
(* bids, closes and index writes raises it otherwise.                         *)
THEOREM PricesAreExplained == RedisSpec => []BidsExplainPrice
<1>1. RedisInit => BidsExplainPrice /\ IncrementIsPositive
  BY DEF RedisInit, BidsExplainPrice, IncrementIsPositive, IsRunning, Exists, EmptyState, Absent, Running
<1>2. RedisTypeOK /\ IncrementIsPositive /\ BidsExplainPrice /\ [RedisNext]_redisVars => BidsExplainPrice'
  <2> SUFFICES ASSUME RedisTypeOK, IncrementIsPositive, BidsExplainPrice, [RedisNext]_redisVars,
                      NEW a \in Auctions, state'[a].status # Absent
               PROVE  PriceExplained(state'[a])
    BY DEF BidsExplainPrice, Exists, PriceExplained
  <2> state[a] \in AuctionState
    BY DEF RedisTypeOK
  <2>0. Exists(a) => PriceExplained(state[a])
    BY DEF BidsExplainPrice, PriceExplained
  <2>1. CASE HashKept(a)
    BY <2>0, <2>1 DEF HashKept, Exists
  <2>2. CASE HashLoaded(a)
    <3> PICK rule \in Rules, now \in Times : state'[a] = LoadedState(rule, now)
      BY <2>2 DEF HashLoaded
    <3>1. /\ state'[a].bids = 0 /\ state'[a].winner = NoUser
          /\ state'[a].price = rule.startPrice /\ state'[a].startPrice = rule.startPrice
          /\ state'[a].incr = rule.incr
      BY DEF LoadedState
    <3>2. rule.startPrice \in Nat /\ rule.incr \in Nat
      BY DEF RuleType
    <3>3. rule.startPrice >= rule.startPrice + rule.incr * 0
      BY <3>2
    <3> QED BY <3>1, <3>2, <3>3 DEF PriceExplained
  <2>3. CASE HashBidOn(a)
    <3> PICK u \in Users, p \in Prices, now \in Times :
            Acceptable(state[a], u, p, now) /\ state'[a] = BidState(state[a], u, p, now)
      BY <2>3 DEF HashBidOn
    <3>1. IsRunning(a) /\ Exists(a) /\ state[a].incr > 0
      BY DEF Acceptable, IsRunning, Exists, IncrementIsPositive, Running, Absent
    <3> QED BY <2>0, <3>1, BidIsExplained
  <2>4. CASE HashClosed(a)
    <3>1. PriceExplained(state[a])
      BY <2>0, <2>4 DEF HashClosed, IsRunning, Exists, Running, Absent
    <3> QED BY <2>4, <3>1, AfterClose DEF HashClosed, PriceExplained
  <2> QED BY <2>1, <2>2, <2>3, <2>4, HashSteps
<1> QED BY <1>1, <1>2, InitType, StepKeepsType, StepKeepsIncrement, PTL DEF RedisSpec

-----------------------------------------------------------------------------
(* A closed auction stays as it is until it is loaded again: neither a late   *)
(* bid, a second close nor a late cancellation touches it.                    *)
THEOREM ClosedStaysClosed == RedisSpec => ClosedUntilReloaded
<1> DEFINE Step == \A a \in Auctions : state[a].status \in Final => state'[a] = state[a] \/ state'[a].version = 1
<1>1. RedisTypeOK /\ [RedisNext]_redisVars => Step
  <2> SUFFICES ASSUME RedisTypeOK, [RedisNext]_redisVars, NEW a \in Auctions, state[a].status \in Final
               PROVE  state'[a] = state[a] \/ state'[a].version = 1
    OBVIOUS
  <2>1. state[a].status # Running
    BY DEF Final, Running, Deal, Failed, Canceled
  <2>2. ~HashBidOn(a) /\ ~HashClosed(a)
    BY <2>1 DEF HashBidOn, Acceptable, HashClosed, IsRunning
  <2>3. HashLoaded(a) => state'[a].version = 1
    BY DEF HashLoaded, LoadedState
  <2> QED BY <2>2, <2>3, HashSteps DEF HashKept
<1>2. RedisTypeOK /\ [RedisNext]_redisVars => [Step]_redisVars
  BY <1>1
<1> QED BY <1>2, InitType, StepKeepsType, PTL DEF RedisSpec, ClosedUntilReloaded

=============================================================================
