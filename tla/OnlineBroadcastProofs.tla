------------------------ MODULE OnlineBroadcastProofs -----------------------
(* Proofs about OnlineBroadcast: its steps are those of OnlinePresence, so    *)
(* what is proved of the scripts holds of the gateways; and a connection that *)
(* left stays forgotten.                                                      *)
EXTENDS OnlineBroadcast, OnlinePresenceProofs, FiniteSetTheorems

(* The instances' own bookkeeping, as far as the proofs look at it.           *)
Bookkeeping == clock \in Nat /\ phase \in [Conns -> Phases]

(* Every action, with the part of the state the proofs follow.                *)
LEMMA BookkeepingInit == BroadcastInit => Bookkeeping
BY DEF BroadcastInit, PresenceInit, Bookkeeping, Phases

LEMMA BookkeepingNext == Bookkeeping /\ [BroadcastNext]_broadcastVars => Bookkeeping'
<1> SUFFICES ASSUME Bookkeeping, [BroadcastNext]_broadcastVars PROVE Bookkeeping'
  OBVIOUS
<1>1. clock' \in Nat
  BY DEF Bookkeeping, BroadcastNext, ConnStep, Arrive, EnterRoom, EnterFails, Announce, Beat, BeatFails,
     CloseConn, LeaveRoom, LeaveFails, Cleanup, CleanupFails, AnnounceCleanup, Hear, FlushOnlineEvents, Crash,
     Tick, broadcastVars, presenceVars
<1>2. phase' \in [Conns -> Phases]
  <2> USE DEF Bookkeeping, Phases
  <2>1. ASSUME NEW c \in Conns,
               \/ Arrive(c) \/ ConnStep(c) \/ EnterFails(c) \/ Beat(c) \/ BeatFails(c)
                 \/ CloseConn(c) \/ LeaveFails(c)
        PROVE  phase' \in [Conns -> Phases]
    BY <2>1 DEF ConnStep, Arrive, EnterRoom, EnterFails, Announce, Beat, BeatFails, CloseConn, LeaveRoom, LeaveFails
  <2>2. ASSUME NEW i \in Gateways, Crash(i) PROVE phase' \in [Conns -> Phases]
    BY <2>2 DEF Crash
  <2>3. ASSUME NEW i \in Gateways, Cleanup(i) \/ CleanupFails(i) \/ AnnounceCleanup(i) \/ Hear(i) \/ FlushOnlineEvents(i)
        PROVE  phase' = phase
    BY <2>3 DEF Cleanup, CleanupFails, AnnounceCleanup, Hear, FlushOnlineEvents
  <2>4. (KeysExpire /\ UNCHANGED <<clock, gateway>>) \/ (Tick /\ UNCHANGED <<presence, gateway>>)
           \/ UNCHANGED broadcastVars => phase' = phase
    BY DEF gateway, broadcastVars
  <2> QED BY <2>1, <2>2, <2>3, <2>4 DEF BroadcastNext
<1> QED BY <1>1, <1>2 DEF Bookkeeping

LEMMA BookkeepingHolds == BroadcastSpec => []Bookkeeping
BY BookkeepingInit, BookkeepingNext, PTL DEF BroadcastSpec

-----------------------------------------------------------------------------
(* A gateway reads its own clock right before the call: one of the readings,  *)
(* however far it is behind, and ahead by at most Skew.                       *)
LEMMA NowIsAReading ==
    ASSUME Bookkeeping, NEW i \in Gateways
    PROVE  Now(i) \in Readings
BY PresenceAssumption, BroadcastAssumption DEF Bookkeeping, Readings, Now, BroadcastAssumption

(* An instance that cleans up a room holds a connection: its limit is legal.  *)
LEMMA LimitIsLegal ==
    ASSUME NEW i \in Gateways, Hub(i) # {}
    PROVE  Cardinality(Conns) \in 1..Cardinality(Conns)
<1>1. Conns # {} /\ IsFiniteSet(Conns)
  BY PresenceAssumption DEF Hub
<1> QED BY <1>1, FS_CardinalityType, FS_EmptySet

(* What a step of the gateways is to Redis.                                   *)
LEMMA StepRefines ==
    Bookkeeping /\ [BroadcastNext]_broadcastVars => [PresenceNext]_presenceVars
<1> SUFFICES ASSUME Bookkeeping, [BroadcastNext]_broadcastVars PROVE [PresenceNext]_presenceVars
  OBVIOUS
<1>0. \A i \in Gateways : Now(i) \in Readings
  BY NowIsAReading
<1>1. ASSUME NEW c \in Conns, UNCHANGED clock,
             \/ Enter(c, Now(HostOf[c]), Now(HostOf[c]) + Timeout)
             \/ Heartbeat(c, Now(HostOf[c]), Now(HostOf[c]) + Timeout)
             \/ Leave(c, Now(HostOf[c]))
      PROVE  PresenceNext
  <2>1. Now(HostOf[c]) \in Readings
    BY <1>0, BroadcastAssumption DEF BroadcastAssumption
  <2> QED BY <1>1, <2>1 DEF PresenceNext, Script
<1>2. ASSUME NEW c \in Conns,
             \/ Arrive(c) \/ ConnStep(c) \/ EnterFails(c) \/ Beat(c) \/ BeatFails(c)
                 \/ CloseConn(c) \/ LeaveFails(c)
      PROVE  [PresenceNext]_presenceVars
  BY <1>1, <1>2 DEF ConnStep, Arrive, EnterRoom, EnterFails, Announce, Beat, BeatFails, CloseConn, LeaveRoom,
     LeaveFails, presenceVars
<1>3. ASSUME NEW i \in Gateways,
             Cleanup(i) \/ CleanupFails(i) \/ AnnounceCleanup(i) \/ Hear(i) \/ FlushOnlineEvents(i) \/ Crash(i)
      PROVE  [PresenceNext]_presenceVars
  <2>1. CASE Cleanup(i) \/ CleanupFails(i)
    <3>1. CleanupRoom(Now(i), Cardinality(Conns)) /\ UNCHANGED clock
      BY <2>1 DEF Cleanup, CleanupFails
    <3>2. Cardinality(Conns) \in 1..Cardinality(Conns)
      BY <2>1, LimitIsLegal DEF Cleanup, CleanupFails
    <3> QED BY <1>0, <3>1, <3>2 DEF PresenceNext, Script
  <2>2. CASE FlushOnlineEvents(i)
    BY <1>0, <2>2 DEF FlushOnlineEvents, PresenceNext, Script, presenceVars
  <2>3. CASE AnnounceCleanup(i) \/ Hear(i) \/ Crash(i)
    BY <2>3 DEF AnnounceCleanup, Hear, Crash, presenceVars
  <2> QED BY <1>3, <2>1, <2>2, <2>3
<1> QED BY <1>2, <1>3 DEF BroadcastNext, PresenceNext, broadcastVars, presenceVars

(* The gateways implement OnlinePresence: whatever their connections, tickers *)
(* and failures do to Redis is a script run, a key that expires or nothing.   *)
THEOREM BroadcastRefinesPresence == BroadcastSpec => PresenceSpec
<1>1. BroadcastInit => PresenceInit
  BY DEF BroadcastInit
<1> QED BY <1>1, BookkeepingHolds, StepRefines, PTL DEF BroadcastSpec, PresenceSpec

(* So nobody is counted who is not there, and nobody missing who is, however  *)
(* many instances share the room.                                             *)
THEOREM GatewaysCountedAreHere == BroadcastSpec => []CountedUsersAreHere
BY BroadcastRefinesPresence, CountedAreHere, PTL

(* The other direction, for the gateways.                                     *)
THEOREM GatewaysLiveAreCounted == BroadcastSpec => []LiveConnectionsCount
BY BroadcastRefinesPresence, LiveAreCounted, PTL

-----------------------------------------------------------------------------
(* A connection that Redis knows nothing of.                                  *)
Nowhere(c) == hash[c] = NoHash /\ conns[c] = 0 /\ \A u \in Users : c \notin members[u]
Away == {"idle", "added", "left", "gone"}

(* recompute_identity adds nothing to what a script hands it.                 *)
LEMMA RecomputeForgets ==
    ASSUME NEW c \in Conns, NEW U, NEW cand, NEW h, NEW z, NEW us, NEW now,
           h[c] = NoHash, z[c] = 0, \A u \in Users : c \notin cand[u],
           Recompute(U, cand, h, z, us, now)
    PROVE  Nowhere(c)'
<1>1. /\ members' = Kept(U, cand, h, now)
      /\ conns' = [d \in Conns |-> IF d \in Dropped(U, cand, h, now) THEN 0 ELSE z[d]]
      /\ hash' = [d \in Conns |-> IF d \in Dropped(U, cand, h, now) /\ h[d].expire <= now
                                  THEN NoHash ELSE h[d]]
  BY DEF Recompute
<1>2. \A u \in Users : members'[u] \subseteq cand[u]
  BY <1>1 DEF Kept, Effective
<1> QED BY <1>1, <1>2 DEF Nowhere

(* No script run for another connection, no cleanup and no read of the counts *)
(* brings a connection back.                                                  *)
LEMMA OthersForget ==
    ASSUME PresenceTypeOK, NEW c \in Conns, Nowhere(c), NEW now, NEW expire,
           \/ \E d \in Conns \ {c} : Enter(d, now, expire) \/ Heartbeat(d, now, expire) \/ Leave(d, now)
           \/ \E limit \in Nat : CleanupRoom(now, limit)
           \/ GetStats(now) \/ KeysExpire
    PROVE  Nowhere(c)'
<1> USE DEF PresenceTypeOK, Nowhere
<1>0. Later(conns, now)[c] = 0
  BY DEF Later
<1>1. ASSUME NEW d \in Conns \ {c}, Enter(d, now, expire) PROVE Nowhere(c)'
  <2> DEFINE u == OwnerOf[d]
             cand == [members EXCEPT ![u] = @ \cup {d}]
             h == [hash EXCEPT ![d] = [owner |-> u, expire |-> expire]]
             z == [Later(conns, now) EXCEPT ![d] = expire]
  <2>1. Recompute({u}, cand, h, z, Later(users, now), now)
    BY <1>1 DEF Enter
  <2>2. h[c] = NoHash /\ z[c] = 0 /\ \A v \in Users : c \notin cand[v]
    BY <1>0 DEF Later
  <2> HIDE DEF cand, h, z, u, Nowhere
  <2> QED BY <2>1, <2>2, RecomputeForgets
<1>2. ASSUME NEW d \in Conns \ {c}, Heartbeat(d, now, expire) PROVE Nowhere(c)'
  <2>1. CASE hash[d].owner = OwnerOf[d]
    BY <1>1, <1>2, <2>1 DEF Heartbeat
  <2>2. CASE hash[d].owner # OwnerOf[d]
    <3>1. Recompute({OwnerOf[d]}, members, hash, Later(conns, now), Later(users, now), now)
      BY <1>2, <2>2 DEF Heartbeat
    <3> QED BY <1>0, <3>1, RecomputeForgets
  <2> QED BY <2>1, <2>2
<1>3. ASSUME NEW d \in Conns \ {c}, Leave(d, now) PROVE Nowhere(c)'
  <2> DEFINE u == OwnerOf[d]
             cand == [members EXCEPT ![u] = @ \ {d}]
             h == [hash EXCEPT ![d] = NoHash]
             z == [Later(conns, now) EXCEPT ![d] = 0]
  <2>1. Recompute({u}, cand, h, z, Later(users, now), now)
    BY <1>3 DEF Leave
  <2>2. h[c] = NoHash /\ z[c] = 0 /\ \A v \in Users : c \notin cand[v]
    BY <1>0 DEF Later
  <2> HIDE DEF cand, h, z, u, Nowhere
  <2> QED BY <2>1, <2>2, RecomputeForgets
<1>4. ASSUME NEW limit \in Nat, CleanupRoom(now, limit) PROVE Nowhere(c)'
  <2>1. PICK B \in Batches(now, limit) :
        Recompute({u \in Users : \E d \in B : hash[d].owner = u},
                  [u \in Users |-> members[u] \ {d \in B : hash[d].owner = u}],
                  [d \in Conns |-> IF d \in B THEN NoHash ELSE hash[d]],
                  [d \in Conns |-> IF d \in B THEN 0 ELSE conns[d]], Later(users, now), now)
    BY <1>4 DEF CleanupRoom
  <2> DEFINE cand == [u \in Users |-> members[u] \ {d \in B : hash[d].owner = u}]
             h == [d \in Conns |-> IF d \in B THEN NoHash ELSE hash[d]]
             z == [d \in Conns |-> IF d \in B THEN 0 ELSE conns[d]]
  <2>2. h[c] = NoHash /\ z[c] = 0 /\ \A v \in Users : c \notin cand[v]
    OBVIOUS
  <2> HIDE DEF cand, h, z, Nowhere
  <2> QED BY <2>1, <2>2, RecomputeForgets DEF cand, h, z
<1>5. CASE GetStats(now)
  BY <1>0, <1>5 DEF GetStats
<1>6. CASE KeysExpire
  BY <1>6 DEF KeysExpire, HashExpires, MembersExpire
<1> QED BY <1>1, <1>2, <1>3, <1>4, <1>5, <1>6

(* leaveScript removes its connection from every structure: by MembersOwned   *)
(* it is in no set but its own identity's.                                    *)
LEMMA LeaverIsForgotten ==
    ASSUME PresenceInv, NEW c \in Conns, NEW now, Leave(c, now)
    PROVE  Nowhere(c)'
<1> DEFINE u == OwnerOf[c]
           cand == [members EXCEPT ![u] = @ \ {c}]
           h == [hash EXCEPT ![c] = NoHash]
           z == [Later(conns, now) EXCEPT ![c] = 0]
<1>1. Recompute({u}, cand, h, z, Later(users, now), now)
  BY DEF Leave
<1>2. u \in Users
  BY PresenceAssumption
<1>3. h[c] = NoHash /\ z[c] = 0
  BY DEF PresenceInv, PresenceTypeOK, Later
<1>4. \A v \in Users : c \notin cand[v]
  BY <1>2 DEF PresenceInv, PresenceTypeOK, MembersOwned
<1> HIDE DEF cand, h, z, u
<1> QED BY <1>1, <1>3, <1>4, RecomputeForgets

(* What the gateways keep: their connections that are away are nowhere.       *)
Forgotten == \A c \in Conns : phase[c] \in Away => Nowhere(c)

LEMMA ForgottenNext ==
    PresenceInv /\ Bookkeeping /\ Forgotten /\ [BroadcastNext]_broadcastVars => Forgotten'
<1> SUFFICES ASSUME PresenceInv, Bookkeeping, Forgotten, [BroadcastNext]_broadcastVars,
                    NEW c \in Conns, phase'[c] \in Away
             PROVE  Nowhere(c)'
  BY DEF Forgotten
<1> USE DEF Bookkeeping, Away
<1>0. PresenceTypeOK
  BY DEF PresenceInv
<1>1. ASSUME phase[c] \in Away, UNCHANGED presence PROVE Nowhere(c)'
  BY <1>1 DEF Forgotten, Nowhere, presence
<1>2. ASSUME NEW d \in Conns,
             \/ Arrive(d) \/ ConnStep(d) \/ EnterFails(d) \/ Beat(d) \/ BeatFails(d)
                 \/ CloseConn(d) \/ LeaveFails(d)
      PROVE  Nowhere(c)'
  <2>1. CASE Arrive(d) \/ Announce(d) \/ CloseConn(d)
    <3>1. phase[c] \in Away /\ UNCHANGED presence
      BY <2>1 DEF Arrive, Announce, CloseConn, presenceVars
    <3> QED BY <1>1, <3>1
  <2>2. CASE EnterRoom(d) \/ EnterFails(d) \/ Beat(d) \/ BeatFails(d)
    <3>1. phase[c] \in Away /\ (c # d \/ UNCHANGED presence)
      BY <2>2 DEF EnterRoom, EnterFails, Beat, BeatFails
    <3>2. UNCHANGED presence \/ Enter(d, Now(HostOf[d]), Now(HostOf[d]) + Timeout) \/ Heartbeat(d, Now(HostOf[d]), Now(HostOf[d]) + Timeout)
      BY <2>2 DEF EnterRoom, EnterFails, Beat, BeatFails
    <3> QED BY <1>0, <1>1, <3>1, <3>2, OthersForget DEF Forgotten
  <2>3. CASE (LeaveRoom(d) \/ LeaveFails(d)) /\ c = d
    <3>1. Leave(d, Now(HostOf[d]))
      BY <2>3 DEF LeaveRoom, LeaveFails
    <3> QED BY <2>3, <3>1, LeaverIsForgotten
  <2>4. CASE (LeaveRoom(d) \/ LeaveFails(d)) /\ c # d
    <3>1. phase[c] \in Away /\ (UNCHANGED presence \/ Leave(d, Now(HostOf[d])))
      BY <2>4 DEF LeaveRoom, LeaveFails
    <3> QED BY <1>0, <1>1, <2>4, <3>1, OthersForget DEF Forgotten
  <2> QED BY <1>2, <2>1, <2>2, <2>3, <2>4 DEF ConnStep
<1>3. ASSUME NEW i \in Gateways,
             Cleanup(i) \/ CleanupFails(i) \/ AnnounceCleanup(i) \/ Hear(i) \/ FlushOnlineEvents(i) \/ Crash(i)
      PROVE  Nowhere(c)'
  <2>1. phase[c] \in Away
    BY <1>3 DEF Cleanup, CleanupFails, AnnounceCleanup, Hear, FlushOnlineEvents, Crash
  <2>2. UNCHANGED presence \/ GetStats(Now(i)) \/ CleanupRoom(Now(i), Cardinality(Conns))
    BY <1>3 DEF Cleanup, CleanupFails, AnnounceCleanup, Hear, FlushOnlineEvents, Crash, presenceVars
  <2>3. Cardinality(Conns) \in Nat
    BY PresenceAssumption, FS_CardinalityType
  <2> QED BY <1>0, <1>1, <2>1, <2>2, <2>3, OthersForget DEF Forgotten
<1>4. CASE KeysExpire /\ UNCHANGED <<clock, gateway>>
  <2>1. phase[c] \in Away
    BY <1>4 DEF gateway
  <2> QED BY <1>0, <1>4, <2>1, OthersForget DEF Forgotten
<1>5. CASE Tick /\ UNCHANGED <<presence, gateway>>
  BY <1>1, <1>5 DEF gateway
<1>6. CASE UNCHANGED broadcastVars
  BY <1>1, <1>6 DEF broadcastVars, presenceVars, gateway
<1> QED BY <1>2, <1>3, <1>4, <1>5, <1>6 DEF BroadcastNext

(* A connection that left is in no structure of Redis, for good.              *)
THEOREM LeaversAreForgotten == BroadcastSpec => []LeftIsForgotten
<1>1. BroadcastInit => Forgotten
  BY DEF BroadcastInit, PresenceInit, Forgotten, Nowhere
<1>2. Forgotten => LeftIsForgotten
  BY DEF Forgotten, LeftIsForgotten, Nowhere, Away
<1> QED BY <1>1, <1>2, ForgottenNext, BookkeepingHolds, BroadcastRefinesPresence,
           PresenceInvariant, PTL DEF BroadcastSpec

-----------------------------------------------------------------------------
(* What a client is told: no more users than there are, and no more           *)
(* connections.                                                               *)
LEMMA SizeIsBounded ==
    ASSUME NEW S, IsFiniteSet(S), NEW scores, DOMAIN scores = S
    PROVE  Size(scores) \in 0..Cardinality(S)
<1>1. {x \in DOMAIN scores : scores[x] > 0} \subseteq S
  OBVIOUS
<1> QED BY <1>1, FS_Subset, FS_CardinalityType DEF Size

LEMMA CountsAreCounts ==
    ASSUME PresenceTypeOK' PROVE Counts' \in CountsType
<1>1. Size(users') \in 0..Cardinality(Users) /\ Size(conns') \in 0..Cardinality(Conns)
  BY PresenceAssumption, BroadcastAssumption, SizeIsBounded DEF PresenceTypeOK, BroadcastAssumption
<1> QED BY <1>1 DEF Counts, CountsType

(* What the instances keep in memory. *)
InstancesTypeOK ==
    /\ swept \in [Gateways -> BOOLEAN] /\ pending \in [Gateways -> BOOLEAN]
    /\ news \in [Gateways -> 0..MaxNews]
    /\ last \in [Gateways -> CountsType \cup {Nothing}]
    /\ faults \in 0..MaxFaults /\ untold \in {"none", "prune", "failure"}

LEMMA InstancesTypeOKNext ==
    ASSUME PresenceTypeOK', InstancesTypeOK, [BroadcastNext]_broadcastVars
    PROVE  InstancesTypeOK'
<1> USE BroadcastAssumption
<1>1. Fails => faults' \in 0..MaxFaults
  BY DEF Fails, InstancesTypeOK, BroadcastAssumption
<1>2. \A why \in {"none", "prune", "failure"} : Untold(why) => untold' \in {"none", "prune", "failure"}
  BY DEF Untold, InstancesTypeOK
<1>3. ASSUME NEW i \in Gateways, Publish(i)
      PROVE  /\ pending' \in [Gateways -> BOOLEAN] /\ news' \in [Gateways -> 0..MaxNews]
             /\ faults' \in 0..MaxFaults /\ untold' \in {"none", "prune", "failure"}
  <2>1. pending' \in [Gateways -> BOOLEAN]
    BY <1>3 DEF Publish, InstancesTypeOK
  <2>2. news' \in [Gateways -> 0..MaxNews]
    BY <1>3 DEF Publish, InstancesTypeOK, BroadcastAssumption
  <2>3. faults' \in 0..MaxFaults /\ untold' \in {"none", "prune", "failure"}
    BY <1>1, <1>2, <1>3 DEF Publish, InstancesTypeOK
  <2> QED BY <2>1, <2>2, <2>3
<1>4. ASSUME UNCHANGED <<swept, pending, news, last>>,
             UNCHANGED faults \/ Fails, UNCHANGED untold \/ Untold("failure")
      PROVE  InstancesTypeOK'
  BY <1>1, <1>2, <1>4 DEF InstancesTypeOK
<1>5. ASSUME NEW c \in Conns,
             \/ Arrive(c) \/ EnterRoom(c) \/ LeaveRoom(c) \/ EnterFails(c) \/ Beat(c) \/ BeatFails(c)
             \/ CloseConn(c) \/ LeaveFails(c)
      PROVE  InstancesTypeOK'
  BY <1>4, <1>5 DEF Arrive, EnterRoom, LeaveRoom, EnterFails, Beat, BeatFails, CloseConn, LeaveFails
<1>6. ASSUME NEW c \in Conns, Announce(c)
      PROVE  InstancesTypeOK'
  <2>1. HostOf[c] \in Gateways /\ Publish(HostOf[c]) /\ UNCHANGED <<swept, last>>
    BY <1>6 DEF Announce, BroadcastAssumption
  <2> QED BY <1>3, <2>1 DEF InstancesTypeOK
<1>7. ASSUME NEW i \in Gateways, Cleanup(i)
      PROVE  InstancesTypeOK'
  <2>1. swept' = [swept EXCEPT ![i] = Changed] /\ UNCHANGED <<pending, news, last, faults, untold>>
    BY <1>7 DEF Cleanup
  <2>2. Changed \in BOOLEAN
    BY DEF Changed
  <2> HIDE DEF Changed
  <2> QED BY <2>1, <2>2 DEF InstancesTypeOK
<1>8. ASSUME NEW i \in Gateways, CleanupFails(i)
      PROVE  InstancesTypeOK'
  BY <1>4, <1>8 DEF CleanupFails
<1>9. ASSUME NEW i \in Gateways, AnnounceCleanup(i)
      PROVE  InstancesTypeOK'
  <2>1. Publish(i) /\ swept' = [swept EXCEPT ![i] = FALSE] /\ UNCHANGED last
    BY <1>9 DEF AnnounceCleanup
  <2>2. swept' \in [Gateways -> BOOLEAN]
    BY <2>1 DEF InstancesTypeOK
  <2> QED BY <1>3, <2>1, <2>2 DEF InstancesTypeOK
<1>10. ASSUME NEW i \in Gateways, Hear(i)
       PROVE  InstancesTypeOK'
  <2>1. news' \in [Gateways -> 0..MaxNews] /\ pending' \in [Gateways -> BOOLEAN]
    BY <1>10 DEF Hear, InstancesTypeOK, BroadcastAssumption
  <2> QED BY <1>10, <2>1 DEF Hear, InstancesTypeOK
<1>11. ASSUME NEW i \in Gateways, FlushOnlineEvents(i)
       PROVE  InstancesTypeOK'
  <2>1. /\ pending' = [pending EXCEPT ![i] = FALSE] /\ UNCHANGED <<clock, swept, news>>
        /\ \/ last' = [last EXCEPT ![i] = Counts'] /\ UNCHANGED faults
              /\ (Untold("prune") \/ UNCHANGED untold)
           \/ Fails /\ Untold("failure") /\ \E old \in CountsType : last' = [last EXCEPT ![i] = old]
    BY <1>11 DEF FlushOnlineEvents
  <2>2. pending' \in [Gateways -> BOOLEAN]
    BY <2>1 DEF InstancesTypeOK
  <2>3. \E counts \in CountsType : last' = [last EXCEPT ![i] = counts]
    <3>1. Counts' \in CountsType
      BY CountsAreCounts
    <3> QED BY <2>1, <3>1
  <2>4. last' \in [Gateways -> CountsType \cup {Nothing}]
    BY <2>3 DEF InstancesTypeOK
  <2>5. faults' \in 0..MaxFaults /\ untold' \in {"none", "prune", "failure"}
    BY <1>1, <1>2, <2>1 DEF InstancesTypeOK
  <2> QED BY <2>1, <2>2, <2>4, <2>5 DEF InstancesTypeOK
<1>12. ASSUME NEW i \in Gateways, Crash(i)
       PROVE  InstancesTypeOK'
  <2>1. /\ swept' = [swept EXCEPT ![i] = FALSE] /\ pending' = [pending EXCEPT ![i] = FALSE]
        /\ news' = [news EXCEPT ![i] = 0] /\ last' = [last EXCEPT ![i] = Nothing]
        /\ Fails /\ (Untold("failure") \/ UNCHANGED untold)
    BY <1>12 DEF Crash
  <2>2. swept' \in [Gateways -> BOOLEAN] /\ pending' \in [Gateways -> BOOLEAN]
    BY <2>1 DEF InstancesTypeOK
  <2>3. news' \in [Gateways -> 0..MaxNews] /\ last' \in [Gateways -> CountsType \cup {Nothing}]
    BY <2>1 DEF InstancesTypeOK, BroadcastAssumption
  <2>4. faults' \in 0..MaxFaults /\ untold' \in {"none", "prune", "failure"}
    BY <1>1, <1>2, <2>1 DEF InstancesTypeOK
  <2> QED BY <2>2, <2>3, <2>4 DEF InstancesTypeOK
<1>13. ASSUME UNCHANGED gateway
       PROVE  InstancesTypeOK'
  BY <1>13 DEF gateway, InstancesTypeOK
<1> QED BY <1>5, <1>6, <1>7, <1>8, <1>9, <1>10, <1>11, <1>12, <1>13 DEF BroadcastNext, ConnStep, broadcastVars

(* What an instance sent its clients last, what it owes them and what it      *)
(* holds of every connection is of its type, whatever clocks the instances    *)
(* hand to the scripts.                                                       *)
THEOREM BroadcastTyped == BroadcastSpec => []BroadcastTypeOK
<1>1. BroadcastInit => InstancesTypeOK
  BY BroadcastAssumption DEF BroadcastInit, InstancesTypeOK, BroadcastAssumption
<1>2. PresenceTypeOK' /\ InstancesTypeOK /\ [BroadcastNext]_broadcastVars => InstancesTypeOK'
  BY InstancesTypeOKNext
<1>3. PresenceInv /\ Bookkeeping /\ InstancesTypeOK => BroadcastTypeOK
  BY DEF PresenceInv, Bookkeeping, InstancesTypeOK, BroadcastTypeOK
<1>4. PresenceInv => PresenceTypeOK
  BY DEF PresenceInv
<1> QED BY <1>1, <1>2, <1>3, <1>4, BookkeepingHolds, BroadcastRefinesPresence, PresenceInvariant, PTL DEF BroadcastSpec
=============================================================================
