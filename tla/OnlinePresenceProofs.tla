------------------------ MODULE OnlinePresenceProofs ------------------------
(* Proofs about OnlinePresence, for any number of connections and identities, *)
(* any timeout, any clock skew and any length of run.                         *)
EXTENDS OnlinePresence, TLAPS

-----------------------------------------------------------------------------
(* The inductive invariant: ownership is what the two counting properties     *)
(* need of each other, for a script recomputes one identity and trusts that   *)
(* no other identity's connection is among its candidates.                    *)
HashOwned == \A c \in Conns : hash[c].owner \in {NoOwner, OwnerOf[c]}
MembersOwned == \A u \in Users : \A c \in members[u] : OwnerOf[c] = u

PresenceInv ==
    /\ PresenceTypeOK /\ HashOwned /\ MembersOwned
    /\ CountedUsersAreHere /\ LiveConnectionsCount

Hashes == [Conns -> [owner : Users \cup {NoOwner}, expire : Nat]]

(* What a script hands to recompute_identity: as PresenceInv, except that the *)
(* identities of U have no score yet.                                         *)
Between(U, cand, h, z, us) ==
    /\ U \subseteq Users
    /\ cand \in [Users -> SUBSET Conns] /\ h \in Hashes
    /\ z \in [Conns -> Nat] /\ us \in [Users -> Nat]
    /\ \A c \in Conns : h[c].owner \in {NoOwner, OwnerOf[c]}
    /\ \A u \in Users : \A c \in cand[u] : OwnerOf[c] = u
    /\ \A u \in Users \ U : us[u] > Horizon =>
         \E c \in cand[u] : h[c].owner = u /\ h[c].expire = us[u] /\ z[c] = us[u]
    /\ \A c \in Conns : h[c].expire > Horizon =>
         /\ z[c] = h[c].expire
         /\ h[c].owner = OwnerOf[c] /\ c \in cand[OwnerOf[c]]
         /\ OwnerOf[c] \in U \/ us[OwnerOf[c]] >= h[c].expire

-----------------------------------------------------------------------------
(* A reading a script is handed lies within the horizon.                      *)
LEMMA ReadingsBounded ==
    ASSUME PresenceTypeOK, NEW now \in Readings
    PROVE  now \in Nat /\ Horizon \in Nat /\ now <= Horizon
BY PresenceAssumption DEF PresenceTypeOK, Readings, Horizon

(* recompute_identity restores the invariant from what the scripts hand it.   *)
LEMMA RecomputeKeeps ==
    ASSUME PresenceTypeOK, NEW now \in Readings,
           NEW U, NEW cand, NEW h, NEW z, NEW us,
           Between(U, cand, h, z, us),
           Recompute(U, cand, h, z, us, now), UNCHANGED clock
    PROVE  PresenceInv'
<1> DEFINE drop == Dropped(U, cand, h, now)
           eff(u) == Effective(u, cand[u], h, now)
<1> USE PresenceAssumption
<1>0. now \in Nat /\ Horizon \in Nat /\ now <= Horizon /\ Horizon' = Horizon
  BY ReadingsBounded DEF Horizon
<1>1. PICK score \in [U -> {0} \cup {h[c].expire : c \in Conns}] :
        /\ \A u \in U : IsHighest(score[u], eff(u), h)
        /\ users' = [u \in Users |-> IF u \in U THEN score[u] ELSE us[u]]
  BY DEF Recompute
<1>2. /\ members' = Kept(U, cand, h, now)
      /\ conns' = [c \in Conns |-> IF c \in drop THEN 0 ELSE z[c]]
      /\ hash' = [c \in Conns |-> IF c \in drop /\ h[c].expire <= now THEN NoHash ELSE h[c]]
  BY DEF Recompute
<1>3. /\ \A u \in U : eff(u) \subseteq cand[u]
      /\ \A u \in U : \A c \in eff(u) : c \in Conns /\ h[c].owner = u /\ h[c].expire > now
      /\ \A u \in U : \A c \in cand[u] : h[c].owner = u /\ h[c].expire > now => c \in eff(u)
  BY DEF Effective, Between
<1>4. \A c \in drop : OwnerOf[c] \in U /\ c \in cand[OwnerOf[c]] /\ c \notin eff(OwnerOf[c])
  <2> TAKE c \in drop
  <2>1. PICK u \in U : c \in cand[u] /\ c \notin eff(u)
    BY DEF Dropped
  <2>2. OwnerOf[c] = u
    BY <2>1 DEF Between
  <2> QED BY <2>1, <2>2
<1>5. \A u \in Users : members'[u] = IF u \in U THEN eff(u) ELSE cand[u]
  BY <1>2 DEF Kept
<1>6. PresenceTypeOK'
  <2>1. U \subseteq Users /\ cand \in [Users -> SUBSET Conns] /\ h \in Hashes
        /\ z \in [Conns -> Nat] /\ us \in [Users -> Nat]
    BY DEF Between
  <2>2. hash' \in Hashes
    BY <1>2, <2>1 DEF Hashes, NoHash
  <2>3. conns' \in [Conns -> Nat]
    BY <1>2, <2>1
  <2>4. members' \in [Users -> SUBSET Conns]
    BY <1>2, <1>3, <2>1 DEF Kept
  <2>5. \A u \in U : score[u] \in Nat
    BY <2>1, <1>1 DEF Hashes
  <2>6. users' \in [Users -> Nat]
    BY <1>1, <2>5, <2>1
  <2> QED BY <2>2, <2>3, <2>4, <2>6 DEF PresenceTypeOK, Hashes
<1>7. HashOwned'
  BY <1>2 DEF HashOwned, NoHash, Between
<1>8. MembersOwned'
  BY <1>5, <1>3 DEF MembersOwned, Between
<1>9. CountedUsersAreHere'
  <2> SUFFICES ASSUME NEW u \in Users, users'[u] > Horizon
               PROVE  \E c \in members'[u] :
                        hash'[c].owner = u /\ hash'[c].expire = users'[u] /\ conns'[c] = users'[u]
    BY <1>0 DEF CountedUsersAreHere
  <2>1. CASE u \in U
    <3>1. users'[u] = score[u] /\ score[u] > Horizon
      BY <1>1, <2>1
    <3>2. PICK c \in eff(u) : h[c].expire = score[u]
      BY <1>0, <1>1, <3>1, <2>1 DEF IsHighest
    <3>3. c \in Conns /\ c \in cand[u] /\ OwnerOf[c] = u /\ h[c].owner = u
      BY <1>3, <2>1, <3>2 DEF Between
    <3>4. c \notin drop
      BY <1>4, <3>2, <3>3
    <3>5. z[c] = h[c].expire
      BY <3>1, <3>2, <3>3 DEF Between
    <3> QED BY <1>2, <1>5, <2>1, <3>1, <3>2, <3>3, <3>4, <3>5
  <2>2. CASE u \notin U
    <3>1. users'[u] = us[u]
      BY <1>1, <2>2
    <3>2. PICK c \in cand[u] : h[c].owner = u /\ h[c].expire = us[u] /\ z[c] = us[u]
      BY <2>2, <3>1 DEF Between
    <3>3. c \in Conns /\ OwnerOf[c] = u
      BY <3>2 DEF Between
    <3>4. c \notin drop
      BY <1>4, <3>3, <2>2
    <3> QED BY <1>2, <1>5, <2>2, <3>1, <3>2, <3>3, <3>4
  <2> QED BY <2>1, <2>2
<1>10. LiveConnectionsCount'
  <2> SUFFICES ASSUME NEW c \in Conns, hash'[c].expire > Horizon
               PROVE  /\ conns'[c] = hash'[c].expire
                      /\ hash'[c].owner = OwnerOf[c] /\ c \in members'[OwnerOf[c]]
                      /\ users'[OwnerOf[c]] >= hash'[c].expire
    BY <1>0 DEF LiveConnectionsCount
  <2> DEFINE o == OwnerOf[c]
  <2>1. hash'[c] = h[c] /\ h[c].expire > Horizon /\ h[c].expire > now /\ h[c].expire \in Nat
    BY <1>0, <1>2 DEF NoHash, Between, Hashes
  <2>2. z[c] = h[c].expire /\ h[c].owner = o /\ c \in cand[o] /\ o \in Users
        /\ (o \in U \/ us[o] >= h[c].expire)
    BY <2>1 DEF Between
  <2>3. c \notin drop
    BY <1>3, <1>4, <2>1, <2>2
  <2>4. conns'[c] = h[c].expire
    BY <1>2, <2>2, <2>3
  <2>5. CASE o \in U
    <3>1. c \in eff(o)
      BY <1>3, <2>1, <2>2, <2>5
    <3>2. score[o] >= h[c].expire
      <4>1. IsHighest(score[o], eff(o), h) /\ score[o] \in {0} \cup {h[d].expire : d \in Conns}
        BY <1>1, <2>5
      <4>2. score[o] \in Nat
        BY <4>1 DEF Between, Hashes
      <4>3. h[c].expire <= score[o]
        BY <4>1, <3>1 DEF IsHighest
      <4> QED BY <4>2, <4>3, <2>1
    <3>3. users'[o] = score[o]
      BY <1>1, <2>2, <2>5
    <3> QED BY <1>5, <2>1, <2>2, <2>4, <2>5, <3>1, <3>2, <3>3
  <2>6. CASE o \notin U
    BY <1>1, <1>5, <2>1, <2>2, <2>4, <2>6
  <2> QED BY <2>5, <2>6
<1> QED BY <1>6, <1>7, <1>8, <1>9, <1>10 DEF PresenceInv

-----------------------------------------------------------------------------
(* Every script hands recompute_identity such a state. *)

(* enterScript, and heartbeatScript of a connection that is still known.      *)
LEMMA EnterKeeps ==
    ASSUME PresenceInv, NEW now \in Readings, NEW c \in Conns,
           Enter(c, now, now + Timeout), UNCHANGED clock
    PROVE  PresenceInv'
<1> DEFINE o == OwnerOf[c]
           cand == [members EXCEPT ![o] = @ \cup {c}]
           h == [hash EXCEPT ![c] = [owner |-> o, expire |-> now + Timeout]]
           z == [Later(conns, now) EXCEPT ![c] = now + Timeout]
           us == Later(users, now)
<1> USE PresenceAssumption
<1>0. PresenceTypeOK /\ now \in Nat /\ Horizon \in Nat /\ now <= Horizon
  BY ReadingsBounded DEF PresenceInv
<1>1. Recompute({o}, cand, h, z, us, now)
  BY DEF Enter
<1>2. /\ o \in Users /\ now + Timeout \in Nat
      /\ cand \in [Users -> SUBSET Conns] /\ h \in Hashes
      /\ z \in [Conns -> Nat] /\ us \in [Users -> Nat]
  BY <1>0 DEF PresenceTypeOK, Hashes, Later
<1>3. /\ h[c] = [owner |-> o, expire |-> now + Timeout] /\ z[c] = now + Timeout
      /\ \A d \in Conns \ {c} :
            h[d] = hash[d] /\ z[d] = IF conns[d] > now THEN conns[d] ELSE 0
      /\ \A u \in Users \ {o} : cand[u] = members[u]
      /\ cand[o] = members[o] \cup {c}
      /\ \A u \in Users : us[u] = IF users[u] > now THEN users[u] ELSE 0
  BY <1>0, <1>2 DEF PresenceTypeOK, Later
<1>4. \A d \in Conns : h[d].owner \in {NoOwner, OwnerOf[d]}
  BY <1>3 DEF PresenceInv, HashOwned
<1>5. \A u \in Users : \A d \in cand[u] : OwnerOf[d] = u
  BY <1>3 DEF PresenceInv, MembersOwned
<1>6. ASSUME NEW u \in Users \ {o}, us[u] > Horizon
      PROVE  \E d \in cand[u] : h[d].owner = u /\ h[d].expire = us[u] /\ z[d] = us[u]
  <2>1. users[u] > Horizon /\ us[u] = users[u]
    BY <1>0, <1>3, <1>6 DEF PresenceTypeOK
  <2>2. PICK d \in members[u] :
            hash[d].owner = u /\ hash[d].expire = users[u] /\ conns[d] = users[u]
    BY <2>1 DEF PresenceInv, CountedUsersAreHere
  <2>3. d \in Conns \ {c} /\ conns[d] > now
    BY <1>0, <2>1, <2>2 DEF PresenceInv, MembersOwned, PresenceTypeOK
  <2> QED BY <1>3, <2>1, <2>2, <2>3
<1>7. ASSUME NEW d \in Conns, h[d].expire > Horizon
      PROVE  /\ z[d] = h[d].expire
             /\ h[d].owner = OwnerOf[d] /\ d \in cand[OwnerOf[d]]
             /\ OwnerOf[d] \in {o} \/ us[OwnerOf[d]] >= h[d].expire
  <2>1. CASE d = c
    BY <1>2, <1>3, <2>1
  <2>2. CASE d # c
    <3>1. hash[d].expire > Horizon /\ h[d] = hash[d] /\ OwnerOf[d] \in Users
      BY <1>3, <1>7, <2>2
    <3>2. /\ conns[d] = hash[d].expire
          /\ hash[d].owner = OwnerOf[d] /\ d \in members[OwnerOf[d]]
          /\ users[OwnerOf[d]] >= hash[d].expire
      BY <3>1 DEF PresenceInv, LiveConnectionsCount
    <3>3. conns[d] > now /\ users[OwnerOf[d]] > now
      BY <1>0, <3>1, <3>2 DEF PresenceTypeOK
    <3> QED BY <1>3, <2>2, <3>1, <3>2, <3>3
  <2> QED BY <2>1, <2>2
<1>8. Between({o}, cand, h, z, us)
  BY <1>2, <1>4, <1>5, <1>6, <1>7 DEF Between
<1> HIDE DEF cand, h, z, us
<1> QED BY <1>0, <1>1, <1>8, RecomputeKeeps

(* A state with the connections S gone, all owned by identities of U or not   *)
(* live at all, and perhaps with what expired gone from the room.             *)
Without(S, U, cand, h, z, us, now) ==
    /\ U \subseteq Users /\ S \subseteq Conns
    /\ \A c \in S : OwnerOf[c] \in U \/ hash[c].expire <= Horizon
    /\ cand \in [Users -> SUBSET Conns]
    /\ \A u \in Users : cand[u] \subseteq members[u] /\ members[u] \ cand[u] \subseteq S
    /\ h = [c \in Conns |-> IF c \in S THEN NoHash ELSE hash[c]]
    /\ z \in [Conns -> Nat]
    /\ \A c \in Conns \ S : z[c] = conns[c] \/ conns[c] <= now
    /\ us = Later(users, now)

LEMMA WithoutKeeps ==
    ASSUME PresenceInv, NEW now \in Readings,
           NEW S, NEW U, NEW cand, NEW h, NEW z, NEW us,
           Without(S, U, cand, h, z, us, now),
           Recompute(U, cand, h, z, us, now), UNCHANGED clock
    PROVE  PresenceInv'
<1> USE PresenceAssumption
<1>0. PresenceTypeOK /\ now \in Nat /\ Horizon \in Nat /\ now <= Horizon
  BY ReadingsBounded DEF PresenceInv
<1>1. h \in Hashes /\ z \in [Conns -> Nat] /\ us \in [Users -> Nat]
  BY <1>0 DEF PresenceTypeOK, Hashes, NoHash, Later, Without
<1>2. \A u \in Users : us[u] = IF users[u] > now THEN users[u] ELSE 0
  BY <1>0 DEF PresenceTypeOK, Later, Without
<1>3. \A c \in Conns : h[c].owner \in {NoOwner, OwnerOf[c]}
  BY DEF PresenceInv, HashOwned, NoHash, Without
<1>4. \A u \in Users : \A c \in cand[u] : OwnerOf[c] = u
  BY DEF PresenceInv, MembersOwned, Without
<1>5. ASSUME NEW u \in Users \ U, us[u] > Horizon
      PROVE  \E c \in cand[u] : h[c].owner = u /\ h[c].expire = us[u] /\ z[c] = us[u]
  <2>1. users[u] > Horizon /\ us[u] = users[u]
    BY <1>0, <1>2, <1>5 DEF PresenceTypeOK
  <2>2. PICK c \in members[u] :
            hash[c].owner = u /\ hash[c].expire = users[u] /\ conns[c] = users[u]
    BY <2>1 DEF PresenceInv, CountedUsersAreHere
  <2>3. c \in Conns /\ OwnerOf[c] = u
    BY <1>0, <2>2 DEF PresenceInv, MembersOwned, PresenceTypeOK
  <2>4. c \notin S
    BY <1>0, <1>5, <2>1, <2>2, <2>3 DEF PresenceTypeOK, Without
  <2>5. c \in cand[u]
    BY <2>2, <2>4 DEF Without
  <2>6. conns[c] > now
    BY <1>0, <2>1, <2>2 DEF PresenceTypeOK
  <2> QED BY <1>0, <2>1, <2>2, <2>3, <2>4, <2>5, <2>6 DEF PresenceTypeOK, Without
<1>6. ASSUME NEW c \in Conns, h[c].expire > Horizon
      PROVE  /\ z[c] = h[c].expire
             /\ h[c].owner = OwnerOf[c] /\ c \in cand[OwnerOf[c]]
             /\ OwnerOf[c] \in U \/ us[OwnerOf[c]] >= h[c].expire
  <2>1. c \notin S /\ h[c] = hash[c] /\ hash[c].expire > Horizon /\ OwnerOf[c] \in Users
    BY <1>0, <1>6 DEF NoHash, Without
  <2>2. /\ conns[c] = hash[c].expire
        /\ hash[c].owner = OwnerOf[c] /\ c \in members[OwnerOf[c]]
        /\ users[OwnerOf[c]] >= hash[c].expire
    BY <2>1 DEF PresenceInv, LiveConnectionsCount
  <2>3. conns[c] > now /\ users[OwnerOf[c]] > now
    BY <1>0, <2>1, <2>2 DEF PresenceTypeOK
  <2>4. z[c] = conns[c] /\ us[OwnerOf[c]] = users[OwnerOf[c]]
    BY <1>0, <1>2, <2>1, <2>3 DEF PresenceTypeOK, Without
  <2> QED BY <2>1, <2>2, <2>4 DEF Without
<1>7. Between(U, cand, h, z, us)
  BY <1>1, <1>3, <1>4, <1>5, <1>6 DEF Between, Without
<1> QED BY <1>0, <1>7, RecomputeKeeps

(* leaveScript *)
LEMMA LeaveKeeps ==
    ASSUME PresenceInv, NEW now \in Readings, NEW c \in Conns, Leave(c, now), UNCHANGED clock
    PROVE  PresenceInv'
<1> USE PresenceAssumption
<1> DEFINE o == OwnerOf[c]
           cand == [members EXCEPT ![o] = @ \ {c}]
           h == [hash EXCEPT ![c] = NoHash]
           z == [Later(conns, now) EXCEPT ![c] = 0]
<1>1. PresenceTypeOK /\ now \in Nat
  BY ReadingsBounded DEF PresenceInv
<1>2. o \in Users
  OBVIOUS
<1>3. cand \in [Users -> SUBSET Conns]
      /\ \A u \in Users : cand[u] \subseteq members[u] /\ members[u] \ cand[u] \subseteq {c}
  BY <1>1, <1>2 DEF PresenceTypeOK
<1>4. h = [d \in Conns |-> IF d \in {c} THEN NoHash ELSE hash[d]]
  BY <1>1 DEF PresenceTypeOK
<1>5. z \in [Conns -> Nat] /\ \A d \in Conns \ {c} : z[d] = conns[d] \/ conns[d] <= now
  BY <1>1 DEF PresenceTypeOK, Later
<1>6. Recompute({o}, cand, h, z, Later(users, now), now)
  BY DEF Leave
<1>7. Without({c}, {o}, cand, h, z, Later(users, now), now)
  BY <1>2, <1>3, <1>4, <1>5 DEF Without
<1> HIDE DEF cand, h, z, o
<1> QED BY <1>6, <1>7, WithoutKeeps

(* heartbeatScript; once the hash is gone it only recomputes.                 *)
LEMMA HeartbeatKeeps ==
    ASSUME PresenceInv, NEW now \in Readings, NEW c \in Conns,
           Heartbeat(c, now, now + Timeout), UNCHANGED clock
    PROVE  PresenceInv'
<1> USE PresenceAssumption
<1>1. CASE hash[c].owner = OwnerOf[c]
  BY <1>1, EnterKeeps DEF Heartbeat
<1>2. CASE hash[c].owner # OwnerOf[c]
  <2>1. PresenceTypeOK
    BY DEF PresenceInv
  <2>2. Recompute({OwnerOf[c]}, members, hash, Later(conns, now), Later(users, now), now)
    BY <1>2 DEF Heartbeat
  <2>3. Without({}, {OwnerOf[c]}, members, hash, Later(conns, now), Later(users, now), now)
    BY <2>1, ReadingsBounded DEF PresenceTypeOK, Later, Without
  <2> QED BY <2>2, <2>3, WithoutKeeps
<1> QED BY <1>1, <1>2

(* cleanupRoomScript: what it takes from the room had expired.                *)
LEMMA CleanupKeeps ==
    ASSUME PresenceInv, NEW now \in Readings, NEW limit, CleanupRoom(now, limit), UNCHANGED clock
    PROVE  PresenceInv'
<1> USE PresenceAssumption
<1>0. PresenceTypeOK /\ now \in Nat /\ Horizon \in Nat /\ now <= Horizon
  BY ReadingsBounded DEF PresenceInv
<1> PICK B \in Batches(now, limit) :
        Recompute({u \in Users : \E c \in B : hash[c].owner = u},
                  [u \in Users |-> members[u] \ {c \in B : hash[c].owner = u}],
                  [c \in Conns |-> IF c \in B THEN NoHash ELSE hash[c]],
                  [c \in Conns |-> IF c \in B THEN 0 ELSE conns[c]], Later(users, now), now)
  BY DEF CleanupRoom
<1> DEFINE U == {u \in Users : \E c \in B : hash[c].owner = u}
           cand == [u \in Users |-> members[u] \ {c \in B : hash[c].owner = u}]
           h == [c \in Conns |-> IF c \in B THEN NoHash ELSE hash[c]]
           z == [c \in Conns |-> IF c \in B THEN 0 ELSE conns[c]]
<1>1. B \in SUBSET Conns /\ \A c \in B : conns[c] <= now
  BY DEF Batches, Expired
<1>2. \A c \in B : hash[c].expire <= Horizon
  BY <1>0, <1>1 DEF PresenceInv, LiveConnectionsCount, PresenceTypeOK
<1>3. cand \in [Users -> SUBSET Conns]
      /\ \A u \in Users : cand[u] \subseteq members[u] /\ members[u] \ cand[u] \subseteq B
  BY <1>0 DEF PresenceTypeOK
<1>4. z \in [Conns -> Nat] /\ \A c \in Conns \ B : z[c] = conns[c]
  BY <1>0 DEF PresenceTypeOK
<1>5. Without(B, U, cand, h, z, Later(users, now), now)
  <2>1. U \subseteq Users
    OBVIOUS
  <2>2. h = [c \in Conns |-> IF c \in B THEN NoHash ELSE hash[c]]
    OBVIOUS
  <2> HIDE DEF U, cand, h, z
  <2> QED BY <1>1, <1>2, <1>3, <1>4, <2>1, <2>2 DEF Without
<1>6. Recompute(U, cand, h, z, Later(users, now), now)
  OBVIOUS
<1> HIDE DEF U, cand, h, z
<1> QED BY <1>5, <1>6, WithoutKeeps

(* getStatsScript recomputes nobody.                                          *)
LEMMA StatsKeep ==
    ASSUME PresenceInv, NEW now \in Readings, GetStats(now), UNCHANGED clock
    PROVE  PresenceInv'
<1> USE PresenceAssumption
<1>1. PresenceTypeOK
  BY DEF PresenceInv
<1> DEFINE z == Later(conns, now)
           us == Later(users, now)
<1>2. /\ members' = Kept({}, members, hash, now)
      /\ conns' = [c \in Conns |-> IF c \in Dropped({}, members, hash, now) THEN 0 ELSE z[c]]
      /\ hash' = [c \in Conns |-> IF c \in Dropped({}, members, hash, now) /\ hash[c].expire <= now
                                  THEN NoHash ELSE hash[c]]
      /\ users' = [u \in Users |-> IF u \in {} THEN 0 ELSE us[u]]
  BY <1>1 DEF GetStats, Kept, Dropped, Later, PresenceTypeOK
<1>3. Recompute({}, members, hash, z, us, now)
  <2> DEFINE score == [u \in {} |-> 0]
  <2>1. score \in [{} -> {0} \cup {hash[c].expire : c \in Conns}]
    OBVIOUS
  <2>2. users' = [u \in Users |-> IF u \in {} THEN score[u] ELSE us[u]]
    BY <1>2
  <2> HIDE DEF score
  <2> QED BY <1>2, <2>1, <2>2 DEF Recompute
<1>4. Without({}, {}, members, hash, z, us, now)
  BY <1>1, ReadingsBounded DEF PresenceTypeOK, Later, Without
<1> HIDE DEF z, us
<1> QED BY <1>3, <1>4, WithoutKeeps

-----------------------------------------------------------------------------
(* A key that expires belonged to connections no clock still counts.          *)
LEMMA ExpiryKeeps ==
    ASSUME PresenceInv, KeysExpire, UNCHANGED clock
    PROVE  PresenceInv'
<1> USE PresenceAssumption
<1>0. PresenceTypeOK /\ Horizon \in Nat /\ Horizon' = Horizon
  BY DEF PresenceInv, PresenceTypeOK, Horizon
<1>1. ASSUME NEW c \in Conns, Lapsed(c) PROVE hash[c].expire <= Horizon
  BY <1>0, <1>1 DEF Lapsed, Horizon, PresenceTypeOK
<1>2. ASSUME NEW c \in Conns, HashExpires(c) PROVE PresenceInv'
  <2>1. hash[c].expire <= Horizon /\ hash' = [hash EXCEPT ![c] = NoHash]
        /\ UNCHANGED <<conns, members, users>>
    BY <1>1, <1>2 DEF HashExpires
  <2>2. PresenceTypeOK' /\ HashOwned' /\ MembersOwned'
    BY <2>1 DEF PresenceInv, PresenceTypeOK, HashOwned, MembersOwned, NoHash
  <2>3. CountedUsersAreHere'
    <3> SUFFICES ASSUME NEW u \in Users, users[u] > Horizon
                 PROVE  \E d \in members[u] : hash'[d].owner = u
                            /\ hash'[d].expire = users[u] /\ conns[d] = users[u]
      BY <1>0, <2>1 DEF CountedUsersAreHere
    <3>1. PICK d \in members[u] :
              hash[d].owner = u /\ hash[d].expire = users[u] /\ conns[d] = users[u]
      BY DEF PresenceInv, CountedUsersAreHere
    <3>2. d \in Conns /\ d # c
      BY <1>0, <2>1, <3>1 DEF PresenceTypeOK
    <3> QED BY <1>0, <2>1, <3>1, <3>2 DEF PresenceTypeOK
  <2>4. LiveConnectionsCount'
    BY <1>0, <2>1 DEF PresenceInv, PresenceTypeOK, LiveConnectionsCount, NoHash
  <2> QED BY <2>2, <2>3, <2>4 DEF PresenceInv
<1>3. ASSUME NEW v \in Users, MembersExpire(v) PROVE PresenceInv'
  <2>1. /\ members' = [members EXCEPT ![v] = {}] /\ UNCHANGED <<hash, conns, users>>
        /\ \A c \in members[v] : hash[c].expire <= Horizon
    BY <1>0, <1>1, <1>3 DEF MembersExpire, PresenceTypeOK
  <2>2. PresenceTypeOK' /\ HashOwned' /\ MembersOwned'
    BY <2>1 DEF PresenceInv, PresenceTypeOK, HashOwned, MembersOwned
  <2>3. CountedUsersAreHere'
    <3> SUFFICES ASSUME NEW u \in Users, users[u] > Horizon
                 PROVE  \E d \in members'[u] : hash[d].owner = u
                            /\ hash[d].expire = users[u] /\ conns[d] = users[u]
      BY <1>0, <2>1 DEF CountedUsersAreHere
    <3>1. PICK d \in members[u] :
              hash[d].owner = u /\ hash[d].expire = users[u] /\ conns[d] = users[u]
      BY DEF PresenceInv, CountedUsersAreHere
    <3>2. u # v
      BY <1>0, <2>1, <3>1 DEF PresenceTypeOK
    <3> QED BY <1>0, <2>1, <3>1, <3>2 DEF PresenceTypeOK
  <2>4. LiveConnectionsCount'
    <3> SUFFICES ASSUME NEW c \in Conns, hash[c].expire > Horizon
                 PROVE  /\ conns[c] = hash[c].expire
                        /\ hash[c].owner = OwnerOf[c] /\ c \in members'[OwnerOf[c]]
                        /\ users[OwnerOf[c]] >= hash[c].expire
      BY <1>0, <2>1 DEF LiveConnectionsCount
    <3>1. /\ conns[c] = hash[c].expire
          /\ hash[c].owner = OwnerOf[c] /\ c \in members[OwnerOf[c]]
          /\ users[OwnerOf[c]] >= hash[c].expire
      BY DEF PresenceInv, LiveConnectionsCount
    <3>2. OwnerOf[c] # v
      BY <1>0, <2>1, <3>1 DEF PresenceTypeOK
    <3> QED BY <1>0, <2>1, <3>1, <3>2 DEF PresenceTypeOK
  <2> QED BY <2>2, <2>3, <2>4 DEF PresenceInv
<1> QED BY <1>2, <1>3 DEF KeysExpire

(* As time passes fewer scores lie ahead of every clock.                      *)
LEMMA TickKeeps ==
    ASSUME PresenceInv, Tick, UNCHANGED presence
    PROVE  PresenceInv'
<1> USE PresenceAssumption
<1>1. clock \in Nat /\ clock' = clock + 1 /\ Horizon \in Nat /\ Horizon' = Horizon + 1
      /\ UNCHANGED <<hash, conns, members, users>>
  BY DEF PresenceInv, PresenceTypeOK, Tick, Horizon, presence
<1>2. PresenceTypeOK' /\ HashOwned' /\ MembersOwned'
  BY <1>1 DEF PresenceInv, PresenceTypeOK, HashOwned, MembersOwned
<1>3. CountedUsersAreHere'
  BY <1>1 DEF PresenceInv, PresenceTypeOK, CountedUsersAreHere
<1>4. LiveConnectionsCount'
  BY <1>1 DEF PresenceInv, PresenceTypeOK, LiveConnectionsCount
<1> QED BY <1>2, <1>3, <1>4 DEF PresenceInv

LEMMA PresenceInvInit == PresenceInit => PresenceInv
<1> USE PresenceAssumption
<1> SUFFICES ASSUME PresenceInit PROVE PresenceInv
  OBVIOUS
<1>1. PresenceTypeOK /\ HashOwned /\ MembersOwned
  BY DEF PresenceInit, PresenceTypeOK, HashOwned, MembersOwned, NoHash
<1>2. Horizon \in Nat
  BY DEF PresenceInit, Horizon
<1>3. CountedUsersAreHere /\ LiveConnectionsCount
  BY <1>2 DEF PresenceInit, CountedUsersAreHere, LiveConnectionsCount, NoHash
<1> QED BY <1>1, <1>3 DEF PresenceInv

LEMMA PresenceInvNext == PresenceInv /\ [PresenceNext]_presenceVars => PresenceInv'
<1> SUFFICES ASSUME PresenceInv, [PresenceNext]_presenceVars PROVE PresenceInv'
  OBVIOUS
<1>1. CASE Script /\ UNCHANGED clock
  BY <1>1, EnterKeeps, HeartbeatKeeps, LeaveKeeps, CleanupKeeps, StatsKeep DEF Script
<1>2. CASE KeysExpire /\ UNCHANGED clock
  BY <1>2, ExpiryKeeps
<1>3. CASE Tick /\ UNCHANGED presence
  BY <1>3, TickKeeps
<1>4. CASE UNCHANGED presenceVars
  BY <1>4 DEF presenceVars, presence, PresenceInv, PresenceTypeOK, HashOwned, MembersOwned,
              CountedUsersAreHere, LiveConnectionsCount, Horizon
<1> QED BY <1>1, <1>2, <1>3, <1>4 DEF PresenceNext

LEMMA PresenceInvariant == PresenceSpec => []PresenceInv
BY PresenceInvInit, PresenceInvNext, PTL DEF PresenceSpec

-----------------------------------------------------------------------------
(* Whatever order scripts, readings and expirations come in, Redis never       *)
(* counts an identity without a connection that carries its score.            *)
THEOREM CountedAreHere == PresenceSpec => []CountedUsersAreHere
<1>1. PresenceInv => CountedUsersAreHere
  BY DEF PresenceInv
<1> QED BY <1>1, PresenceInvariant, PTL

(* And no connection that every clock still counts is missing anywhere.       *)
THEOREM LiveAreCounted == PresenceSpec => []LiveConnectionsCount
<1>1. PresenceInv => LiveConnectionsCount
  BY DEF PresenceInv
<1> QED BY <1>1, PresenceInvariant, PTL

=============================================================================
