--------------------------- MODULE OnlinePresence ---------------------------
(* ws-gateway: who is online in one live room, as Redis keeps it.  Every      *)
(* script of online_store.go is one atomic step on four structures; rooms     *)
(* share no key.  A script is handed a clock reading that Go took before the  *)
(* call, on any gateway instance.                                             *)
EXTENDS Integers, FiniteSets

CONSTANTS
    Conns,      \* connection ids
    Users,      \* identity keys: logged-in users and guests
    OwnerOf,    \* the identity of a connection
    NoOwner,
    Timeout,    \* heartbeat timeout; keys live twice as long
    Skew,       \* bound: how far a gateway's clock may be ahead of Redis' own
    MaxTime     \* bound: Redis' clock stops here

ASSUME PresenceAssumption ==
    /\ OwnerOf \in [Conns -> Users] /\ NoOwner \notin Users
    /\ Timeout \in Nat \ {0} /\ Skew \in Nat /\ MaxTime \in Nat
    /\ IsFiniteSet(Conns)

VARIABLES
    hash,     \* ws:conn:{id}: owner and expire_at
    conns,    \* ws:room:{room}:connections, a zset by expire_at; 0 when absent
    members,  \* ws:room:{room}:user:{identity}:connections, a set per identity
    users,    \* ws:room:{room}:users, a zset by the last expire_at; 0 when absent
    clock

presence == <<hash, conns, members, users>>
presenceVars == <<presence, clock>>

NoHash == [owner |-> NoOwner, expire |-> 0]

PresenceInit ==
    /\ hash = [c \in Conns |-> NoHash] /\ conns = [c \in Conns |-> 0]
    /\ members = [u \in Users |-> {}] /\ users = [u \in Users |-> 0]
    /\ clock = 0

(* ZREMRANGEBYSCORE -inf now. *)
Later(scores, now) == [x \in DOMAIN scores |-> IF scores[x] > now THEN scores[x] ELSE 0]

(* ZCARD. *)
Size(scores) == Cardinality({x \in DOMAIN scores : scores[x] > 0})

(* What the scripts return, and whether it differs from what they found. *)
Counts == [online |-> Size(users), connections |-> Size(conns)]
Changed == Counts' # Counts

(* The connections of a candidate set that count for their identity. *)
Effective(u, candidates, h, now) ==
    {c \in candidates : h[c].owner = u /\ h[c].expire > now}

IsLowest(t, S, h) ==
    IF S = {} THEN t = 0
    ELSE (\E c \in S : h[c].expire = t) /\ (\A c \in S : h[c].expire >= t)

(* The highest expire_at of S, 0 of none. *)
IsHighest(t, S, h) ==
    IF S = {} THEN t = 0
    ELSE (\E c \in S : h[c].expire = t) /\ (\A c \in S : h[c].expire <= t)

(* recompute_identity for each identity in U: candidates that do not count    *)
(* are dropped everywhere, their hash only when it expired, and the identity's *)
(* score is the highest of those kept.  cand, h, z and us are what the script  *)
(* made of members, hash, conns and users before.                             *)
Kept(U, cand, h, now) ==
    [u \in Users |-> IF u \in U THEN Effective(u, cand[u], h, now) ELSE cand[u]]
Dropped(U, cand, h, now) == UNION {cand[u] \ Effective(u, cand[u], h, now) : u \in U}

Recompute(U, cand, h, z, us, now) ==
    LET dropped == Dropped(U, cand, h, now) IN
    /\ members' = Kept(U, cand, h, now)
    /\ conns' = [c \in Conns |-> IF c \in dropped THEN 0 ELSE z[c]]
    /\ hash' = [c \in Conns |-> IF c \in dropped /\ h[c].expire <= now THEN NoHash ELSE h[c]]
    /\ \E score \in [U -> {0} \cup {h[c].expire : c \in Conns}] :
        /\ \A u \in U : IsHighest(score[u], Effective(u, cand[u], h, now), h)
        /\ users' = [u \in Users |-> IF u \in U THEN score[u] ELSE us[u]]

(* enterScript *)
Enter(c, now, expire) ==
    LET u == OwnerOf[c] IN
    Recompute({u}, [members EXCEPT ![u] = @ \cup {c}],
              [hash EXCEPT ![c] = [owner |-> u, expire |-> expire]],
              [Later(conns, now) EXCEPT ![c] = expire], Later(users, now), now)

(* heartbeatScript: nothing is added back once the hash is gone. *)
Heartbeat(c, now, expire) ==
    IF hash[c].owner = OwnerOf[c]
    THEN Enter(c, now, expire)
    ELSE Recompute({OwnerOf[c]}, members, hash, Later(conns, now), Later(users, now), now)

(* leaveScript *)
LeaveKeepsScore(c, now) ==
    LET u == OwnerOf[c] IN
    /\ members' = [members EXCEPT ![u] = @ \ {c}] /\ hash' = [hash EXCEPT ![c] = NoHash]
    /\ conns' = [Later(conns, now) EXCEPT ![c] = 0] /\ users' = Later(users, now)

LeaveDropsUser(c, now) ==
    LET u == OwnerOf[c] IN
    /\ members' = [members EXCEPT ![u] = @ \ {c}] /\ hash' = [hash EXCEPT ![c] = NoHash]
    /\ conns' = [Later(conns, now) EXCEPT ![c] = 0] /\ users' = [Later(users, now) EXCEPT ![u] = 0]

LeaveSubtracts(c, now) ==
    LET u == OwnerOf[c] IN
    /\ members' = [members EXCEPT ![u] = @ \ {c}] /\ hash' = [hash EXCEPT ![c] = NoHash]
    /\ conns' = [Later(conns, now) EXCEPT ![c] = 0]
    /\ users' = [Later(users, now) EXCEPT ![u] = @ - hash[c].expire]

LeaveKeepsConnection(c, now) ==
    LET u == OwnerOf[c] IN
    Recompute({u}, [members EXCEPT ![u] = @ \ {c}], [hash EXCEPT ![c] = NoHash],
              Later(conns, now), Later(users, now), now)

Leave(c, now) ==
    LET u == OwnerOf[c] IN
    Recompute({u}, [members EXCEPT ![u] = @ \ {c}], [hash EXCEPT ![c] = NoHash],
              [Later(conns, now) EXCEPT ![c] = 0], Later(users, now), now)

(* The members ZRANGEBYSCORE -inf now LIMIT 0 limit may return: lowest first. *)
Expired(now) == {c \in Conns : conns[c] > 0 /\ conns[c] <= now}
Batches(now, limit) ==
    {B \in SUBSET Expired(now) :
        /\ Cardinality(B) <= limit
        /\ Cardinality(B) < limit => B = Expired(now)
        /\ \A c \in B, d \in Expired(now) \ B : conns[c] <= conns[d]}

(* cleanupRoomScript: an identity is recomputed when a hash still names it. *)
CleanupRoom(now, limit) ==
    \E B \in Batches(now, limit) :
        Recompute({u \in Users : \E c \in B : hash[c].owner = u},
                  [u \in Users |-> members[u] \ {c \in B : hash[c].owner = u}],
                  [c \in Conns |-> IF c \in B THEN NoHash ELSE hash[c]],
                  [c \in Conns |-> IF c \in B THEN 0 ELSE conns[c]], Later(users, now), now)

(* getStatsScript removes what expired and recomputes nobody. *)
GetStats(now) ==
    /\ conns' = Later(conns, now) /\ users' = Later(users, now)
    /\ UNCHANGED <<hash, members>>

(* A key lives twice as long as a connection counts from its last refresh.    *)
(* The refresh wrote an expire_at of at most Timeout after it by a clock at   *)
(* most Skew ahead.                                                           *)
Lapsed(c) == hash[c].expire + Timeout <= clock + Skew

HashExpires(c) ==
    /\ hash[c] # NoHash /\ Lapsed(c)
    /\ hash' = [hash EXCEPT ![c] = NoHash]
    /\ UNCHANGED <<conns, members, users>>

MembersExpire(u) ==
    /\ members[u] # {} /\ \A c \in members[u] : Lapsed(c)
    /\ members' = [members EXCEPT ![u] = {}]
    /\ UNCHANGED <<hash, conns, users>>

KeysExpire == (\E c \in Conns : HashExpires(c)) \/ (\E u \in Users : MembersExpire(u))

Tick == clock < MaxTime /\ clock' = clock + 1

(* Scripts arrive in any order and late, each with the reading it was sent    *)
(* with; expire_at is that reading plus the timeout.                          *)
Readings == 0..(clock + Skew)

Script ==
    \E now \in Readings :
        \/ \E c \in Conns : Enter(c, now, now + Timeout) \/ Heartbeat(c, now, now + Timeout) \/ Leave(c, now)
        \/ \E limit \in 1..Cardinality(Conns) : CleanupRoom(now, limit)
        \/ GetStats(now)

PresenceNext ==
    \/ Script /\ UNCHANGED clock
    \/ KeysExpire /\ UNCHANGED clock
    \/ Tick /\ UNCHANGED presence

PresenceSpec == PresenceInit /\ [][PresenceNext]_presenceVars

-----------------------------------------------------------------------------
PresenceTypeOK ==
    /\ hash \in [Conns -> [owner : Users \cup {NoOwner}, expire : Nat]]
    /\ conns \in [Conns -> Nat]
    /\ members \in [Users -> SUBSET Conns]
    /\ users \in [Users -> Nat]
    /\ clock \in Nat

Horizon == clock + Skew

(* Nobody is counted without a connection: an identity whose score lies ahead *)
(* of every clock has a connection whose hash carries that very score, in its *)
(* set and in the room.                                                       *)
CountedUsersAreHere ==
    \A u \in Users : users[u] > Horizon =>
        \E c \in members[u] :
            hash[c].owner = u /\ hash[c].expire = users[u] /\ conns[c] = users[u]

(* Nobody with a connection goes uncounted: a connection not yet expired by   *)
(* any clock is in the room under the score its hash carries, in its          *)
(* identity's set, and its identity's score is no lower.                      *)
LiveConnectionsCount ==
    \A c \in Conns : hash[c].expire > Horizon =>
        /\ conns[c] = hash[c].expire
        /\ hash[c].owner = OwnerOf[c] /\ c \in members[OwnerOf[c]]
        /\ users[OwnerOf[c]] >= hash[c].expire
=============================================================================
