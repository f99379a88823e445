-------------------------- MODULE OnlineBroadcast ---------------------------
(* ws-gateway: several instances keep the presence of one live room in the    *)
(* same Redis and tell their clients how many are online.  A connection, the  *)
(* cleanup ticker and the flush ticker are goroutines; each step below is one *)
(* call of theirs to Redis or one critical section.                           *)
EXTENDS OnlinePresence

CONSTANTS
    Gateways,    \* ws-gateway instances
    HostOf,      \* the instance a connection is made to
    Offset,      \* how far an instance's clock is ahead of Redis' own
    Nothing,     \* nothing sent yet
    MaxNews,     \* bound: pub/sub messages under way to one instance
    MaxFaults    \* bound: calls that fail and instances that crash

(* What a script returns of the room.                                         *)
CountsType == [online : 0..Cardinality(Users), connections : 0..Cardinality(Conns)]

ASSUME BroadcastAssumption ==
    /\ HostOf \in [Conns -> Gateways]
    /\ Offset \in [Gateways -> Int] /\ \A i \in Gateways : Offset[i] <= Skew
    /\ Nothing \notin CountsType /\ IsFiniteSet(Users)
    /\ MaxNews \in Nat \ {0} /\ MaxFaults \in Nat

VARIABLES
    phase,     \* how far the goroutine of a connection is; a "gone" one is out of
               \* Redis, a "lost" one is left in it with nobody to take it out
    swept,     \* the cleanup ticker of an instance has a change to announce
    pending,   \* pendingOnline: an event is queued for the room, per instance
    news,      \* how many events Redis pub/sub has yet to hand to an instance
    last,      \* lastOnlineSent
    faults,    \* failures so far
    untold     \* whether a change was announced to nobody: since GetStats made it, or by a failure

gateway == <<phase, swept, pending, news, last, faults, untold>>
broadcastVars == <<presenceVars, gateway>>

Phases == {"idle", "added", "changed", "open", "closed", "left", "gone", "lost"}

BroadcastInit ==
    /\ PresenceInit
    /\ phase = [c \in Conns |-> "idle"]
    /\ swept = [i \in Gateways |-> FALSE] /\ pending = [i \in Gateways |-> FALSE]
    /\ news = [i \in Gateways |-> 0]
    /\ last = [i \in Gateways |-> Nothing]
    /\ faults = 0 /\ untold = "none"

(* time.Now() on the machine of instance i, which hands it to every script.   *)
Now(i) == IF clock + Offset[i] < 0 THEN 0 ELSE clock + Offset[i]

(* The connections an instance broadcasts to and cleans up for. *)
Hub(i) == {c \in Conns : HostOf[c] = i /\ phase[c] \in {"added", "changed", "open"}}

Untold(why) == untold' = IF untold = "failure" THEN untold ELSE why
Fails == faults < MaxFaults /\ faults' = faults + 1

(* publishOnlineEvent: queued at instance i, and sent to every instance, this *)
(* one included.  Which counts an event carries matters only when they cannot *)
(* be read again; see FlushOnlineEvents.                                            *)
Publish(i) ==
    /\ pending' = [pending EXCEPT ![i] = TRUE]
    /\ \/ /\ \A j \in Gateways : news[j] < MaxNews
          /\ news' = [j \in Gateways |-> news[j] + 1]
          /\ UNCHANGED <<faults, untold>>
       \/ Fails /\ Untold("failure") /\ UNCHANGED news

-----------------------------------------------------------------------------
(* ServeLive *)

Arrive(c) ==
    /\ phase[c] = "idle"
    /\ phase' = [phase EXCEPT ![c] = "added"]
    /\ UNCHANGED <<presenceVars, swept, pending, news, last, faults, untold>>

EnterRoom(c) ==
    /\ phase[c] = "added"
    /\ Enter(c, Now(HostOf[c]), Now(HostOf[c]) + Timeout)
    /\ phase' = [phase EXCEPT ![c] = IF Changed THEN "changed" ELSE "open"]
    /\ UNCHANGED <<clock, swept, pending, news, last, faults, untold>>

(* Enter returns an error, though the script may have run: nobody will leave. *)
EnterFails(c) ==
    /\ phase[c] = "added" /\ Fails
    /\ \/ /\ Enter(c, Now(HostOf[c]), Now(HostOf[c]) + Timeout) /\ Untold("failure")
          /\ phase' = [phase EXCEPT ![c] = "lost"]
       \/ /\ UNCHANGED <<presence, untold>>
          /\ phase' = [phase EXCEPT ![c] = "gone"]
    /\ UNCHANGED <<clock, swept, pending, news, last>>

(* publishOnlineIfChanged; then the loops start, go on, or have ended.        *)
Announce(c) ==
    /\ phase[c] \in {"changed", "left"}
    /\ Publish(HostOf[c])
    /\ phase' = [phase EXCEPT ![c] = IF @ = "left" THEN "gone" ELSE "open"]
    /\ UNCHANGED <<presenceVars, swept, last>>

(* handlePing and handlePong *)
Beat(c) ==
    /\ phase[c] = "open"
    /\ Heartbeat(c, Now(HostOf[c]), Now(HostOf[c]) + Timeout)
    /\ phase' = [phase EXCEPT ![c] = IF Changed THEN "changed" ELSE @]
    /\ UNCHANGED <<clock, swept, pending, news, last, faults, untold>>

(* Heartbeat returns an error though the script ran.                          *)
BeatFails(c) ==
    /\ phase[c] = "open" /\ Fails
    /\ Heartbeat(c, Now(HostOf[c]), Now(HostOf[c]) + Timeout)
    /\ IF Changed THEN Untold("failure") ELSE UNCHANGED untold
    /\ UNCHANGED <<clock, phase, swept, pending, news, last>>

(* The read loop ends: the client left, its deadline passed, or it was closed. *)
CloseConn(c) ==
    /\ phase[c] = "open"
    /\ phase' = [phase EXCEPT ![c] = "closed"]
    /\ UNCHANGED <<presenceVars, swept, pending, news, last, faults, untold>>

(* handleClose *)
LeaveRoom(c) ==
    /\ phase[c] = "closed"
    /\ Leave(c, Now(HostOf[c]))
    /\ phase' = [phase EXCEPT ![c] = IF Changed THEN "left" ELSE "gone"]
    /\ UNCHANGED <<clock, swept, pending, news, last, faults, untold>>

(* Leave returns an error; the script may have run. *)
LeaveFails(c) ==
    /\ phase[c] = "closed" /\ Fails
    /\ \/ /\ Leave(c, Now(HostOf[c])) /\ Untold("failure")
          /\ phase' = [phase EXCEPT ![c] = "gone"]
       \/ /\ UNCHANGED <<presence, untold>>
          /\ phase' = [phase EXCEPT ![c] = "lost"]
    /\ UNCHANGED <<clock, swept, pending, news, last>>

-----------------------------------------------------------------------------
(* The tickers of an instance. *)

CleanupUnannounced(i) ==
    /\ Hub(i) # {} /\ ~swept[i]
    /\ CleanupRoom(Now(i), Cardinality(Conns))
    /\ UNCHANGED <<clock, gateway>>

Cleanup(i) ==
    /\ Hub(i) # {} /\ ~swept[i]
    /\ CleanupRoom(Now(i), Cardinality(Conns))
    /\ swept' = [swept EXCEPT ![i] = Changed]
    /\ UNCHANGED <<clock, phase, pending, news, last, faults, untold>>

(* CleanupRoom returns an error though the script ran. *)
CleanupFails(i) ==
    /\ Hub(i) # {} /\ ~swept[i] /\ Fails
    /\ CleanupRoom(Now(i), Cardinality(Conns))
    /\ IF Changed THEN Untold("failure") ELSE UNCHANGED untold
    /\ UNCHANGED <<clock, phase, swept, pending, news, last>>

AnnounceCleanup(i) ==
    /\ swept[i] /\ Publish(i)
    /\ swept' = [swept EXCEPT ![i] = FALSE]
    /\ UNCHANGED <<presenceVars, phase, last>>

(* QueueOnlineEvent, from the subscription. *)
Hear(i) ==
    /\ news[i] > 0
    /\ pending' = [pending EXCEPT ![i] = TRUE]
    /\ news' = [news EXCEPT ![i] = @ - 1]
    /\ UNCHANGED <<presenceVars, phase, swept, last, faults, untold>>

(* FlushOnlineEvents takes the event, reads the counts, and broadcasts them   *)
(* unless they are those sent last.  Only this goroutine looks at what was    *)
(* sent last, and an event queued meanwhile is flushed again: one step.  When *)
(* the counts cannot be read those of the event go out, any Redis had once.   *)
FlushOnlineEvents(i) ==
    /\ pending[i]
    /\ pending' = [pending EXCEPT ![i] = FALSE]
    /\ \/ /\ GetStats(Now(i))
          /\ last' = [last EXCEPT ![i] = Counts']
          /\ IF Changed THEN Untold("prune") ELSE UNCHANGED untold
          /\ UNCHANGED faults
       \/ /\ Fails /\ Untold("failure")
          /\ \E old \in CountsType : last' = [last EXCEPT ![i] = old]
          /\ GetStats(Now(i)) \/ UNCHANGED presence
    /\ UNCHANGED <<clock, phase, swept, news>>

(* An instance stops and starts again: what it had in memory is gone, and so  *)
(* are its connections.  An announcement it held is lost.                     *)
Crash(i) ==
    LET mine == {c \in Conns : HostOf[c] = i} IN
    /\ Fails
    /\ IF swept[i] \/ \E c \in mine : phase[c] \in {"changed", "left"}
       THEN Untold("failure") ELSE UNCHANGED untold
    /\ phase' = [c \in Conns |-> IF c \notin mine \/ phase[c] = "idle" THEN phase[c]
                                 ELSE IF phase[c] \in {"added", "left", "gone"} THEN "gone" ELSE "lost"]
    /\ swept' = [swept EXCEPT ![i] = FALSE] /\ pending' = [pending EXCEPT ![i] = FALSE]
    /\ news' = [news EXCEPT ![i] = 0]
    /\ last' = [last EXCEPT ![i] = Nothing]
    /\ UNCHANGED presenceVars

-----------------------------------------------------------------------------
(* What the code does by itself, and what it waits for from outside.          *)
ConnStep(c) == EnterRoom(c) \/ Announce(c) \/ LeaveRoom(c)

BroadcastNext ==
    \/ \E c \in Conns :
        \/ Arrive(c) \/ ConnStep(c) \/ EnterFails(c) \/ Beat(c) \/ BeatFails(c)
        \/ CloseConn(c) \/ LeaveFails(c)
    \/ \E i \in Gateways : Cleanup(i) \/ CleanupFails(i) \/ AnnounceCleanup(i) \/ Hear(i)
                            \/ FlushOnlineEvents(i) \/ Crash(i)
    \/ KeysExpire /\ UNCHANGED <<clock, gateway>>
    \/ Tick /\ UNCHANGED <<presence, gateway>>

(* The goroutines run on and both tickers keep ticking; clients, time and     *)
(* failures promise nothing.                                                  *)
BroadcastFairness ==
    /\ \A c \in Conns : WF_broadcastVars(ConnStep(c))
    /\ \A i \in Gateways :
        /\ WF_broadcastVars(Cleanup(i) \/ AnnounceCleanup(i))
        /\ WF_broadcastVars(Hear(i)) /\ WF_broadcastVars(FlushOnlineEvents(i))

BroadcastSpec == BroadcastInit /\ [][BroadcastNext]_broadcastVars /\ BroadcastFairness

-----------------------------------------------------------------------------
BroadcastTypeOK ==
    /\ PresenceTypeOK
    /\ phase \in [Conns -> Phases]
    /\ swept \in [Gateways -> BOOLEAN] /\ pending \in [Gateways -> BOOLEAN]
    /\ news \in [Gateways -> 0..MaxNews]
    /\ last \in [Gateways -> CountsType \cup {Nothing}]
    /\ faults \in 0..MaxFaults /\ untold \in {"none", "prune", "failure"}

(* A connection that left is nowhere in Redis, whatever the other connections *)
(* of its user and the cleanups of every instance do afterwards.              *)
LeftIsForgotten ==
    \A c \in Conns : phase[c] \in {"idle", "added", "left", "gone"} =>
        hash[c] = NoHash /\ conns[c] = 0 /\ \A u \in Users : c \notin members[u]

(* No client is left with a wrong number: when entering, leaving and time     *)
(* come to rest, an instance that holds the room has sent last what Redis     *)
(* counts, or nothing yet, unless a failure or GetStats kept a change quiet.  *)
Settled == \A i \in Gateways : Hub(i) = {} \/ last[i] \in {Nothing, Counts}
CountsSettle == <>[](untold # "none" \/ Settled)

(* The same, whoever removed the expired: only failures excuse a wrong        *)
(* number, or a connection in the room that is due to beat or to be closed.   *)
PrunesAreAnnounced ==
    <>[](\/ untold = "failure"
         \/ \E c \in Conns : phase[c] = "open" /\ hash[c].expire <= clock + Skew
         \/ Settled)
=============================================================================
