------------------------------ MODULE Viewers -------------------------------
(* ws-gateway, one instance and one room: connections with their reader,      *)
(* writer and bounded write queue, the hub that names those to broadcast to,  *)
(* and the two goroutines that consume auction events.                        *)
EXTENDS Naturals, Sequences, SequencesExt

CONSTANTS
    Conns,
    Events,         \* ids of broadcastable events of the room
    Consumers,        \* consumer goroutines
    QueueSize,      \* capacity of a write queue
    Connected,      \* the response to the connect
    Answer,         \* the response to a message: of a ping, of a bid, of nonsense
    Idle,
    MaxDeliveries,  \* bound: how often the broker or a sender's retry delivers each event
    MaxRequests     \* bound: messages of one client

ASSUME ViewersAssumption ==
    /\ {Connected, Answer} \cap Events = {} /\ Idle \notin [event : Events, to : SUBSET Conns]
    /\ QueueSize \in Nat \ {0} /\ MaxDeliveries \in [Events -> Nat] /\ MaxRequests \in Nat

VARIABLES
    phase,      \* where the goroutine that serves a connection is
    closed,     \* Close has run: closeSignal and socket are closed
    queue,      \* writeQueue
    hub,        \* the connections of the room
    dropping,   \* senders that found a queue full and have yet to close its connection
    sent,       \* history: what was handed to an open connection, in order
    got,        \* what reached the client
    asked,      \* messages the client sent
    seen,       \* ids the deduper remembers
    forgotten,  \* history: ids it has forgotten
    given,      \* deliveries of an event
    work,       \* the event a goroutine broadcasts and whom it has still to send it
    closing,    \* connections CloseAll has yet to close; Idle until it is called
    up          \* the process runs

conn == <<phase, closed, queue, dropping, sent, got, asked>>
consumer == <<seen, forgotten, given, work>>
viewersVars == <<conn, hub, consumer, closing, up>>

Messages == Events \cup {Connected, Answer}
Phases == {"none", "added", "entered", "greeted", "reading", "asking", "leaving",
           "ended", "removed", "left", "kept", "refused"}

ViewersInit ==
    /\ phase = [c \in Conns |-> "none"] /\ closed = [c \in Conns |-> FALSE]
    /\ queue = [c \in Conns |-> <<>>] /\ sent = [c \in Conns |-> <<>>]
    /\ got = [c \in Conns |-> <<>>] /\ asked = [c \in Conns |-> 0]
    /\ hub = {} /\ dropping = {} /\ up = TRUE
    /\ seen = {} /\ forgotten = {} /\ given = [e \in Events |-> 0]
    /\ work = [w \in Consumers |-> Idle] /\ closing = Idle

(* The goroutine that serves a connection, unless it has to close it first.   *)
Moves(c, from, to) ==
    /\ phase[c] = from /\ <<c, c>> \notin dropping
    /\ phase' = [phase EXCEPT ![c] = to]

Close(c) == closed' = [closed EXCEPT ![c] = TRUE]

(* SendRaw: a closed connection takes nothing, a queue with room takes the    *)
(* message.  A sender that finds the queue full drops the message, logs, and  *)
(* closes the connection in a later step (CloseFull); until then others may   *)
(* still send to it, and its writer write.                                    *)
SendDropsWhenFull(s, c, m) ==
    /\ IF closed[c] THEN UNCHANGED <<queue, sent>>
       ELSE /\ sent' = [sent EXCEPT ![c] = Append(@, m)]
            /\ queue' = [queue EXCEPT ![c] = IF Len(@) < QueueSize THEN Append(@, m) ELSE @]
    /\ UNCHANGED <<closed, dropping>>

SendUnbounded(s, c, m) ==
    /\ sent' = [sent EXCEPT ![c] = Append(@, m)]
    /\ queue' = [queue EXCEPT ![c] = Append(@, m)]
    /\ UNCHANGED <<closed, dropping>>

Send(s, c, m) ==
    \/ closed[c] /\ UNCHANGED <<closed, queue, sent, dropping>>
    \/ /\ ~closed[c] /\ Len(queue[c]) < QueueSize
       /\ sent' = [sent EXCEPT ![c] = Append(@, m)]
       /\ queue' = [queue EXCEPT ![c] = Append(@, m)]
       /\ UNCHANGED <<closed, dropping>>
    \/ /\ ~closed[c] /\ Len(queue[c]) = QueueSize
       /\ sent' = [sent EXCEPT ![c] = Append(@, m)]
       /\ dropping' = dropping \cup {<<s, c>>}
       /\ UNCHANGED <<closed, queue>>

CloseFull(s, c) ==
    /\ <<s, c>> \in dropping /\ dropping' = dropping \ {<<s, c>>}
    /\ Close(c)
    /\ UNCHANGED <<phase, queue, sent, got, asked, hub, consumer, closing>>

-----------------------------------------------------------------------------
(* ServeLive *)

ArriveUnlisted(c) ==
    /\ Moves(c, "none", "added")
    /\ UNCHANGED <<closed, queue, sent, dropping, got, asked, hub, consumer, closing>>

Arrive(c) ==
    /\ Moves(c, "none", "added")
    /\ hub' = hub \cup {c}
    /\ UNCHANGED <<closed, queue, sent, dropping, got, asked, consumer, closing>>

(* Enter, at Redis *)
Enters(c) ==
    /\ Moves(c, "added", "entered")
    /\ UNCHANGED <<closed, queue, sent, dropping, got, asked, hub, consumer, closing>>

(* Whether the script ran before the error or not, nobody leaves for it.      *)
EnterFails(c) ==
    /\ Moves(c, "added", "refused") /\ Close(c)
    /\ hub' = hub \ {c}
    /\ UNCHANGED <<queue, sent, dropping, got, asked, consumer, closing>>

Greet(c) ==
    /\ Moves(c, "entered", "greeted") /\ Send(c, c, Connected)
    /\ UNCHANGED <<got, asked, hub, consumer, closing>>

StartUnlessClosed(c) ==
    /\ Moves(c, "greeted", IF closed[c] THEN "left" ELSE "reading")
    /\ UNCHANGED <<closed, queue, sent, dropping, got, asked, hub, consumer, closing>>

(* Start does not ask whether somebody closed the connection already. *)
Start(c) ==
    /\ Moves(c, "greeted", "reading")
    /\ UNCHANGED <<closed, queue, sent, dropping, got, asked, hub, consumer, closing>>

(* writeLoop: the socket takes a message, or it fails. *)
WriterStarted(c) == phase[c] \in {"reading", "asking", "leaving"}

Write(c) ==
    /\ WriterStarted(c) /\ ~closed[c] /\ queue[c] # <<>>
    /\ got' = [got EXCEPT ![c] = Append(@, Head(queue[c]))]
    /\ queue' = [queue EXCEPT ![c] = Tail(@)]
    /\ UNCHANGED <<phase, closed, dropping, sent, asked, hub, consumer, closing>>

WriteFails(c) ==
    /\ WriterStarted(c) /\ ~closed[c] /\ Close(c)
    /\ UNCHANGED <<phase, queue, sent, dropping, got, asked, hub, consumer, closing>>

(* readLoop: handleMessage answers once it heard from Redis or from           *)
(* auction-service; room_leave is answered and the connection closed.         *)
Ask(c) ==
    /\ ~closed[c] /\ asked[c] < MaxRequests
    /\ asked' = [asked EXCEPT ![c] = @ + 1]
    /\ Moves(c, "reading", "asking")
    /\ UNCHANGED <<closed, queue, sent, dropping, got, hub, consumer, closing>>

Reply(c) ==
    /\ \/ Moves(c, "asking", "reading")
       \/ Moves(c, "asking", "leaving")
    /\ Send(c, c, Answer)
    /\ UNCHANGED <<got, asked, hub, consumer, closing>>

CloseAfterLeave(c) ==
    /\ Moves(c, "leaving", "reading") /\ Close(c)
    /\ UNCHANGED <<queue, sent, dropping, got, asked, hub, consumer, closing>>

(* ReadMessage fails: the client is gone, its deadline has passed, or the     *)
(* socket was closed here.                                                    *)
ReadEnds(c) ==
    /\ Moves(c, "reading", "ended") /\ Close(c)
    /\ UNCHANGED <<queue, sent, dropping, got, asked, hub, consumer, closing>>

(* handleClose: out of the hub, then out of Redis. *)
RemoveFromHub(c) ==
    /\ Moves(c, "ended", "removed")
    /\ hub' = hub \ {c}
    /\ UNCHANGED <<closed, queue, sent, dropping, got, asked, consumer, closing>>

(* A call that fails is logged only: the connection stays in Redis until it   *)
(* expires there.                                                             *)
Leaves(c) ==
    /\ \/ Moves(c, "removed", "left")
       \/ Moves(c, "removed", "kept")
    /\ UNCHANGED <<closed, queue, sent, dropping, got, asked, hub, consumer, closing>>

-----------------------------------------------------------------------------
(* The consumer *)

Broadcasting(e, to) == IF to = {} THEN Idle ELSE [event |-> e, to |-> to]

Free(w) == \A c \in Conns : <<w, c>> \notin dropping

ReceiveUnmarked(w, e) ==
    /\ Free(w) /\ work[w] = Idle /\ given[e] < MaxDeliveries[e]
    /\ given' = [given EXCEPT ![e] = @ + 1]
    /\ work' = [work EXCEPT ![w] = IF e \in seen THEN Idle ELSE Broadcasting(e, hub)]
    /\ UNCHANGED <<conn, hub, seen, forgotten, closing>>

(* consumeOne: Seen checks and marks; BroadcastRoom copies the hub. *)
Receive(w, e) ==
    /\ Free(w) /\ work[w] = Idle /\ given[e] < MaxDeliveries[e]
    /\ given' = [given EXCEPT ![e] = @ + 1]
    /\ seen' = seen \cup {e}
    /\ work' = [work EXCEPT ![w] = IF e \in seen THEN Idle ELSE Broadcasting(e, hub)]
    /\ UNCHANGED <<conn, hub, forgotten, closing>>

BroadcastTo(w, c) ==
    /\ Free(w) /\ work[w] # Idle /\ c \in work[w].to
    /\ Send(w, c, work[w].event)
    /\ work' = [work EXCEPT ![w] = Broadcasting(@.event, @.to \ {c})]
    /\ UNCHANGED <<phase, got, asked, hub, seen, forgotten, given, closing>>

(* Ten minutes later. *)
Forget(e) ==
    /\ e \in seen
    /\ seen' = seen \ {e} /\ forgotten' = forgotten \cup {e}
    /\ UNCHANGED <<conn, hub, given, work, closing>>

(* Stop: CloseAll copies the hub and closes one after the other.  The process *)
(* ends after that, or earlier, without waiting for anybody.                  *)
CloseAll ==
    /\ closing = Idle /\ closing' = hub
    /\ UNCHANGED <<conn, hub, consumer>>

CloseNext(c) ==
    /\ closing # Idle /\ c \in closing
    /\ Close(c) /\ closing' = closing \ {c}
    /\ UNCHANGED <<phase, queue, sent, dropping, got, asked, hub, consumer>>

Exits == up' = FALSE /\ UNCHANGED <<conn, hub, consumer, closing>>

-----------------------------------------------------------------------------
(* The goroutine that serves a connection, once it is accepted. *)
Serve(c) ==
    \/ Enters(c) \/ EnterFails(c) \/ Greet(c) \/ Start(c) \/ Reply(c) \/ CloseAfterLeave(c)
    \/ RemoveFromHub(c) \/ Leaves(c) \/ CloseFull(c, c) \/ (closed[c] /\ ReadEnds(c))

Broadcasts(w) == \E c \in Conns : BroadcastTo(w, c) \/ CloseFull(w, c)

GatewayNext ==
    \/ \E c \in Conns : \/ Arrive(c) \/ Serve(c) \/ Write(c) \/ WriteFails(c)
                        \/ Ask(c) \/ ReadEnds(c) \/ CloseNext(c)
    \/ \E w \in Consumers : Broadcasts(w) \/ \E e \in Events : Receive(w, e)
    \/ \E e \in Events : Forget(e)
    \/ CloseAll

Running(step) == up /\ UNCHANGED up /\ step

ViewersNext == Running(GatewayNext) \/ (up /\ Exits)

(* While the process runs, goroutines run on: the calls they wait for have    *)
(* timeouts.  Clients, the broker and the end of the process promise nothing. *)
ViewersFairness ==
    /\ \A c \in Conns : WF_viewersVars(Running(Serve(c))) /\ WF_viewersVars(Running(Write(c)))
    /\ \A w \in Consumers : WF_viewersVars(Running(Broadcasts(w)))

ViewersSpec == ViewersInit /\ [][ViewersNext]_viewersVars /\ ViewersFairness

-----------------------------------------------------------------------------
ViewersTypeOK ==
    /\ phase \in [Conns -> Phases] /\ closed \in [Conns -> BOOLEAN]
    /\ \A c \in Conns : queue[c] \in Seq(Messages) /\ Len(queue[c]) <= QueueSize
    /\ \A c \in Conns : sent[c] \in Seq(Messages) /\ got[c] \in Seq(Messages)
    /\ hub \subseteq Conns /\ asked \in [Conns -> 0..MaxRequests]
    /\ seen \subseteq Events /\ forgotten \subseteq Events /\ given \in [Events -> Nat]
    /\ work \in [Consumers -> {Idle} \cup [event : Events, to : SUBSET Conns]]
    /\ closing = Idle \/ closing \subseteq Conns
    /\ dropping \subseteq (Consumers \cup Conns) \X Conns /\ up \in BOOLEAN

(* Somebody has closed the connection or is about to. *)
Doomed(c) == closed[c] \/ \E s \in Consumers \cup Conns : <<s, c>> \in dropping

(* A connection has no gap, unless it is about to be closed for it: all that  *)
(* was handed to it, a message dropped from a full queue included, reached    *)
(* the client or waits for it, in that order, as long as nobody closes it.    *)
(* (Between the drop and the close a later message may reach the client; the  *)
(* client then loses its socket.)                                             *)
NoGaps == \A c \in Conns : ~Doomed(c) => got[c] \o queue[c] = sent[c]

(* Whom the connect response reached, or can reach, is broadcast to: no event *)
(* falls between the snapshot the response asks for and the events that       *)
(* follow it.                                                                 *)
GreetedAreReached ==
    \A c \in Conns : Connected \in ToSet(sent[c]) /\ ~closed[c] => c \in hub

(* However often an event is delivered, and by which goroutine, it is handed  *)
(* to a connection once, as long as the deduper remembers it.                 *)
OncePerEvent ==
    \A c \in Conns, e \in Events \ forgotten :
        \A i, j \in DOMAIN sent[c] : sent[c][i] = e /\ sent[c][j] = e => i = j

(* A connection that anyone closed, or found too slow, at any time since it   *)
(* was accepted, is taken out of the hub, and its goroutine does not end      *)
(* before it asked Redis to forget it, unless Redis had failed to enter it or *)
(* the process ends first.  What Redis then still holds expires.              *)
ClosedLeaves ==
    \A c \in Conns : Doomed(c) ~> \/ c \notin hub /\ phase[c] \in {"left", "kept", "refused"}
                                 \/ ~up
=============================================================================
