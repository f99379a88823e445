---------------------------- MODULE ViewersProofs ----------------------------
(* What reaches a client, for any number of connections, events and           *)
(* consumers, any queue size and any number of deliveries and requests.       *)
EXTENDS Viewers, SequenceTheorems, TLAPS

Jobs == [event : Events, to : SUBSET Conns]
Senders == Consumers \cup Conns

(* ViewersTypeOK, with the domains it leaves out. *)
ViewersInv ==
    /\ phase \in [Conns -> Phases] /\ closed \in [Conns -> BOOLEAN]
    /\ queue \in [Conns -> Seq(Messages)] /\ \A c \in Conns : Len(queue[c]) <= QueueSize
    /\ sent \in [Conns -> Seq(Messages)] /\ got \in [Conns -> Seq(Messages)]
    /\ hub \subseteq Conns /\ asked \in [Conns -> 0..MaxRequests]
    /\ seen \subseteq Events /\ forgotten \subseteq Events /\ given \in [Events -> Nat]
    /\ work \in [Consumers -> {Idle} \cup Jobs]
    /\ closing = Idle \/ closing \subseteq Conns
    /\ dropping \subseteq Senders \X Conns /\ up \in BOOLEAN

(* What a step may do to the messages of one connection. *)
Rests(c) == UNCHANGED <<sent[c], queue[c], got[c]>>

Takes(c, m) ==
    /\ ~closed[c] /\ ~closed'[c] /\ Len(queue[c]) < QueueSize
    /\ sent'[c] = Append(sent[c], m) /\ queue'[c] = Append(queue[c], m) /\ got'[c] = got[c]

Drops(c, m) ==
    /\ Doomed(c)' /\ sent'[c] = Append(sent[c], m) /\ queue'[c] = queue[c] /\ got'[c] = got[c]

Delivers(c) ==
    /\ queue[c] # <<>> /\ sent'[c] = sent[c]
    /\ got'[c] = Append(got[c], Head(queue[c])) /\ queue'[c] = Tail(queue[c])

Channels ==
    /\ closed' \in [Conns -> BOOLEAN] /\ queue' \in [Conns -> Seq(Messages)]
    /\ sent' \in [Conns -> Seq(Messages)] /\ got' \in [Conns -> Seq(Messages)]
    /\ \A c \in Conns : (closed[c] => closed'[c]) /\ Len(queue'[c]) <= QueueSize
    /\ dropping' \subseteq Senders \X Conns
    /\ \A c \in Conns : Doomed(c) => Doomed(c)'

-----------------------------------------------------------------------------
(* A message handed to a connection is taken, or it is dropped and the        *)
(* connection doomed, or the connection is closed already; no other           *)
(* connection is touched.                                                     *)
LEMMA SendTakesOrDooms ==
    ASSUME ViewersInv, NEW s \in Senders, NEW c \in Conns, NEW m \in Messages, Send(s, c, m), UNCHANGED got
    PROVE  /\ Channels
           /\ \A d \in Conns \ {c} : Rests(d) /\ closed'[d] = closed[d]
           /\ Rests(c) \/ Takes(c, m) \/ Drops(c, m)
<1> USE ViewersAssumption DEF ViewersAssumption
<1>0. Append(sent[c], m) \in Seq(Messages) /\ Append(queue[c], m) \in Seq(Messages)
      /\ Len(Append(queue[c], m)) = Len(queue[c]) + 1 /\ Len(queue[c]) \in Nat
    BY AppendProperties, LenProperties DEF ViewersInv
<1>1. CASE closed[c] /\ UNCHANGED <<closed, queue, sent, dropping>>
    BY <1>1 DEF ViewersInv, Channels, Rests, Doomed
<1>2. CASE /\ ~closed[c] /\ Len(queue[c]) < QueueSize
           /\ sent' = [sent EXCEPT ![c] = Append(@, m)]
           /\ queue' = [queue EXCEPT ![c] = Append(@, m)]
           /\ UNCHANGED <<closed, dropping>>
    <2>1. Takes(c, m)
        BY <1>2 DEF Takes, ViewersInv
    <2>2. \A d \in Conns \ {c} : Rests(d) /\ closed'[d] = closed[d]
        BY <1>2 DEF Rests, ViewersInv
    <2>3. \A d \in Conns : Doomed(d) => Doomed(d)'
        BY <1>2 DEF Doomed
    <2>4. Channels
        BY <1>0, <1>2, <2>3 DEF Channels, ViewersInv
    <2> QED BY <2>1, <2>2, <2>4
<1>3. CASE /\ ~closed[c] /\ Len(queue[c]) = QueueSize
           /\ sent' = [sent EXCEPT ![c] = Append(@, m)]
           /\ dropping' = dropping \cup {<<s, c>>}
           /\ UNCHANGED <<closed, queue>>
    <2>1. Doomed(c)' /\ \A d \in Conns : Doomed(d) => Doomed(d)'
        BY <1>3 DEF Doomed, Senders
    <2>2. Drops(c, m)
        BY <1>3, <2>1 DEF Drops, ViewersInv
    <2>3. \A d \in Conns \ {c} : Rests(d) /\ closed'[d] = closed[d]
        BY <1>3 DEF Rests, ViewersInv
    <2>4. Channels
        BY <1>0, <1>3, <2>1 DEF Channels, ViewersInv
    <2> QED BY <2>2, <2>3, <2>4
<1> QED BY <1>1, <1>2, <1>3 DEF Send

(* The writer moves the first message of the queue to the client. *)
LEMMA WriteDelivers ==
    ASSUME ViewersInv, NEW c \in Conns, Write(c)
    PROVE  /\ Channels
           /\ \A d \in Conns \ {c} : Rests(d)
           /\ Delivers(c) /\ UNCHANGED closed
<1>1. /\ Head(queue[c]) \in Messages /\ Tail(queue[c]) \in Seq(Messages)
      /\ Len(Tail(queue[c])) = Len(queue[c]) - 1 /\ Len(queue[c]) \in Nat
    BY HeadTailProperties, LenProperties DEF Write, ViewersInv
<1>2. Append(got[c], Head(queue[c])) \in Seq(Messages)
    BY <1>1, AppendProperties DEF ViewersInv
<1>0. \A d \in Conns : Doomed(d) => Doomed(d)'
    BY DEF Write, Doomed
<1>3. Channels
    BY <1>0, <1>1, <1>2, ViewersAssumption DEF Channels, ViewersInv, Write, ViewersAssumption
<1> QED BY <1>3 DEF Write, Rests, Delivers, ViewersInv

(* Everything else that is done to a connection leaves its messages alone.    *)
LEMMA CloseKeepsMessages ==
    ASSUME ViewersInv, NEW c \in Conns, Close(c) \/ UNCHANGED closed, UNCHANGED <<queue, sent, dropping, got>>
    PROVE  Channels /\ \A d \in Conns : Rests(d)
BY DEF Close, Channels, Rests, ViewersInv, Doomed

LEMMA CloseFullKeepsMessages ==
    ASSUME ViewersInv, NEW s \in Senders, NEW c \in Conns, CloseFull(s, c)
    PROVE  Channels /\ \A d \in Conns : Rests(d)
<1>1. closed' = [closed EXCEPT ![c] = TRUE] /\ dropping' = dropping \ {<<s, c>>} /\ UNCHANGED <<queue, sent, got>>
    BY DEF CloseFull, Close
<1>2. ASSUME NEW d \in Conns, Doomed(d)
      PROVE  Doomed(d)'
    <2>1. CASE d = c
        BY <1>1, <2>1 DEF Doomed, ViewersInv
    <2>2. CASE d # c
        BY <1>1, <1>2, <2>2 DEF Doomed, ViewersInv
    <2> QED BY <2>1, <2>2
<1> QED BY <1>1, <1>2 DEF Channels, Rests, ViewersInv

(* Whatever is sent is a message, and every step does one of these things to   *)
(* the messages of a connection.                                              *)
Handled(c) == Rests(c) \/ Delivers(c) \/ \E m \in Messages : Takes(c, m) \/ Drops(c, m)

LEMMA StepsHandleMessages ==
    ASSUME ViewersInv, [ViewersNext]_viewersVars
    PROVE  Channels /\ \A c \in Conns : Handled(c)
<1>1. ASSUME NEW s \in Senders, NEW c \in Conns, NEW m \in Messages, Send(s, c, m), UNCHANGED got
      PROVE  Channels /\ \A d \in Conns : Handled(d)
    BY <1>1, SendTakesOrDooms DEF Handled
<1>2. ASSUME NEW c \in Conns, Write(c)
      PROVE  Channels /\ \A d \in Conns : Handled(d)
    BY <1>2, WriteDelivers DEF Handled
<1>3. ASSUME NEW c \in Conns, Close(c) \/ UNCHANGED closed, UNCHANGED <<queue, sent, dropping, got>>
      PROVE  Channels /\ \A d \in Conns : Handled(d)
    BY <1>3, CloseKeepsMessages DEF Handled
<1>4. ASSUME NEW c \in Conns, Greet(c) \/ Reply(c)
      PROVE  Channels /\ \A d \in Conns : Handled(d)
    BY <1>1, <1>4 DEF Greet, Reply, Messages, Senders
<1>5. ASSUME NEW w \in Consumers, NEW c \in Conns, BroadcastTo(w, c)
      PROVE  Channels /\ \A d \in Conns : Handled(d)
    <2>1. work[w].event \in Messages
        BY <1>5 DEF BroadcastTo, ViewersInv, Messages, Jobs
    <2> QED BY <1>1, <1>5, <2>1 DEF BroadcastTo, Senders
<1>10. ASSUME NEW s \in Senders, NEW c \in Conns, CloseFull(s, c)
      PROVE  Channels /\ \A d \in Conns : Handled(d)
    BY <1>10, CloseFullKeepsMessages DEF Handled
<1>6. ASSUME NEW c \in Conns,
             \/ Arrive(c) \/ Enters(c) \/ EnterFails(c) \/ Start(c) \/ CloseAfterLeave(c) \/ RemoveFromHub(c)
             \/ Leaves(c) \/ ReadEnds(c) \/ WriteFails(c) \/ Ask(c) \/ CloseNext(c)
      PROVE  Channels /\ \A d \in Conns : Handled(d)
    BY <1>3, <1>6 DEF Arrive, Enters, EnterFails, Start, CloseAfterLeave, RemoveFromHub, Leaves, ReadEnds,
                      WriteFails, Ask, CloseNext
<1>7. ASSUME UNCHANGED conn
      PROVE  Channels /\ \A d \in Conns : Handled(d)
    BY <1>7 DEF conn, Channels, Handled, Rests, ViewersInv, Doomed
<1>8. ASSUME NEW w \in Consumers, NEW e \in Events, Receive(w, e)
      PROVE  Channels /\ \A d \in Conns : Handled(d)
    BY <1>7, <1>8 DEF Receive
<1>9. ASSUME \/ (\E e \in Events : Forget(e)) \/ CloseAll \/ Exits \/ UNCHANGED viewersVars
      PROVE  Channels /\ \A d \in Conns : Handled(d)
    BY <1>7, <1>9 DEF Forget, CloseAll, Exits, viewersVars
<1> QED BY <1>2, <1>4, <1>5, <1>6, <1>8, <1>9, <1>10 DEF ViewersNext, GatewayNext, Running, Broadcasts, Serve, Senders

-----------------------------------------------------------------------------
(* ViewersTypeOK is inductive with its domains.                               *)
LEMMA InitGivesInv ==
    ASSUME ViewersInit PROVE ViewersInv
BY ViewersAssumption DEF ViewersInit, ViewersInv, ViewersAssumption, Phases, Senders

LEMMA MovesKeepPhases ==
    ASSUME phase \in [Conns -> Phases], NEW c \in Conns, NEW from, NEW to \in Phases, Moves(c, from, to)
    PROVE  phase' \in [Conns -> Phases]
BY DEF Moves

LEMMA StepsKeepInv ==
    ASSUME ViewersInv, [ViewersNext]_viewersVars
    PROVE  ViewersInv'
<1> DEFINE Rest == /\ phase' \in [Conns -> Phases] /\ hub' \subseteq Conns /\ asked' \in [Conns -> 0..MaxRequests]
                   /\ seen' \subseteq Events /\ forgotten' \subseteq Events
                   /\ given' \in [Events -> Nat]
                   /\ work' \in [Consumers -> {Idle} \cup Jobs]
                   /\ closing' = Idle \/ closing' \subseteq Conns
                   /\ up' \in BOOLEAN
<1>1. Channels
    BY StepsHandleMessages
<1> SUFFICES Rest
    BY <1>1 DEF Channels, ViewersInv
<1>0. up' \in BOOLEAN
    BY DEF ViewersNext, Running, Exits, viewersVars, ViewersInv
<1> USE <1>0
<1>2. ASSUME NEW c \in Conns,
             \/ Arrive(c) \/ Enters(c) \/ EnterFails(c) \/ Greet(c) \/ Start(c) \/ Reply(c) \/ CloseAfterLeave(c)
             \/ RemoveFromHub(c) \/ Leaves(c) \/ ReadEnds(c)
      PROVE  Rest
    <2>1. \E from, to \in Phases : Moves(c, from, to)
        BY <1>2 DEF Arrive, Enters, EnterFails, Greet, Start, Reply, CloseAfterLeave, RemoveFromHub, Leaves,
                    ReadEnds, Phases
    <2>2. phase' \in [Conns -> Phases]
        BY <2>1, MovesKeepPhases DEF ViewersInv
    <2> QED BY <1>2, <2>2 DEF Arrive, Enters, EnterFails, Greet, Start, Reply, CloseAfterLeave, RemoveFromHub,
                              Leaves, ReadEnds, consumer, ViewersInv
<1>3. ASSUME NEW c \in Conns, Ask(c)
      PROVE  Rest
    <2>1. Moves(c, "reading", "asking") /\ "asking" \in Phases
        BY <1>3 DEF Ask, Phases
    <2>2. phase' \in [Conns -> Phases]
        BY <2>1, MovesKeepPhases DEF ViewersInv
    <2>3. asked' \in [Conns -> 0..MaxRequests]
        BY <1>3, ViewersAssumption DEF Ask, ViewersInv, ViewersAssumption
    <2> QED BY <1>3, <2>2, <2>3 DEF Ask, consumer, ViewersInv
<1>4. ASSUME NEW c \in Conns, Write(c) \/ WriteFails(c) \/ CloseNext(c) \/ \E s \in Senders : CloseFull(s, c)
      PROVE  Rest
    BY <1>4 DEF Write, WriteFails, CloseNext, CloseFull, consumer, ViewersInv
<1>5. ASSUME NEW w \in Consumers, NEW e \in Events, Receive(w, e)
      PROVE  Rest
    <2>1. given' \in [Events -> Nat]
        BY <1>5, ViewersAssumption DEF Receive, ViewersInv, ViewersAssumption
    <2>2. Broadcasting(e, hub) \in {Idle} \cup Jobs
        BY DEF Broadcasting, Jobs, ViewersInv
    <2> QED BY <1>5, <2>1, <2>2 DEF Receive, conn, ViewersInv
<1>6. ASSUME NEW w \in Consumers, NEW c \in Conns, BroadcastTo(w, c)
      PROVE  Rest
    <2>1. work[w] \in Jobs
        BY <1>6 DEF BroadcastTo, ViewersInv
    <2>2. Broadcasting(work[w].event, work[w].to \ {c}) \in {Idle} \cup Jobs
        BY <2>1 DEF Broadcasting, Jobs
    <2> QED BY <1>6, <2>2 DEF BroadcastTo, ViewersInv
<1>7. ASSUME (\E e \in Events : Forget(e)) \/ CloseAll \/ Exits \/ UNCHANGED viewersVars
      PROVE  Rest
    BY <1>7 DEF Forget, CloseAll, Exits, conn, consumer, viewersVars, ViewersInv
<1> QED BY <1>2, <1>3, <1>4, <1>5, <1>6, <1>7 DEF ViewersNext, GatewayNext, Running, Broadcasts, Serve, Senders

(* ViewersTypeOK of every behaviour. *)
LEMMA InvHolds == ViewersSpec => []ViewersInv
<1> QED BY InitGivesInv, StepsKeepInv, PTL DEF ViewersSpec

THEOREM ViewersTyped == ViewersSpec => []ViewersTypeOK
<1>1. ViewersInv => ViewersTypeOK
    BY DEF ViewersInv, ViewersTypeOK, Jobs, Senders
<1> QED BY <1>1, InvHolds, PTL

-----------------------------------------------------------------------------
(* Nothing is lost between the hand-over and the client unless the connection *)
(* is doomed for it, and what is doomed stays so.                             *)

LEMMA AppendToConcat ==
    ASSUME NEW S, NEW s \in Seq(S), NEW t \in Seq(S), NEW m \in S
    PROVE  s \o Append(t, m) = Append(s \o t, m)
BY AppendIsConcat, ConcatAssociative, ConcatProperties

LEMMA HeadMovesOver ==
    ASSUME NEW S, NEW s \in Seq(S), NEW t \in Seq(S), t # <<>>
    PROVE  Append(s, Head(t)) \o Tail(t) = s \o t
<1> DEFINE u == Append(s, Head(t))
<1>1. /\ Head(t) \in S /\ Tail(t) \in Seq(S) /\ Len(Tail(t)) = Len(t) - 1
      /\ \A i \in 1..Len(Tail(t)) : Tail(t)[i] = t[i + 1]
    BY HeadTailProperties
<1>2. /\ u \in Seq(S) /\ Len(u) = Len(s) + 1 /\ u[Len(s) + 1] = Head(t)
      /\ \A i \in 1..Len(s) : u[i] = s[i]
    BY <1>1, AppendProperties
<1>3. /\ Len(s) \in Nat /\ Len(t) \in Nat /\ Len(t) # 0 /\ Head(t) = t[1]
    BY LenProperties, EmptySeq, HeadTailProperties
<1> HIDE DEF u
<1>4. /\ u \o Tail(t) \in Seq(S) /\ Len(u \o Tail(t)) = Len(u) + Len(Tail(t))
      /\ \A i \in 1..Len(u) + Len(Tail(t)) :
             (u \o Tail(t))[i] = IF i <= Len(u) THEN u[i] ELSE Tail(t)[i - Len(u)]
    BY <1>1, <1>2, ConcatProperties
<1>5. /\ s \o t \in Seq(S) /\ Len(s \o t) = Len(s) + Len(t)
      /\ \A i \in 1..Len(s) + Len(t) : (s \o t)[i] = IF i <= Len(s) THEN s[i] ELSE t[i - Len(s)]
    BY ConcatProperties
<1>6. Len(u \o Tail(t)) = Len(s \o t)
    BY <1>1, <1>2, <1>3, <1>4, <1>5
<1>7. ASSUME NEW i \in 1..Len(u \o Tail(t))
      PROVE  (u \o Tail(t))[i] = (s \o t)[i]
    <2>1. CASE i <= Len(s)
        BY <2>1, <1>2, <1>3, <1>4, <1>5, <1>6
    <2>2. CASE i = Len(s) + 1
        BY <2>2, <1>2, <1>3, <1>4, <1>5, <1>6
    <2>3. CASE i > Len(s) + 1
        <3>1. i - Len(u) \in 1..Len(Tail(t)) /\ i - Len(u) + 1 = i - Len(s)
            BY <2>3, <1>1, <1>2, <1>3, <1>4, <1>6
        <3>2. (u \o Tail(t))[i] = Tail(t)[i - Len(u)] /\ (s \o t)[i] = t[i - Len(s)]
            BY <2>3, <1>1, <1>2, <1>3, <1>4, <1>5, <1>6
        <3> QED BY <3>1, <3>2, <1>1
    <2> QED BY <2>1, <2>2, <2>3, <1>2, <1>3, <1>6, <1>5
<1> QED BY <1>4, <1>5, <1>6, <1>7, SeqEqual DEF u

LEMMA StepsKeepNoGaps ==
    ASSUME ViewersInv, NoGaps, [ViewersNext]_viewersVars
    PROVE  NoGaps'
<1> SUFFICES ASSUME NEW c \in Conns, ~Doomed(c)' PROVE got'[c] \o queue'[c] = sent'[c]
    BY DEF NoGaps
<1>0. Channels /\ Handled(c)
    BY StepsHandleMessages
<1>1. got[c] \in Seq(Messages) /\ queue[c] \in Seq(Messages) /\ got[c] \o queue[c] = sent[c]
    BY <1>0 DEF ViewersInv, NoGaps, Channels
<1>2. CASE Rests(c)
    BY <1>1, <1>2 DEF Rests
<1>3. CASE Delivers(c)
    BY <1>1, <1>3, HeadMovesOver DEF Delivers
<1>4. ASSUME NEW m \in Messages, Takes(c, m)
      PROVE  got'[c] \o queue'[c] = sent'[c]
    <2>1. got[c] \in Seq(Messages) /\ queue[c] \in Seq(Messages) /\ m \in Messages
        BY <1>1, <1>4
    <2>2. \A s, t \in Seq(Messages), n \in Messages : s \o Append(t, n) = Append(s \o t, n)
        BY AppendToConcat
    <2>3. got[c] \o Append(queue[c], m) = Append(got[c] \o queue[c], m)
        BY <2>1, <2>2
    <2> QED BY <1>1, <1>4, <2>3 DEF Takes
<1> QED BY <1>0, <1>2, <1>3, <1>4 DEF Handled, Drops

(* A client whose connection nobody has closed, or is about to close, has     *)
(* missed nothing and will be written the rest in order, however slowly it    *)
(* reads and whoever sends to it.                                             *)
THEOREM ClientsMissNothing == ViewersSpec => []NoGaps
<1>1. ViewersInit => NoGaps
    <2>1. <<>> \in Seq(Messages) /\ <<>> \o <<>> = <<>>
        BY EmptySeq, ConcatEmptySeq
    <2> QED BY <2>1 DEF ViewersInit, NoGaps
<1>2. ViewersInv /\ NoGaps /\ [ViewersNext]_viewersVars => NoGaps'
    BY StepsKeepNoGaps
<1> QED BY <1>1, <1>2, InvHolds, PTL DEF ViewersSpec

-----------------------------------------------------------------------------
(* Where a connection stands: in the hub from its arrival until it is taken   *)
(* out, closed once it is on its way out, and given nothing before it arrived. *)
Unknown(c) ==
    /\ c \notin hub /\ sent[c] = <<>>
    /\ \A w \in Consumers : work[w] # Idle => c \notin work[w].to

Placed(c) ==
    /\ phase[c] = "none" => Unknown(c)
    /\ phase[c] \in {"added", "entered", "greeted", "reading", "asking", "leaving"} => c \in hub
    /\ phase[c] \in {"ended", "removed", "left", "kept", "refused"} => closed[c]

AllPlaced == \A c \in Conns : Placed(c)

(* A step that leaves hub and broadcasts alone and sends nothing to those who *)
(* have not arrived, and moves no connection past its removal.                *)
LEMMA StepsWithinTheHub ==
    ASSUME ViewersInv, AllPlaced, UNCHANGED <<hub, work>>,
           \A c \in Conns : closed[c] => closed'[c],
           \A c \in Conns : phase[c] = "none" => phase'[c] = "none" /\ sent'[c] = sent[c],
           \A c \in Conns : phase[c] # "none" =>
               \/ phase'[c] = phase[c]
               \/ /\ phase[c] \in {"added", "entered", "greeted", "reading", "asking", "leaving"}
                  /\ phase'[c] \in {"added", "entered", "greeted", "reading", "asking", "leaving"}
    PROVE  AllPlaced'
BY DEF AllPlaced, Placed, Unknown, ViewersInv, Phases

LEMMA StepsKeepPlaced ==
    ASSUME ViewersInv, AllPlaced, [ViewersNext]_viewersVars
    PROVE  AllPlaced'
<1>1. Channels /\ \A c \in Conns : Handled(c)
    BY StepsHandleMessages
<1>2. \A c \in Conns : closed[c] => closed'[c]
    BY <1>1 DEF Channels
<1>3. ASSUME NEW c \in Conns, Arrive(c)
      PROVE  AllPlaced'
    BY <1>3 DEF Arrive, Moves, consumer, AllPlaced, Placed, Unknown, ViewersInv
<1>4. ASSUME NEW c \in Conns, EnterFails(c) \/ RemoveFromHub(c) \/ Leaves(c) \/ ReadEnds(c)
      PROVE  AllPlaced'
    <2>1. \A d \in Conns \ {c} : phase'[d] = phase[d] /\ sent'[d] = sent[d] /\ (d \in hub <=> d \in hub')
        BY <1>4 DEF EnterFails, RemoveFromHub, Leaves, ReadEnds, Moves, ViewersInv
    <2>2. UNCHANGED work /\ phase[c] # "none"
        BY <1>4 DEF EnterFails, RemoveFromHub, Leaves, ReadEnds, Moves, consumer
    <2>3. phase'[c] \in {"ended", "removed", "left", "kept", "refused"} /\ closed'[c]
        BY <1>4 DEF EnterFails, RemoveFromHub, Leaves, ReadEnds, Moves, Close, AllPlaced, Placed, ViewersInv
    <2> QED BY <1>2, <2>1, <2>2, <2>3 DEF AllPlaced, Placed, Unknown
<1>5. ASSUME NEW c \in Conns, Greet(c) \/ Reply(c)
      PROVE  AllPlaced'
    <2>1. \A d \in Conns \ {c} : phase'[d] = phase[d] /\ sent'[d] = sent[d]
        BY <1>5 DEF Greet, Reply, Moves, Send, ViewersInv
    <2>2. UNCHANGED <<hub, work>>
        BY <1>5 DEF Greet, Reply, consumer
    <2>3. /\ phase[c] \in {"entered", "asking"}
          /\ phase'[c] \in {"greeted", "reading", "leaving"}
        BY <1>5 DEF Greet, Reply, Moves, ViewersInv
    <2> QED BY <1>2, <2>1, <2>2, <2>3, StepsWithinTheHub
<1>6. ASSUME NEW c \in Conns,
             \/ Enters(c) \/ Start(c) \/ CloseAfterLeave(c) \/ Ask(c) \/ Write(c) \/ WriteFails(c) \/ CloseNext(c)
             \/ \E s \in Senders : CloseFull(s, c)
      PROVE  AllPlaced'
    <2>1. UNCHANGED <<hub, work, sent>>
        BY <1>6 DEF Enters, Start, CloseAfterLeave, Ask, Write, WriteFails, CloseNext, CloseFull, consumer
    <2>2. \A d \in Conns : \/ phase'[d] = phase[d]
                           \/ /\ phase[d] \in {"added", "entered", "greeted", "reading", "asking", "leaving"}
                              /\ phase'[d] \in {"added", "entered", "greeted", "reading", "asking", "leaving"}
        BY <1>6 DEF Enters, Start, CloseAfterLeave, Ask, Write, WriteFails, CloseNext, CloseFull, Moves, ViewersInv
    <2> QED BY <1>2, <2>1, <2>2, StepsWithinTheHub
<1>7. ASSUME NEW w \in Consumers, NEW e \in Events, Receive(w, e)
      PROVE  AllPlaced'
    <2>1. UNCHANGED <<phase, closed, sent, hub>>
        BY <1>7 DEF Receive, conn
    <2>2. /\ \A v \in Consumers \ {w} : work'[v] = work[v]
          /\ work'[w] = Idle \/ work'[w] = [event |-> e, to |-> hub]
        BY <1>7 DEF Receive, Broadcasting, ViewersInv
    <2>3. ASSUME NEW d \in Conns, Unknown(d), NEW v \in Consumers, work'[v] # Idle
          PROVE  d \notin work'[v].to
        <3>1. CASE v = w
            BY <2>2, <2>3, <3>1 DEF Unknown
        <3>2. CASE v # w
            BY <2>2, <2>3, <3>2 DEF Unknown
        <3> QED BY <3>1, <3>2
    <2>4. \A d \in Conns : Unknown(d) => Unknown(d)'
        BY <2>1, <2>3 DEF Unknown
    <2> QED BY <2>1, <2>4 DEF AllPlaced, Placed
<1>8. ASSUME NEW w \in Consumers, NEW c \in Conns, BroadcastTo(w, c)
      PROVE  AllPlaced'
    <2>1. UNCHANGED <<phase, hub>> /\ phase[c] # "none"
        BY <1>8 DEF BroadcastTo, AllPlaced, Placed, Unknown
    <2>2. \A d \in Conns \ {c} : sent'[d] = sent[d]
        BY <1>8 DEF BroadcastTo, Send, ViewersInv
    <2>3. /\ \A v \in Consumers \ {w} : work'[v] = work[v]
          /\ work'[w] = Idle \/ work'[w].to = work[w].to \ {c}
        BY <1>8 DEF BroadcastTo, Broadcasting, ViewersInv
    <2>4. ASSUME NEW d \in Conns, Unknown(d), NEW v \in Consumers, work'[v] # Idle
          PROVE  d \notin work'[v].to
        <3>1. CASE v = w
            BY <1>8, <2>3, <2>4, <3>1 DEF Unknown, BroadcastTo
        <3>2. CASE v # w
            BY <2>3, <2>4, <3>2 DEF Unknown
        <3> QED BY <3>1, <3>2
    <2>5. \A d \in Conns \ {c} : Unknown(d) => Unknown(d)'
        BY <2>1, <2>2, <2>4 DEF Unknown
    <2> QED BY <1>2, <2>1, <2>5 DEF AllPlaced, Placed
<1>9. ASSUME (\E e \in Events : Forget(e)) \/ CloseAll \/ Exits \/ UNCHANGED viewersVars
      PROVE  AllPlaced'
    BY <1>9 DEF Forget, CloseAll, Exits, conn, consumer, viewersVars, AllPlaced, Placed, Unknown
<1> QED BY <1>3, <1>4, <1>5, <1>6, <1>7, <1>8, <1>9 DEF ViewersNext, GatewayNext, Running, Broadcasts, Serve, Senders

(* Whoever was told it is connected is among those every later event is       *)
(* broadcast to, until its connection is closed.                              *)
THEOREM GreetedHearEverything == ViewersSpec => []GreetedAreReached
<1>1. ViewersInit => AllPlaced
    BY DEF ViewersInit, AllPlaced, Placed, Unknown
<1>2. ViewersInv /\ AllPlaced /\ [ViewersNext]_viewersVars => AllPlaced'
    BY StepsKeepPlaced
<1>3. ViewersInv /\ AllPlaced => GreetedAreReached
    <2> SUFFICES ASSUME ViewersInv, NEW c \in Conns, Placed(c), Connected \in ToSet(sent[c]), ~closed[c]
                 PROVE  c \in hub
        BY DEF AllPlaced, GreetedAreReached
    <2>1. sent[c] # <<>>
        BY DEF ToSet
    <2> QED BY <2>1 DEF Placed, Unknown, ViewersInv, Phases
<1> QED BY <1>1, <1>2, <1>3, InvHolds, PTL DEF ViewersSpec

-----------------------------------------------------------------------------
(* An event the deduper has not seen was handed to nobody, one it remembers   *)
(* is with one goroutine at most, and those that one has still to serve have  *)
(* not been handed it.                                                        *)
Among(e, s) == \E i \in DOMAIN s : s[i] = e
OnlyOnce(e, s) == \A i, j \in DOMAIN s : s[i] = e /\ s[j] = e => i = j
Carries(w, e) == work[w] # Idle /\ work[w].event = e

UnseenIsUnsent ==
    \A e \in Events \ (seen \cup forgotten) :
        (\A c \in Conns : ~Among(e, sent[c])) /\ (\A w \in Consumers : ~Carries(w, e))
OneCarrier == \A e \in Events \ forgotten, v, w \in Consumers : Carries(v, e) /\ Carries(w, e) => v = w
ServedFirst ==
    \A e \in Events \ forgotten, w \in Consumers, c \in Conns :
        Carries(w, e) /\ c \in work[w].to => ~Among(e, sent[c])
HandedOnce == \A e \in Events \ forgotten, c \in Conns : OnlyOnce(e, sent[c])

Deduped == UnseenIsUnsent /\ OneCarrier /\ ServedFirst /\ HandedOnce

LEMMA AppendAmong ==
    ASSUME NEW s \in Seq(Messages), NEW m \in Messages, NEW e
    PROVE  /\ Among(e, Append(s, m)) <=> Among(e, s) \/ e = m
           /\ OnlyOnce(e, s) /\ (e = m => ~Among(e, s)) => OnlyOnce(e, Append(s, m))
<1> DEFINE t == Append(s, m)
<1>1. /\ Len(s) \in Nat /\ DOMAIN s = 1..Len(s) /\ DOMAIN t = 1..Len(s) + 1
      /\ t[Len(s) + 1] = m /\ \A i \in 1..Len(s) : t[i] = s[i]
    BY AppendProperties, LenProperties
<1> HIDE DEF t
<1>2. \A i \in DOMAIN t : i \in DOMAIN s \/ i = Len(s) + 1
    BY <1>1
<1>3. DOMAIN s \subseteq DOMAIN t /\ Len(s) + 1 \in DOMAIN t
    BY <1>1
<1>4. Among(e, t) <=> Among(e, s) \/ e = m
    BY <1>1, <1>2, <1>3 DEF Among
<1>5. ASSUME OnlyOnce(e, s), e = m => ~Among(e, s)
      PROVE  OnlyOnce(e, t)
    BY <1>1, <1>2, <1>3, <1>5 DEF Among, OnlyOnce
<1> QED BY <1>4, <1>5 DEF t

(* No event is handed over, and none is taken up or forgotten. *)
LEMMA OtherStepsKeepDeduped ==
    ASSUME Deduped, UNCHANGED <<seen, forgotten, work>>,
           \A c \in Conns, e \in Events :
               (Among(e, sent'[c]) <=> Among(e, sent[c])) /\ (OnlyOnce(e, sent[c]) => OnlyOnce(e, sent'[c]))
    PROVE  Deduped'
<1> USE DEF Deduped
<1>1. UnseenIsUnsent'
    BY DEF UnseenIsUnsent, Carries
<1>2. OneCarrier'
    BY DEF OneCarrier, Carries
<1>3. ServedFirst'
    BY DEF ServedFirst, Carries
<1>4. HandedOnce'
    BY DEF HandedOnce
<1> QED BY <1>1, <1>2, <1>3, <1>4

LEMMA AnswersKeepDeduped ==
    ASSUME ViewersInv, Deduped, NEW c \in Conns, Greet(c) \/ Reply(c)
    PROVE  Deduped'
<1>1. PICK m \in {Connected, Answer} : Send(c, c, m) /\ UNCHANGED <<got, seen, forgotten, work>>
    BY DEF Greet, Reply, consumer
<1>2. m \in Messages /\ m \notin Events
    BY ViewersAssumption DEF Messages, ViewersAssumption
<1>3. /\ \A d \in Conns \ {c} : sent'[d] = sent[d]
      /\ sent'[c] = sent[c] \/ sent'[c] = Append(sent[c], m)
    BY <1>1, <1>2, SendTakesOrDooms DEF Rests, Takes, Drops, Senders
<1>4. ASSUME NEW d \in Conns, NEW e \in Events
      PROVE  (Among(e, sent'[d]) <=> Among(e, sent[d])) /\ (OnlyOnce(e, sent[d]) => OnlyOnce(e, sent'[d]))
    <2>1. CASE sent'[d] = sent[d]
        BY <2>1
    <2>2. CASE d = c /\ sent'[c] = Append(sent[c], m)
        <3>1. sent[c] \in Seq(Messages) /\ e # m
            BY <1>2 DEF ViewersInv
        <3> QED BY <1>2, <2>2, <3>1, AppendAmong
    <2> QED BY <1>3, <2>1, <2>2
<1> QED BY <1>1, <1>4, OtherStepsKeepDeduped

LEMMA BroadcastsKeepDeduped ==
    ASSUME ViewersInv, Deduped, NEW w \in Consumers, NEW c \in Conns, BroadcastTo(w, c)
    PROVE  Deduped'
<1> DEFINE m == work[w].event
<1>1. m \in Events /\ m \in Messages /\ Carries(w, m) /\ c \in work[w].to
    BY DEF BroadcastTo, ViewersInv, Messages, Jobs, Carries
<1>2. UNCHANGED <<got, seen, forgotten>> /\ Send(w, c, m)
    BY DEF BroadcastTo
<1>3. /\ \A d \in Conns \ {c} : sent'[d] = sent[d]
      /\ sent'[c] = sent[c] \/ sent'[c] = Append(sent[c], m)
    BY <1>1, <1>2, SendTakesOrDooms DEF Rests, Takes, Drops, Senders
<1>4. /\ \A v \in Consumers \ {w} : work'[v] = work[v]
      /\ work'[w] = Idle \/ (work'[w].event = m /\ work'[w].to = work[w].to \ {c})
    BY DEF BroadcastTo, Broadcasting, ViewersInv
<1>5. \A v \in Consumers, e \in Events : Carries(v, e)' => Carries(v, e)
    BY <1>4, <1>1 DEF Carries
<1>6. ASSUME NEW d \in Conns, NEW e \in Events
      PROVE  Among(e, sent'[d]) <=> Among(e, sent[d]) \/ (d = c /\ e = m /\ sent'[c] # sent[c])
    <2>1. CASE sent'[d] = sent[d]
        BY <2>1
    <2>2. CASE d = c /\ sent'[c] = Append(sent[c], m) /\ sent'[c] # sent[c]
        <3>1. sent[c] \in Seq(Messages)
            BY DEF ViewersInv
        <3> QED BY <1>1, <2>2, <3>1, AppendAmong
    <2> QED BY <1>3, <2>1, <2>2
<1>7. m \notin forgotten => ~Among(m, sent[c]) /\ m \in seen
    BY <1>1 DEF Deduped, ServedFirst, UnseenIsUnsent
<1> HIDE DEF m
<1>8. UnseenIsUnsent'
    BY <1>1, <1>2, <1>5, <1>6, <1>7 DEF Deduped, UnseenIsUnsent
<1>9. OneCarrier'
    BY <1>2, <1>5 DEF Deduped, OneCarrier
<1>10. ServedFirst'
    <2> SUFFICES ASSUME NEW e \in Events \ forgotten, NEW v \in Consumers, NEW d \in Conns,
                        Carries(v, e)', d \in work'[v].to
                 PROVE  ~Among(e, sent'[d])
        BY <1>2 DEF ServedFirst
    <2>1. Carries(v, e)
        BY <1>5
    <2>2. d \in work[v].to /\ (v = w => d # c)
        BY <1>4 DEF Carries
    <2>3. ~Among(e, sent[d])
        BY <2>1, <2>2 DEF Deduped, ServedFirst
    <2>4. e = m => v = w
        BY <1>1, <2>1 DEF Deduped, OneCarrier
    <2> QED BY <1>6, <2>2, <2>3, <2>4
<1>11. HandedOnce'
    <2> SUFFICES ASSUME NEW e \in Events \ forgotten, NEW d \in Conns
                 PROVE  OnlyOnce(e, sent'[d])
        BY <1>2 DEF HandedOnce
    <2>1. OnlyOnce(e, sent[d]) /\ sent[d] \in Seq(Messages)
        BY DEF Deduped, HandedOnce, ViewersInv
    <2>2. CASE sent'[d] = sent[d]
        BY <2>1, <2>2
    <2>3. CASE d = c /\ sent'[c] = Append(sent[c], m)
        BY <1>1, <1>7, <2>1, <2>3, AppendAmong
    <2> QED BY <1>3, <2>2, <2>3
<1> QED BY <1>8, <1>9, <1>10, <1>11 DEF Deduped

LEMMA ReceiveKeepsDeduped ==
    ASSUME ViewersInv, Deduped, NEW w \in Consumers, NEW e \in Events, Receive(w, e)
    PROVE  Deduped'
<1>1. UNCHANGED <<sent, forgotten>> /\ seen' = seen \cup {e} /\ work[w] = Idle
    BY DEF Receive, conn
<1>2. /\ \A v \in Consumers \ {w} : work'[v] = work[v]
      /\ \/ work'[w] = Idle
         \/ e \notin seen /\ work'[w].event = e /\ work'[w].to = hub
    BY DEF Receive, Broadcasting, ViewersInv
<1>3. \A v \in Consumers, d \in Events :
          Carries(v, d)' => (v # w /\ Carries(v, d) /\ work'[v] = work[v]) \/ (v = w /\ d = e /\ e \notin seen)
    BY <1>2 DEF Carries
<1>4. e \notin seen \cup forgotten =>
          (\A c \in Conns : ~Among(e, sent[c])) /\ (\A v \in Consumers : ~Carries(v, e))
    BY DEF Deduped, UnseenIsUnsent
<1>5. UnseenIsUnsent'
    BY <1>1, <1>3 DEF Deduped, UnseenIsUnsent
<1>6. OneCarrier'
    BY <1>1, <1>3, <1>4 DEF Deduped, OneCarrier
<1>7. ServedFirst'
    BY <1>1, <1>3, <1>4 DEF Deduped, ServedFirst
<1>8. HandedOnce'
    BY <1>1 DEF Deduped, HandedOnce
<1> QED BY <1>5, <1>6, <1>7, <1>8 DEF Deduped

LEMMA StepsKeepDeduped ==
    ASSUME ViewersInv, Deduped, [ViewersNext]_viewersVars
    PROVE  Deduped'
<1>1. ASSUME UNCHANGED <<sent, seen, forgotten, work>>
      PROVE  Deduped'
    BY <1>1, OtherStepsKeepDeduped
<1>2. ASSUME NEW c \in Conns,
             \/ Arrive(c) \/ Enters(c) \/ EnterFails(c) \/ Start(c) \/ CloseAfterLeave(c) \/ RemoveFromHub(c)
             \/ Leaves(c) \/ ReadEnds(c) \/ Write(c) \/ WriteFails(c) \/ Ask(c) \/ CloseNext(c)
             \/ \E s \in Senders : CloseFull(s, c)
      PROVE  Deduped'
    BY <1>1, <1>2 DEF Arrive, Enters, EnterFails, Start, CloseAfterLeave, RemoveFromHub, Leaves, ReadEnds,
                      Write, WriteFails, Ask, CloseNext, CloseFull, consumer
<1>3. ASSUME NEW e \in Events, Forget(e)
      PROVE  Deduped'
    BY <1>3 DEF Forget, conn, Deduped, UnseenIsUnsent, OneCarrier, ServedFirst, HandedOnce, Carries
<1>4. CASE CloseAll \/ Exits \/ UNCHANGED viewersVars
    BY <1>1, <1>4 DEF CloseAll, Exits, viewersVars, conn, consumer
<1> QED BY <1>2, <1>3, <1>4, AnswersKeepDeduped, BroadcastsKeepDeduped, ReceiveKeepsDeduped
    DEF ViewersNext, GatewayNext, Running, Broadcasts, Serve, Senders

(* However often an event is delivered, to however many consumers, at         *)
(* whatever point of their broadcasts, a connection is handed it once.        *)
THEOREM EventsAreHandedOnce == ViewersSpec => []OncePerEvent
<1>1. ViewersInit => Deduped
    BY DEF ViewersInit, Deduped, UnseenIsUnsent, OneCarrier, ServedFirst, HandedOnce, Carries, Among, OnlyOnce
<1>2. ViewersInv /\ Deduped /\ [ViewersNext]_viewersVars => Deduped'
    BY StepsKeepDeduped
<1>3. Deduped => OncePerEvent
    BY DEF Deduped, HandedOnce, OnlyOnce, OncePerEvent
<1> QED BY <1>1, <1>2, <1>3, InvHolds, PTL DEF ViewersSpec
=============================================================================
