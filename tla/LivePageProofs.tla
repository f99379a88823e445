---------------------------- MODULE LivePageProofs --------------------------
(* What the live page shows is of the room it is in, for any rooms and        *)
(* auctions and any number of visits, changes, calls under way and failures.  *)
EXTENDS LivePage, SequenceTheorems, TLAPS

-----------------------------------------------------------------------------
(* Sequences *)

LEMMA SameDomain ==
    ASSUME NEW S, NEW s \in Seq(S), NEW f \in [DOMAIN s -> S]
    PROVE  f \in Seq(S) /\ Len(f) = Len(s) /\ DOMAIN f = DOMAIN s
<1>1. Len(s) \in Nat /\ DOMAIN s = 1..Len(s)
    BY LenProperties
<1>2. f \in [1..Len(s) -> S]
    BY <1>1
<1> QED BY <1>1, <1>2

LEMMA OneElement ==
    ASSUME NEW S, NEW s \in Seq(S), NEW n \in DOMAIN s, NEW v \in S, NEW t, t = [s EXCEPT ![n] = v]
    PROVE  /\ t \in Seq(S) /\ Len(t) = Len(s) /\ DOMAIN t = DOMAIN s /\ t[n] = v
           /\ \A k \in DOMAIN s \ {n} : t[k] = s[k]
BY LenProperties, ExceptSeq

LEMMA RemovedElement ==
    ASSUME NEW S, NEW s \in Seq(S), NEW i \in DOMAIN s
    PROVE  /\ RemoveAt(s, i) \in Seq(S) /\ Len(RemoveAt(s, i)) = Len(s) - 1
           /\ DOMAIN RemoveAt(s, i) = 1..(Len(s) - 1)
           /\ \A k \in 1..(Len(s) - 1) : RemoveAt(s, i)[k] = s[IF k < i THEN k ELSE k + 1]
<1> DEFINE u == SubSeq(s, 1, i - 1)
           v == SubSeq(s, i + 1, Len(s))
<1>1. Len(s) \in Nat /\ DOMAIN s = 1..Len(s) /\ i \in 1..Len(s) /\ \A k \in 1..Len(s) : s[k] \in S
    BY LenProperties, ElementOfSeq
<1>2. /\ u \in Seq(S) /\ Len(u) = i - 1 /\ \A k \in 1..(i - 1) : u[k] = s[k]
    <2>1. \A k \in 1..(i - 1) : s[k] \in S
        BY <1>1
    <2>2. /\ u \in Seq(S) /\ Len(u) = (IF 1 <= i - 1 THEN (i - 1) - 1 + 1 ELSE 0)
          /\ \A k \in 1..((i - 1) - 1 + 1) : u[k] = s[1 + k - 1]
        BY <1>1, <2>1, SubSeqProperties
    <2> HIDE DEF u
    <2> QED BY <1>1, <2>2
<1>3. /\ v \in Seq(S) /\ Len(v) = Len(s) - i /\ \A k \in 1..(Len(s) - i) : v[k] = s[i + k]
    <2>1. \A k \in (i + 1)..Len(s) : s[k] \in S
        BY <1>1
    <2>2. /\ v \in Seq(S) /\ Len(v) = (IF i + 1 <= Len(s) THEN Len(s) - (i + 1) + 1 ELSE 0)
          /\ \A k \in 1..(Len(s) - (i + 1) + 1) : v[k] = s[(i + 1) + k - 1]
        BY <1>1, <2>1, SubSeqProperties
    <2> HIDE DEF v
    <2>3. \A k \in 1..(Len(s) - i) : k \in 1..(Len(s) - (i + 1) + 1) /\ (i + 1) + k - 1 = i + k
        BY <1>1
    <2>4. Len(v) = Len(s) - i
        BY <1>1, <2>2
    <2> QED BY <2>2, <2>3, <2>4
<1>4. RemoveAt(s, i) = u \o v
    BY DEF RemoveAt
<1> HIDE DEF u, v
<1>5. /\ u \o v \in Seq(S) /\ Len(u \o v) = Len(u) + Len(v)
      /\ \A k \in 1..(Len(u) + Len(v)) : (u \o v)[k] = IF k <= Len(u) THEN u[k] ELSE v[k - Len(u)]
    BY <1>2, <1>3, ConcatProperties
<1>6. Len(u \o v) = Len(s) - 1 /\ DOMAIN (u \o v) = 1..(Len(s) - 1)
    <2>1. Len(u) + Len(v) = Len(s) - 1
        BY <1>1, <1>2, <1>3
    <2> QED BY <1>5, <2>1, LenProperties
<1>7. ASSUME NEW k \in 1..(Len(s) - 1)
      PROVE  (u \o v)[k] = s[IF k < i THEN k ELSE k + 1]
    <2>1. CASE k < i
        BY <1>1, <1>2, <1>3, <1>5, <2>1
    <2>2. CASE k >= i
        <3>1. k - Len(u) \in 1..(Len(s) - i) /\ i + (k - Len(u)) = k + 1
            BY <1>1, <1>2, <2>2
        <3>2. k \in 1..(Len(u) + Len(v)) /\ ~(k <= Len(u))
            BY <1>1, <1>2, <1>3, <2>2
        <3>3. (u \o v)[k] = v[k - Len(u)]
            BY <1>5, <3>2
        <3>4. ~(k < i)
            BY <1>1, <2>2
        <3>5. v[k - Len(u)] = s[i + (k - Len(u))]
            BY <1>3, <3>1
        <3>6. (u \o v)[k] = s[k + 1]
            BY <3>1, <3>3, <3>5
        <3> QED BY <3>4, <3>6
    <2>3. k < i \/ k >= i
        BY <1>1
    <2> QED BY <2>1, <2>2, <2>3
<1> QED BY <1>4, <1>5, <1>6, <1>7

-----------------------------------------------------------------------------
(* What is under way keeps to the room it was asked or sent for: a call's     *)
(* answer, a socket's events, and what the session was given of them.         *)
In(r) == {a \in Auctions : AuctionRoom[a] = r} \cup {Nothing}
Told == [auction : Auctions \cup {Nothing}, of : Auctions, version : Nat, status : Statuses]
RuntimesIn(r) == {t \in Runtimes : t # Nothing => t.auction \in In(r) /\ t.of \in In(r)}
NewsIn(r) == {e \in News : AuctionRoom[e.auction] = r}

CallsInRoom ==
    {call \in PageCalls :
        /\ call.auction \in In(call.room) /\ call.runtime \in RuntimesIn(call.room)
        /\ call.pc = "row" => call.auction = Nothing
        /\ call.pc = "runtime" => call.auction # Nothing
        /\ call.pc = "answer" /\ call.auction # Nothing => call.runtime \in Told}
VisitsInRoom == {v \in PageVisits : v.call \in CallsInRoom /\ v.inbox \in Seq(NewsIn(v.call.room))}
ListCalls == [room : FeedRooms, rows : [Auctions -> Rows] \cup {Nothing}]

AuctionsOK == auctions \in [Auctions -> [row : Rows, redis : Rows]]
CountersOK == news \subseteq News /\ stale \in BOOLEAN /\ failures \in 0..MaxFailures
SessionOK ==
    /\ session \in [room : FeedRooms \cup {Nothing}, status : {"preview", "entering", "entered", "error"},
                    auction : Auctions \cup {Nothing}, panel : Rows \cup {Nothing}, runtime : Runtimes]
    /\ session.auction \in In(session.room) /\ session.runtime \in RuntimesIn(session.room)
    /\ session.status = "entered" => session.room # Nothing
VisitsOK == visits \in Seq(VisitsInRoom) /\ socketRef \in 0..Len(visits) /\ Len(visits) <= MaxVisits
FetchesOK == fetches \in Seq(CallsInRoom) /\ Len(fetches) <= MaxFetches
ListsOK == lists \in Seq(ListCalls) /\ Len(lists) <= MaxLists

PageInv == AuctionsOK /\ CountersOK /\ SessionOK /\ VisitsOK /\ FetchesOK /\ ListsOK

LEMMA UnchangedParts ==
    /\ AuctionsOK /\ UNCHANGED auctions => AuctionsOK'
    /\ CountersOK /\ UNCHANGED <<news, stale, failures>> => CountersOK'
    /\ SessionOK /\ UNCHANGED session => SessionOK'
    /\ VisitsOK /\ UNCHANGED <<visits, socketRef>> => VisitsOK'
    /\ FetchesOK /\ UNCHANGED fetches => FetchesOK'
    /\ ListsOK /\ UNCHANGED lists => ListsOK'
BY DEF AuctionsOK, CountersOK, SessionOK, VisitsOK, FetchesOK, ListsOK

(* The parts a step leaves alone keep to their rooms. *)
LEMMA PartsMakeInv ==
    ASSUME PageInv,
           AuctionsOK' \/ UNCHANGED auctions, CountersOK' \/ UNCHANGED <<news, stale, failures>>,
           SessionOK' \/ UNCHANGED session, VisitsOK' \/ UNCHANGED <<visits, socketRef>>,
           FetchesOK' \/ UNCHANGED fetches, ListsOK' \/ UNCHANGED lists
    PROVE  PageInv'
BY UnchangedParts DEF PageInv

-----------------------------------------------------------------------------
(* What is asked, read and answered *)

LEMMA NewCallInRoom ==
    ASSUME NEW r \in FeedRooms PROVE NewCall(r) \in CallsInRoom /\ Done(r) \in CallsInRoom
BY DEF NewCall, Done, CallsInRoom, PageCalls, Runtimes, RuntimesIn, In

LEMMA LateInRoom ==
    ASSUME NEW call \in CallsInRoom PROVE [call EXCEPT !.late = TRUE] \in CallsInRoom
BY DEF CallsInRoom, PageCalls

LEMMA NewVisitInRoom ==
    ASSUME NEW r \in FeedRooms PROVE NewVisit(r) \in VisitsInRoom
<1>1. NewCall(r) \in CallsInRoom /\ NewCall(r) \in PageCalls /\ NewCall(r).room = r
    BY NewCallInRoom DEF CallsInRoom, NewCall
<1>2. <<>> \in Seq(News) /\ <<>> \in Seq(NewsIn(r))
    BY EmptySeq
<1> QED BY <1>1, <1>2 DEF NewVisit, VisitsInRoom, PageVisits

LEMMA ReadsInRoom ==
    ASSUME AuctionsOK, NEW call \in CallsInRoom, NEW next \in AfterRead(call)
    PROVE  next \in CallsInRoom /\ next.room = call.room
<1> USE PageAssumption DEF PageAssumption
<1>1. CASE call.pc = "row" /\ AuctionsShown(call.room) = {}
    <2>1. next = [call EXCEPT !.pc = "answer"]
        BY <1>1 DEF AfterRead
    <2> QED BY <1>1, <2>1 DEF CallsInRoom, PageCalls
<1>2. CASE call.pc = "row" /\ AuctionsShown(call.room) # {}
    <2>1. PICK a \in AuctionsShown(call.room) : next = [call EXCEPT !.pc = "runtime", !.auction = a]
        BY <1>2 DEF AfterRead
    <2>2. a \in Auctions /\ a \in In(call.room) /\ a # Nothing
        BY DEF AuctionsShown, In
    <2> QED BY <1>2, <2>1, <2>2 DEF CallsInRoom, PageCalls
<1>3. CASE call.pc = "runtime"
    <2>1. next = [call EXCEPT !.pc = "answer", !.runtime = Runtime(call.auction)]
        BY <1>3 DEF AfterRead
    <2>2. call.auction \in Auctions /\ call.auction \in In(call.room)
        BY <1>3 DEF CallsInRoom, PageCalls
    <2>3. Runtime(call.auction) \in Told
        <3>1. auctions[call.auction].redis \in Rows
            BY <2>2 DEF AuctionsOK
        <3> QED BY <2>2, <3>1 DEF Runtime, Told, Rows
    <2>4. Runtime(call.auction) \in RuntimesIn(call.room)
        BY <2>2, <2>3 DEF RuntimesIn, Runtime, Runtimes, Told
    <2>5. call \in PageCalls /\ next = [call EXCEPT !.pc = "answer", !.runtime = Runtime(call.auction)]
        BY <2>1 DEF CallsInRoom
    <2> DEFINE told == Runtime(call.auction)
    <2>6. told \in Told /\ told \in RuntimesIn(call.room) /\ told \in Runtimes
        BY <2>3, <2>4 DEF RuntimesIn
    <2> HIDE DEF told
    <2>7. next = [call EXCEPT !.pc = "answer", !.runtime = told]
        BY <2>1 DEF told
    <2>8. /\ next \in PageCalls /\ next.room = call.room /\ next.auction = call.auction
          /\ next.runtime = told /\ next.pc = "answer"
        BY <2>5, <2>6, <2>7 DEF PageCalls
    <2> QED BY <2>2, <2>6, <2>8 DEF CallsInRoom
<1> QED BY <1>1, <1>2, <1>3 DEF AfterRead

(* What an answer makes of a session of its room. *)
LEMMA ShowsInRoom ==
    ASSUME NEW call \in CallsInRoom, call.pc = "answer", SessionOK,
           NEW old, old = session \/ old = [Preview EXCEPT !.room = call.room, !.status = "entered"],
           old.room = call.room, session' = Shows(old, call)
    PROVE  SessionOK'
<1>1. /\ call.room \in FeedRooms /\ call.auction \in In(call.room) /\ call.runtime \in RuntimesIn(call.room)
      /\ call.auction # Nothing => call.runtime.version \in Nat
    BY DEF CallsInRoom, PageCalls, Told
<1>2. old \in [room : FeedRooms \cup {Nothing}, status : {"preview", "entering", "entered", "error"},
               auction : Auctions \cup {Nothing}, panel : Rows \cup {Nothing}, runtime : Runtimes]
    BY <1>1 DEF SessionOK, Preview, Runtimes
<1>6. call.room # Nothing
    BY <1>1, PageAssumption DEF PageAssumption
<1> DEFINE panel == IF call.auction = Nothing THEN Nothing
                    ELSE [status |-> "running", version |-> call.runtime.version]
<1>3. panel \in Rows \cup {Nothing}
    BY <1>1 DEF Rows, Statuses
<1>4. session' = [old EXCEPT !.auction = call.auction, !.runtime = call.runtime, !.panel = panel]
    BY DEF Shows
<1> HIDE DEF panel
<1>5. call.auction \in Auctions \cup {Nothing} /\ call.runtime \in Runtimes
    BY <1>1 DEF In, RuntimesIn
<1> QED BY <1>1, <1>2, <1>3, <1>4, <1>5, <1>6 DEF SessionOK

LEMMA PreviewOK ==
    ASSUME NEW r \in FeedRooms \cup {Nothing}, NEW st \in {"preview", "entering", "error"},
           session' = [Preview EXCEPT !.room = r, !.status = st]
    PROVE  SessionOK'
BY DEF SessionOK, Preview, Runtimes, RuntimesIn, In

-----------------------------------------------------------------------------
(* Sequences of visits and calls *)

LEMMA VisitBecomes ==
    ASSUME VisitsOK, NEW n \in DOMAIN visits, NEW v \in VisitsInRoom, visits' = [visits EXCEPT ![n] = v],
           socketRef' = socketRef \/ socketRef' = n
    PROVE  VisitsOK'
<1>1. visits' \in Seq(VisitsInRoom) /\ Len(visits') = Len(visits)
    BY OneElement DEF VisitsOK
<1>2. n \in 0..Len(visits)
    BY LenProperties DEF VisitsOK
<1> QED BY <1>1, <1>2 DEF VisitsOK

LEMMA ElementsInRoom ==
    /\ VisitsOK => \A n \in DOMAIN visits : visits[n] \in VisitsInRoom /\ visits[n] \in PageVisits
    /\ FetchesOK => \A i \in DOMAIN fetches : fetches[i] \in CallsInRoom
    /\ ListsOK => \A i \in DOMAIN lists : lists[i] \in ListCalls
BY ElementOfSeq, LenProperties DEF VisitsOK, FetchesOK, ListsOK, VisitsInRoom

LEMMA SocketClosedInRoom ==
    ASSUME VisitsOK
    PROVE  SocketClosed \in Seq(VisitsInRoom) /\ Len(SocketClosed) = Len(visits)
<1>1. CASE socketRef = 0
    BY <1>1 DEF SocketClosed, VisitsOK
<1>2. CASE socketRef # 0
    <2>1. socketRef \in DOMAIN visits
        BY <1>2, LenProperties DEF VisitsOK
    <2> DEFINE v == [visits[socketRef] EXCEPT !.socket = "closed", !.inbox = <<>>]
    <2>2. visits[socketRef] \in VisitsInRoom
        BY <2>1, ElementsInRoom
    <2>3. v \in VisitsInRoom
        BY <2>2, EmptySeq DEF VisitsInRoom, PageVisits
    <2>4. SocketClosed = [visits EXCEPT ![socketRef] = v]
        BY <1>2, <2>1 DEF SocketClosed
    <2> HIDE DEF v
    <2> QED BY <2>1, <2>3, <2>4, OneElement DEF VisitsOK
<1> QED BY <1>1, <1>2

LEMMA AllLateInRoom ==
    ASSUME FetchesOK PROVE AllLate \in Seq(CallsInRoom) /\ Len(AllLate) = Len(fetches)
<1>1. AllLate \in [DOMAIN fetches -> CallsInRoom]
    BY ElementsInRoom, LateInRoom DEF AllLate
<1> QED BY <1>1, SameDomain DEF FetchesOK

LEMMA SomeLateInRoom ==
    ASSUME FetchesOK, NEW r, NEW upto
    PROVE  /\ Late(r, upto) \in Seq(CallsInRoom) /\ Len(Late(r, upto)) = Len(fetches)
           /\ DOMAIN Late(r, upto) = DOMAIN fetches
<1>1. Late(r, upto) \in [DOMAIN fetches -> CallsInRoom]
    BY ElementsInRoom, LateInRoom DEF Late
<1> QED BY <1>1, SameDomain DEF FetchesOK

LEMMA ShorterFetches ==
    ASSUME FetchesOK, NEW i \in DOMAIN fetches, NEW r, fetches' = RemoveAt(Late(r, i), i)
    PROVE  FetchesOK'
<1>1. Late(r, i) \in Seq(CallsInRoom) /\ Len(Late(r, i)) = Len(fetches) /\ i \in DOMAIN Late(r, i)
    BY SomeLateInRoom
<1>2. fetches' \in Seq(CallsInRoom) /\ Len(fetches') = Len(fetches) - 1
    BY <1>1, RemovedElement
<1>3. Len(fetches) \in Nat
    BY LenProperties DEF FetchesOK
<1> QED BY <1>2, <1>3, PageAssumption DEF FetchesOK, PageAssumption

LEMMA AskedSnapshot ==
    ASSUME FetchesOK, NEW r \in FeedRooms, AsksSnapshot(r) PROVE FetchesOK'
<1>1. Append(fetches, NewCall(r)) \in Seq(CallsInRoom) /\ Len(Append(fetches, NewCall(r))) = Len(fetches) + 1
    BY NewCallInRoom, AppendProperties DEF FetchesOK
<1>2. Len(fetches) \in Nat
    BY LenProperties DEF FetchesOK
<1> QED BY <1>1, <1>2, PageAssumption DEF AsksSnapshot, FetchesOK, PageAssumption

LEMMA AskedList ==
    ASSUME ListsOK, NEW r \in FeedRooms, AsksList(r) PROVE ListsOK'
<1>1. NewList(r) \in ListCalls
    BY DEF NewList, ListCalls
<1>2. Append(lists, NewList(r)) \in Seq(ListCalls) /\ Len(Append(lists, NewList(r))) = Len(lists) + 1
    BY <1>1, AppendProperties DEF ListsOK
<1>3. Len(lists) \in Nat
    BY LenProperties DEF ListsOK
<1> QED BY <1>2, <1>3, PageAssumption DEF AsksList, ListsOK, PageAssumption

LEMMA ShorterLists ==
    ASSUME ListsOK, NEW i \in DOMAIN lists, lists' = RemoveAt(lists, i)
    PROVE  ListsOK'
<1>1. lists' \in Seq(ListCalls) /\ Len(lists') = Len(lists) - 1
    BY RemovedElement DEF ListsOK
<1>2. Len(lists) \in Nat
    BY LenProperties DEF ListsOK
<1> QED BY <1>1, <1>2, PageAssumption DEF ListsOK, PageAssumption
-----------------------------------------------------------------------------
(* The steps *)

LEMMA AuctionsStepInv ==
    ASSUME PageInv, NEW a \in Auctions, Starts(a) \/ Bid(a) \/ Closes(a) \/ SavesRow(a)
    PROVE  PageInv'
<1>1. /\ AuctionsOK /\ auctions[a] \in [row : Rows, redis : Rows] /\ auctions[a].redis \in Rows
    BY DEF PageInv, AuctionsOK
<1>2. AuctionsOK'
    <2>1. CASE Starts(a)
        <3>1. Both("running", 1) \in [row : Rows, redis : Rows]
            BY DEF Both, Rows, Statuses
        <3> QED BY <1>1, <2>1, <3>1 DEF Starts, AuctionsOK
    <2>2. ASSUME NEW status \in {"running", "closed"}, Writes(a, status)
          PROVE  AuctionsOK'
        <3> DEFINE next == [status |-> status, version |-> auctions[a].redis.version + 1]
        <3>1. next \in Rows
            BY <1>1 DEF Rows, Statuses
        <3>2. auctions' = [auctions EXCEPT ![a].redis = next]
            BY <2>2, <1>1 DEF Writes, AuctionsOK
        <3> HIDE DEF next
        <3> QED BY <1>1, <3>1, <3>2 DEF AuctionsOK
    <2>3. CASE SavesRow(a)
        <3>1. auctions' = [auctions EXCEPT ![a].row = auctions[a].redis]
            BY <2>3 DEF SavesRow
        <3> QED BY <1>1, <3>1 DEF AuctionsOK
    <2> QED BY <2>1, <2>2, <2>3 DEF Bid, Closes
<1>3. CountersOK'
    <2>1. CASE SavesRow(a)
        BY <2>1 DEF SavesRow, PageInv, CountersOK
    <2>2. CASE ~SavesRow(a)
        <3>1. Publishes(a)
            BY <2>2 DEF Starts, Bid, Closes, Writes
        <3>2. auctions'[a].redis \in Rows
            BY <1>2 DEF AuctionsOK
        <3>3. Event(a) \in News
            BY <3>2 DEF Event, News, Rows
        <3> QED BY <3>1, <3>3 DEF Publishes, PageInv, CountersOK
    <2> QED BY <2>1, <2>2
<1>4. UNCHANGED <<session, visits, socketRef, fetches, lists>>
    BY DEF Starts, Bid, Closes, Writes, SavesRow, Publishes
<1> QED BY <1>2, <1>3, <1>4, PartsMakeInv

LEMMA BroadcastInv ==
    ASSUME PageInv, NEW e \in news, Broadcast(e) PROVE PageInv'
<1> DEFINE r == AuctionRoom[e.auction]
<1>1. VisitsOK /\ FetchesOK /\ e \in News /\ visits \in Seq(VisitsInRoom)
    BY DEF PageInv, CountersOK, VisitsOK
<1>2. e \in NewsIn(r)
    BY <1>1 DEF NewsIn
<1>3. ASSUME NEW n \in DOMAIN visits
      PROVE  /\ visits'[n] \in VisitsInRoom
    <2>1. visits[n] \in VisitsInRoom /\ visits[n] \in PageVisits /\ visits[n].call \in CallsInRoom
        BY <1>1, ElementsInRoom DEF VisitsInRoom
    <2>2. CASE visits[n].call.room = r /\ visits[n].socket = "joined"
        <3>1. visits'[n] = [visits[n] EXCEPT !.inbox = Append(visits[n].inbox, e)]
            BY <2>2 DEF Broadcast
        <3>2. visits[n].inbox \in Seq(NewsIn(r)) /\ visits[n].inbox \in Seq(News)
            BY <2>1, <2>2 DEF VisitsInRoom, PageVisits
        <3>3. Append(visits[n].inbox, e) \in Seq(NewsIn(r)) /\ Append(visits[n].inbox, e) \in Seq(News)
            BY <1>1, <1>2, <3>2, AppendProperties
        <3> HIDE DEF r
        <3> QED BY <2>1, <2>2, <3>1, <3>3 DEF VisitsInRoom, PageVisits
    <2>3. CASE /\ visits[n].call.room = r /\ visits[n].socket # "joined"
               /\ visits[n].call.pc \in {"runtime", "answer"}
        <3>1. visits'[n] = [visits[n] EXCEPT !.call.late = TRUE]
            BY <2>3 DEF Broadcast
        <3> DEFINE late == [visits[n].call EXCEPT !.late = TRUE]
        <3>2. late \in CallsInRoom /\ late.room = visits[n].call.room /\ late \in PageCalls
            BY <2>1, LateInRoom DEF CallsInRoom, PageCalls
        <3>3. visits'[n] = [visits[n] EXCEPT !.call = late]
            BY <2>1, <3>1 DEF PageVisits
        <3> HIDE DEF late
        <3> QED BY <2>1, <3>2, <3>3 DEF VisitsInRoom, PageVisits
    <2>4. CASE /\ ~(visits[n].call.room = r /\ visits[n].socket = "joined")
               /\ ~(visits[n].call.room = r /\ visits[n].call.pc \in {"runtime", "answer"})
        <3>1. visits'[n] = visits[n]
            BY <2>4 DEF Broadcast
        <3> QED BY <2>1, <3>1
    <2> QED BY <2>2, <2>3, <2>4
<1>4. VisitsOK'
    <2>1. visits' \in [DOMAIN visits -> VisitsInRoom] /\ socketRef' = socketRef
        <3>1. DOMAIN visits' = DOMAIN visits /\ \E f : visits' = [n \in DOMAIN visits |-> f[n]]
            <4>1. visits' = [n \in DOMAIN visits |-> visits'[n]]
                BY DEF Broadcast
            <4> QED BY <4>1
        <3> QED BY <1>3, <3>1 DEF Broadcast
    <2>2. visits' \in Seq(VisitsInRoom) /\ Len(visits') = Len(visits)
        BY <1>1, <2>1, SameDomain
    <2> QED BY <1>1, <2>1, <2>2 DEF VisitsOK
<1>5. FetchesOK'
    <2>1. fetches' = fetches \/ fetches' = Late(r, Len(fetches))
        BY DEF Broadcast
    <2> QED BY <1>1, <2>1, SomeLateInRoom DEF FetchesOK
<1>6. CountersOK'
    BY DEF Broadcast, PageInv, CountersOK
<1> QED BY <1>4, <1>5, <1>6, PartsMakeInv DEF Broadcast

LEMMA EnterRoomInv ==
    ASSUME PageInv, NEW r \in FeedRooms, EnterRoom(r) PROVE PageInv'
<1>1. VisitsOK /\ FetchesOK
    BY DEF PageInv
<1>2. SocketClosed \in Seq(VisitsInRoom) /\ Len(SocketClosed) = Len(visits)
    BY <1>1, SocketClosedInRoom
<1>3. visits' \in Seq(VisitsInRoom) /\ Len(visits') = Len(visits) + 1
    BY <1>2, NewVisitInRoom, AppendProperties DEF EnterRoom
<1>4. VisitsOK'
    <2>1. Len(visits) \in Nat /\ Len(visits) < MaxVisits /\ socketRef' = 0
        BY <1>1, LenProperties DEF EnterRoom, VisitsOK
    <2> QED BY <1>3, <2>1, PageAssumption DEF VisitsOK, PageAssumption
<1>5. FetchesOK'
    BY <1>1, AllLateInRoom DEF EnterRoom, FetchesOK
<1>6. SessionOK'
    BY PreviewOK DEF EnterRoom
<1> QED BY <1>4, <1>5, <1>6, PartsMakeInv DEF EnterRoom

LEMMA LeaveRoomInv ==
    ASSUME PageInv, LeaveRoom PROVE PageInv'
<1>1. VisitsOK /\ FetchesOK
    BY DEF PageInv
<1>2. VisitsOK'
    <2>1. visits' \in Seq(VisitsInRoom) /\ Len(visits') = Len(visits) /\ Len(visits) \in Nat /\ socketRef' = 0
        BY <1>1, SocketClosedInRoom, LenProperties DEF LeaveRoom, VisitsOK
    <2> QED BY <1>1, <2>1 DEF VisitsOK
<1>3. FetchesOK'
    BY <1>1, AllLateInRoom DEF LeaveRoom, FetchesOK
<1>4. SessionOK'
    BY DEF LeaveRoom, SessionOK, Preview, Runtimes, RuntimesIn, In
<1> QED BY <1>2, <1>3, <1>4, PartsMakeInv DEF LeaveRoom

LEMMA AsksInv ==
    ASSUME PageInv, Refreshes \/ OpensRecords PROVE PageInv'
<1>1. FetchesOK /\ ListsOK /\ SessionOK /\ Nothing \notin FeedRooms
    BY PageAssumption DEF PageInv, PageAssumption
<1>2. session.room \in FeedRooms
    <2>1. session.status = "entered"
        BY DEF Refreshes, OpensRecords
    <2> QED BY <1>1, <2>1 DEF SessionOK
<1>3. CASE Refreshes
    BY <1>1, <1>2, <1>3, AskedSnapshot, PartsMakeInv DEF Refreshes
<1>4. CASE OpensRecords
    BY <1>1, <1>2, <1>4, AskedList, PartsMakeInv DEF OpensRecords
<1> QED BY <1>3, <1>4

LEMMA VisitStepInv ==
    ASSUME PageInv, NEW n \in DOMAIN visits,
           ReadsEntry(n) \/ EntryArrives(n) \/ EntryFails(n) \/ Connects(n) \/ Drops(n) \/ Hears(n)
    PROVE  PageInv'
<1>1. /\ AuctionsOK /\ SessionOK /\ VisitsOK /\ FetchesOK /\ ListsOK /\ visits \in Seq(VisitsInRoom)
      /\ visits[n] \in VisitsInRoom /\ visits[n] \in PageVisits /\ visits[n].call \in CallsInRoom
      /\ visits[n].call \in PageCalls /\ visits[n].call.room \in FeedRooms
    BY ElementsInRoom DEF PageInv, VisitsOK, VisitsInRoom, PageVisits, PageCalls
<1>2. CASE ReadsEntry(n)
    <2>1. PICK next \in AfterRead(visits[n].call) : visits' = [visits EXCEPT ![n].call = next]
        BY <1>2 DEF ReadsEntry
    <2>2. next \in CallsInRoom /\ next \in PageCalls /\ next.room = visits[n].call.room
        BY <1>1, ReadsInRoom DEF CallsInRoom
    <2>3. [visits[n] EXCEPT !.call = next] \in VisitsInRoom
        BY <1>1, <2>2 DEF VisitsInRoom, PageVisits
    <2>4. visits' = [visits EXCEPT ![n] = [visits[n] EXCEPT !.call = next]]
        BY <2>1
    <2>5. VisitsOK'
        BY <1>1, <1>2, <2>3, <2>4, VisitBecomes DEF ReadsEntry
    <2> QED BY <1>2, <2>5, PartsMakeInv DEF ReadsEntry
<1>3. CASE EntryArrives(n)
    <2> DEFINE call == visits[n].call
               next == [visits[n] EXCEPT !.call = Done(call.room), !.socket = "connecting"]
    <2>1. Done(call.room) \in CallsInRoom /\ Done(call.room) \in PageCalls /\ Done(call.room).room = call.room
        BY <1>1, NewCallInRoom DEF CallsInRoom, Done, NewCall
    <2>2. next \in VisitsInRoom
        BY <1>1, <2>1 DEF VisitsInRoom, PageVisits
    <2>3. visits' = [visits EXCEPT ![n] = next]
        BY <1>3 DEF EntryArrives
    <2> HIDE DEF next
    <2>4. VisitsOK'
        BY <1>1, <1>3, <2>2, <2>3, VisitBecomes DEF EntryArrives
    <2>5. SessionOK'
        <3> DEFINE old == [Preview EXCEPT !.room = call.room, !.status = "entered"]
        <3>1. old.room = call.room
            BY DEF Preview
        <3>2. session' = Shows(old, call) /\ call.pc = "answer"
            BY <1>3 DEF EntryArrives
        <3> HIDE DEF call
        <3>3. call \in CallsInRoom
            BY <1>1 DEF call
        <3> QED BY <1>1, <3>1, <3>2, <3>3, ShowsInRoom
    <2>6. ListsOK'
        BY <1>1, <1>3, AskedList DEF EntryArrives
    <2>7. CountersOK'
        BY <1>1, <1>3 DEF EntryArrives, PageInv, CountersOK, PageCalls
    <2> QED BY <1>3, <2>4, <2>5, <2>6, <2>7, PartsMakeInv DEF EntryArrives
<1>4. CASE EntryFails(n)
    <2> DEFINE call == visits[n].call
               next == [visits[n] EXCEPT !.call = Done(call.room)]
    <2>1. Done(call.room) \in CallsInRoom /\ Done(call.room) \in PageCalls /\ Done(call.room).room = call.room
        BY <1>1, NewCallInRoom DEF CallsInRoom, Done, NewCall
    <2>2. next \in VisitsInRoom
        BY <1>1, <2>1 DEF VisitsInRoom, PageVisits
    <2>3. visits' = [visits EXCEPT ![n] = next]
        BY <1>4 DEF EntryFails
    <2> HIDE DEF next
    <2>4. VisitsOK'
        BY <1>1, <1>4, <2>2, <2>3, VisitBecomes DEF EntryFails
    <2>5. SessionOK'
        BY <1>1, <1>4, PreviewOK DEF EntryFails
    <2>6. CountersOK'
        BY <1>4, PageAssumption DEF EntryFails, PageInv, CountersOK, PageAssumption
    <2> QED BY <1>4, <2>4, <2>5, <2>6, PartsMakeInv DEF EntryFails
<1>5. CASE Connects(n)
    <2> DEFINE next == [visits[n] EXCEPT !.socket = "joined"]
    <2>1. next \in VisitsInRoom
        BY <1>1 DEF VisitsInRoom, PageVisits
    <2>2. visits' = [visits EXCEPT ![n] = next]
        BY <1>5 DEF Connects
    <2> HIDE DEF next
    <2>3. VisitsOK'
        BY <1>1, <1>5, <2>1, <2>2, VisitBecomes DEF Connects
    <2> QED BY <1>5, <2>3, PartsMakeInv DEF Connects
<1>6. CASE Drops(n)
    <2> DEFINE next == [visits[n] EXCEPT !.socket = "closed", !.inbox = <<>>]
    <2>1. next \in VisitsInRoom
        BY <1>1, EmptySeq DEF VisitsInRoom, PageVisits
    <2>2. visits' = [visits EXCEPT ![n] = next]
        BY <1>6 DEF Drops
    <2> HIDE DEF next
    <2>3. VisitsOK'
        BY <1>1, <1>6, <2>1, <2>2, VisitBecomes DEF Drops
    <2>4. FetchesOK'
        BY <1>1, <1>6, SomeLateInRoom DEF Drops, FetchesOK
    <2>5. CountersOK'
        BY <1>6, PageAssumption DEF Drops, PageInv, CountersOK, PageAssumption
    <2> QED BY <1>6, <2>3, <2>4, <2>5, PartsMakeInv DEF Drops
<1>7. CASE Hears(n)
    <2> DEFINE r == visits[n].call.room
               e == Head(visits[n].inbox)
               next == [visits[n] EXCEPT !.inbox = Tail(visits[n].inbox)]
    <2>1. visits[n].inbox \in Seq(NewsIn(r)) /\ visits[n].inbox \in Seq(News) /\ visits[n].inbox # <<>>
        BY <1>1, <1>7 DEF VisitsInRoom, PageVisits, Hears, Heard
    <2>2. /\ e \in NewsIn(r) /\ Tail(visits[n].inbox) \in Seq(NewsIn(r)) /\ Tail(visits[n].inbox) \in Seq(News)
        BY <2>1, HeadTailProperties
    <2>3. next \in VisitsInRoom
        BY <1>1, <2>2 DEF VisitsInRoom, PageVisits
    <2>4. visits' = [visits EXCEPT ![n] = next]
        BY <1>7 DEF Hears, Heard
    <2> HIDE DEF next
    <2>5. VisitsOK'
        BY <1>1, <1>7, <2>3, <2>4, VisitBecomes DEF Hears, Heard
    <2>6. FetchesOK' /\ ListsOK'
        BY <1>1, <1>7, AskedSnapshot, AskedList DEF Hears, Heard
    <2>7. SessionOK'
        <3>1. session' = Merged(n)
            BY <1>7 DEF Hears, Heard
        <3>2. CASE r # session.room
            BY <1>1, <3>1, <3>2 DEF Merged, SessionOK
        <3>3. CASE r = session.room
            <4> DEFINE told == Patched(session.runtime, e)
            <4>1. session' = [session EXCEPT !.runtime = told]
                BY <3>1, <3>3 DEF Merged
            <4>2. session.runtime \in RuntimesIn(r) /\ e \in NewsIn(r)
                BY <1>1, <2>2, <3>3 DEF SessionOK
            <4>3. told \in RuntimesIn(r) /\ told \in Runtimes
                <5> HIDE DEF e, r
                <5> QED BY <4>2 DEF Patched, RuntimesIn, NewsIn, Runtimes, News, In
            <4> HIDE DEF told
            <4> QED BY <1>1, <3>3, <4>1, <4>3 DEF SessionOK
        <3> QED BY <3>2, <3>3
    <2> QED BY <1>7, <2>5, <2>6, <2>7, PartsMakeInv DEF Hears, Heard
<1> QED BY <1>2, <1>3, <1>4, <1>5, <1>6, <1>7

LEMMA SnapshotStepInv ==
    ASSUME PageInv, NEW i \in DOMAIN fetches, ReadsSnapshot(i) \/ SnapshotArrives(i) \/ SnapshotFails(i)
    PROVE  PageInv'
<1>1. AuctionsOK /\ SessionOK /\ FetchesOK /\ fetches[i] \in CallsInRoom /\ fetches[i].late \in BOOLEAN
    BY ElementsInRoom DEF PageInv, CallsInRoom, PageCalls
<1>2. CASE ReadsSnapshot(i)
    <2>1. PICK next \in AfterRead(fetches[i]) : fetches' = [fetches EXCEPT ![i] = next]
        BY <1>2 DEF ReadsSnapshot
    <2>2. next \in CallsInRoom
        BY <1>1, ReadsInRoom
    <2>3. FetchesOK'
        BY <1>1, <2>1, <2>2, OneElement DEF FetchesOK
    <2> QED BY <1>2, <2>3, PartsMakeInv DEF ReadsSnapshot
<1>3. CASE SnapshotArrives(i)
    <2>1. FetchesOK'
        BY <1>1, <1>3, ShorterFetches DEF SnapshotArrives
    <2>2. SessionOK' \/ UNCHANGED session
        <3> DEFINE call == fetches[i]
        <3>1. call.pc = "answer" /\ (UNCHANGED session \/ (session' = Shows(session, call) /\ session.room = call.room))
            BY <1>3 DEF SnapshotArrives
        <3>2. call \in CallsInRoom
            BY <1>1
        <3> HIDE DEF call
        <3> QED BY <1>1, <3>1, <3>2, ShowsInRoom
    <2>3. CountersOK'
        BY <1>1, <1>3 DEF SnapshotArrives, PageInv, CountersOK
    <2> QED BY <1>3, <2>1, <2>2, <2>3, PartsMakeInv DEF SnapshotArrives
<1>4. CASE SnapshotFails(i)
    <2>1. FetchesOK'
        BY <1>1, <1>4, ShorterFetches DEF SnapshotFails
    <2>2. CountersOK'
        BY <1>4, PageAssumption DEF SnapshotFails, PageInv, CountersOK, PageAssumption
    <2> QED BY <1>4, <2>1, <2>2, PartsMakeInv DEF SnapshotFails
<1> QED BY <1>2, <1>3, <1>4

LEMMA ListStepInv ==
    ASSUME PageInv, NEW i \in DOMAIN lists, ReadsList(i) \/ ListArrives(i) \/ ListFails(i)
    PROVE  PageInv'
<1>1. AuctionsOK /\ SessionOK /\ ListsOK /\ lists[i] \in ListCalls /\ Nothing \notin Auctions
    BY ElementsInRoom, PageAssumption DEF PageInv, PageAssumption
<1>2. CASE ReadsList(i)
    <2> DEFINE rows == [a \in Auctions |-> auctions[a].row]
               next == [lists[i] EXCEPT !.rows = rows]
    <2>1. rows \in [Auctions -> Rows]
        BY <1>1 DEF AuctionsOK
    <2>2. lists' = [lists EXCEPT ![i] = next]
        BY <1>2 DEF ReadsList
    <2> HIDE DEF rows
    <2>3. next \in ListCalls
        BY <1>1, <2>1 DEF ListCalls
    <2> HIDE DEF next
    <2>4. ListsOK'
        BY <1>1, <2>2, <2>3, OneElement DEF ListsOK
    <2> QED BY <1>2, <2>4, PartsMakeInv DEF ReadsList
<1>3. CASE ListArrives(i)
    <2>1. ListsOK'
        BY <1>1, <1>3, ShorterLists DEF ListArrives
    <2>2. SessionOK' \/ UNCHANGED session
        <3>1. CASE session' # session
            <4>1. /\ session' = [session EXCEPT !.panel = lists[i].rows[session.auction]]
                  /\ session.auction # Nothing /\ lists[i].rows # Nothing
                BY <1>3, <3>1 DEF ListArrives
            <4>2. lists[i].rows[session.auction] \in Rows
                BY <1>1, <4>1 DEF SessionOK, ListCalls
            <4> QED BY <1>1, <4>1, <4>2 DEF SessionOK
        <3> QED BY <3>1
    <2> QED BY <1>3, <2>1, <2>2, PartsMakeInv DEF ListArrives
<1>4. CASE ListFails(i)
    <2>1. ListsOK'
        BY <1>1, <1>4, ShorterLists DEF ListFails
    <2>2. CountersOK'
        BY <1>4, PageAssumption DEF ListFails, PageInv, CountersOK, PageAssumption
    <2> QED BY <1>4, <2>1, <2>2, PartsMakeInv DEF ListFails
<1> QED BY <1>2, <1>3, <1>4

LEMMA PageInitInv == PageInit => PageInv
<1> SUFFICES ASSUME PageInit PROVE PageInv
    OBVIOUS
<1>1. AuctionsOK
    BY DEF PageInit, AuctionsOK, Both, Rows, Statuses
<1>2. SessionOK
    BY DEF PageInit, SessionOK, Preview, Runtimes, RuntimesIn, In
<1>3. <<>> \in Seq(VisitsInRoom) /\ <<>> \in Seq(CallsInRoom) /\ <<>> \in Seq(ListCalls) /\ Len(<<>>) = 0
    BY EmptySeq
<1>4. CountersOK
    <2>1. stale \in BOOLEAN
        BY Zenon DEF PageInit
    <2>2. news = {} /\ failures = 0
        BY DEF PageInit
    <2> QED BY <2>1, <2>2, PageAssumption DEF CountersOK, PageAssumption
<1>5. FetchesOK /\ ListsOK
    BY <1>3, PageAssumption DEF PageInit, FetchesOK, ListsOK, PageAssumption
<1>6. VisitsOK
    <2>1. visits \in Seq(VisitsInRoom) /\ Len(visits) = 0 /\ socketRef = 0
        BY <1>3 DEF PageInit
    <2> QED BY <2>1, PageAssumption DEF VisitsOK, PageAssumption
<1> QED BY <1>1, <1>2, <1>4, <1>5, <1>6 DEF PageInv

LEMMA PageStepInv == PageInv /\ [PageNext]_pageVars => PageInv'
<1> SUFFICES ASSUME PageInv, [PageNext]_pageVars PROVE PageInv'
    OBVIOUS
<1>1. CASE UNCHANGED pageVars
    BY <1>1, PartsMakeInv DEF pageVars
<1>2. CASE PageNext
    BY <1>2, AuctionsStepInv, BroadcastInv, EnterRoomInv, LeaveRoomInv, AsksInv, VisitStepInv,
       SnapshotStepInv, ListStepInv
       DEF PageNext
<1> QED BY <1>1, <1>2

-----------------------------------------------------------------------------
(* The page's state has its types, and its bounds hold. *)
THEOREM PageTyped == PageSpec => []PageTypeOK
<1>1. PageInv => PageTypeOK
    <2> SUFFICES ASSUME PageInv PROVE PageTypeOK
        OBVIOUS
    <2>1. visits \in Seq(PageVisits) /\ fetches \in Seq(PageCalls)
        <3>1. VisitsInRoom \subseteq PageVisits /\ CallsInRoom \subseteq PageCalls
            BY DEF VisitsInRoom, CallsInRoom
        <3> QED BY <3>1 DEF PageInv, VisitsOK, FetchesOK
    <2> QED BY <2>1 DEF PageInv, AuctionsOK, CountersOK, SessionOK, VisitsOK, FetchesOK, ListsOK,
                        ListCalls, PageTypeOK
<1> QED BY <1>1, PageInitInv, PageStepInv, PTL DEF PageSpec

(* Whatever answers, events and lists of rooms the user has left arrive late  *)
(* (refreshAuctionSnapshot, onEvent and the entry answer, which is applied    *)
(* wherever the user is), in whatever order, and whatever fails: what the     *)
(* page shows is of the room it is in.                                        *)
THEOREM PagesShowTheirRoom == PageSpec => []ShowsItsRoom
<1>1. PageInv => ShowsItsRoom
    BY PageAssumption DEF PageInv, SessionOK, ShowsItsRoom, RuntimesIn, In, Runtimes, PageAssumption
<1> QED BY <1>1, PageInitInv, PageStepInv, PTL DEF PageSpec
=============================================================================
