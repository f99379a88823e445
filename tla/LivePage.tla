------------------------------ MODULE LivePage -------------------------------
(* The live page of mobile-user with what api-gateway answers it: HTTP reads   *)
(* of a room's auction (the row first, then Redis), the room's socket, and     *)
(* the session they are merged into; the list of the room's auctions (rows     *)
(* only), which is merged into the same session.  Users move between rooms     *)
(* while answers are on their way.  Auctions change as AuctionService          *)
(* describes, abridged to what a reader can tell apart.  Whether the user bids *)
(* is left out: the answer asks for what an event asks for.                    *)
EXTENDS Naturals, Sequences, SequencesExt

CONSTANTS
    FeedRooms, Auctions,
    AuctionRoom,   \* [Auctions -> FeedRooms]
    Opened,        \* auctions that run when the page is opened
    Nothing,
    MaxChanges,    \* bound: starts, bids and ends of auctions
    MaxVisits,     \* bound: rooms the user enters
    MaxFetches,    \* bound: snapshots under way (browsers bound them too)
    MaxLists,      \* bound: record lists under way
    MaxFailures    \* bound: failed calls and dropped sockets

ASSUME PageAssumption ==
    /\ AuctionRoom \in [Auctions -> FeedRooms] /\ Nothing \notin Auctions \cup FeedRooms
    /\ Opened \subseteq Auctions /\ \A a, b \in Opened : AuctionRoom[a] = AuctionRoom[b] => a = b
    /\ MaxChanges \in Nat /\ MaxVisits \in Nat /\ MaxFetches \in Nat /\ MaxLists \in Nat
    /\ MaxFailures \in Nat

VARIABLES
    auctions,   \* status and version, in the row and in Redis
    news,       \* events ws-gateway has yet to broadcast, in any order
    session,    \* the RoomSession the page renders
    visits,     \* one for each time a room was entered: its entry call, its socket
    socketRef,  \* the visit whose socket the page can close; 0 for none
    fetches,    \* snapshot calls under way, in the order they were made
    lists,      \* record-list calls under way: the room, and the rows once read
    stale,      \* history: what the page shows is known to be overtaken
    failures

pageVars == <<auctions, news, session, visits, socketRef, fetches, lists, stale, failures>>

Preview == [room |-> Nothing, status |-> "preview", auction |-> Nothing, panel |-> Nothing, runtime |-> Nothing]
NewCall(r) == [room |-> r, pc |-> "row", auction |-> Nothing, runtime |-> Nothing, late |-> FALSE]
Done(r) == [NewCall(r) EXCEPT !.pc = "done"]
NewVisit(r) == [call |-> NewCall(r), socket |-> "none", inbox |-> <<>>]

NewList(r) == [room |-> r, rows |-> Nothing]
Both(status, version) ==
    [row |-> [status |-> status, version |-> version], redis |-> [status |-> status, version |-> version]]

PageInit ==
    /\ auctions = [a \in Auctions |->
           IF a \in Opened THEN Both("running", 1) ELSE Both("pending", 0)]
    /\ news = {} /\ session = Preview /\ visits = <<>> /\ socketRef = 0
    /\ fetches = <<>> /\ lists = <<>> /\ stale = FALSE /\ failures = 0

-----------------------------------------------------------------------------
(* auction-service *)

Event(a) ==
    [auction |-> a, version |-> auctions'[a].redis.version, status |-> auctions'[a].redis.status]
ChangesMade == FoldFunction(LAMBDA auction, sum : auction.redis.version + sum, 0, auctions)
Publishes(a) ==
    /\ ChangesMade < MaxChanges
    /\ news' = news \cup {Event(a)}
    /\ UNCHANGED <<session, visits, socketRef, fetches, lists, stale, failures>>

(* StartAuction finds no running row of the room, loads Redis, saves the row  *)
(* and publishes; whoever reads between the two finds no auction yet.         *)
Starts(a) ==
    /\ auctions[a].redis.status = "pending"
    /\ \A b \in Auctions \ {a} : AuctionRoom[b] = AuctionRoom[a] => auctions[b].row.status # "running"
    /\ auctions' = [auctions EXCEPT ![a] = Both("running", 1)]
    /\ Publishes(a)

(* A bid, and finish, expiry and cancellation, write Redis and publish; the   *)
(* row follows.                                                               *)
Writes(a, status) ==
    /\ auctions[a].redis.status = "running"
    /\ auctions' = [auctions EXCEPT ![a].redis = [status |-> status, version |-> @.version + 1]]
    /\ Publishes(a)

Bid(a) == Writes(a, "running")
Closes(a) == Writes(a, "closed")

SavesRow(a) ==
    /\ auctions[a].row # auctions[a].redis
    /\ auctions' = [auctions EXCEPT ![a].row = auctions[a].redis]
    /\ UNCHANGED <<news, session, visits, socketRef, fetches, lists, stale, failures>>

-----------------------------------------------------------------------------
(* api-gateway: GetUserLiveEntry and GetUserLiveAuctionSnapshot ask for the   *)
(* room's running row, and then for the run-time state of that auction.       *)

AuctionsShown(r) == {a \in Auctions : AuctionRoom[a] = r /\ auctions[a].row.status = "running"}
(* of: whose state it is, which an event may change *)
Runtime(a) ==
    [auction |-> a, of |-> a, version |-> auctions[a].redis.version, status |-> auctions[a].redis.status]

AfterRead(call) ==
    CASE call.pc = "row" /\ AuctionsShown(call.room) = {} -> {[call EXCEPT !.pc = "answer"]}
      [] call.pc = "row" ->
             {[call EXCEPT !.pc = "runtime", !.auction = a] : a \in AuctionsShown(call.room)}
      [] call.pc = "runtime" -> {[call EXCEPT !.pc = "answer", !.runtime = Runtime(call.auction)]}
      [] OTHER -> {}

(* Calls that may have read too early to know what the page missed, or what   *)
(* an answer that overtook them knew, whether or not the page could use it.   *)
Late(r, upto) ==
    [i \in DOMAIN fetches |-> IF i <= upto /\ fetches[i].room = r
                              THEN [fetches[i] EXCEPT !.late = TRUE] ELSE fetches[i]]
AllLate == [i \in DOMAIN fetches |-> [fetches[i] EXCEPT !.late = TRUE]]

(* ws-gateway: a socket of the room hears the event; if none is in the hub,   *)
(* nobody tells the page.                                                     *)
Broadcast(e) ==
    LET r == AuctionRoom[e.auction]
        here(n) == visits[n].call.room = r
        hears(n) == here(n) /\ visits[n].socket = "joined"
        missed == ~ \E n \in DOMAIN visits : hears(n)
    IN  /\ e \in news /\ news' = news \ {e}
        /\ visits' = [n \in DOMAIN visits |->
               CASE hears(n) -> [visits[n] EXCEPT !.inbox = Append(@, e)]
                 [] here(n) /\ ~hears(n) /\ visits[n].call.pc \in {"runtime", "answer"} ->
                        [visits[n] EXCEPT !.call.late = TRUE]
                 [] OTHER -> visits[n]]
        /\ fetches' = IF missed THEN Late(r, Len(fetches)) ELSE fetches
        /\ stale' = (stale \/ (missed /\ session.room = r))
        /\ UNCHANGED <<auctions, session, socketRef, lists, failures>>

-----------------------------------------------------------------------------
(* The page *)

SocketClosed ==
    IF socketRef = 0 THEN visits
    ELSE [visits EXCEPT ![socketRef].socket = "closed", ![socketRef].inbox = <<>>]

(* handleEnterRoom up to its await *)
EnterRoom(r) ==
    /\ Len(visits) < MaxVisits /\ session.status # "entering"
    /\ ~(session.status = "entered" /\ session.room = r)
    /\ visits' = Append(SocketClosed, NewVisit(r)) /\ socketRef' = 0
    /\ session' = [Preview EXCEPT !.room = r, !.status = "entering"]
    /\ fetches' = AllLate
    /\ UNCHANGED <<auctions, news, lists, stale, failures>>

(* A slide to another room, also while the entry call is under way *)
LeaveRoom ==
    /\ session.room # Nothing
    /\ visits' = SocketClosed /\ socketRef' = 0 /\ session' = Preview /\ fetches' = AllLate
    /\ UNCHANGED <<auctions, news, lists, stale, failures>>

ReadsEntry(n) ==
    /\ \E next \in AfterRead(visits[n].call) : visits' = [visits EXCEPT ![n].call = next]
    /\ UNCHANGED <<auctions, news, session, socketRef, fetches, lists, stale, failures>>

(* What an answer of either call makes of a session; the auction it names     *)
(* takes its status from the row, and its price from Redis.                   *)
Shows(old, call) ==
    [old EXCEPT !.auction = call.auction, !.runtime = call.runtime,
                !.panel = IF call.auction = Nothing THEN Nothing
                          ELSE [status |-> "running", version |-> call.runtime.version]]

(* refreshAuctionRecords up to its await *)
AsksList(r) == Len(lists) < MaxLists /\ lists' = Append(lists, NewList(r))

(* The rest of handleEnterRoom, which does not look at where the user is now  *)
EntryArrives(n) ==
    LET call == visits[n].call
    IN  /\ call.pc = "answer"
        /\ visits' = [visits EXCEPT ![n].call = Done(call.room), ![n].socket = "connecting"]
        /\ socketRef' = n /\ stale' = call.late
        /\ session' = Shows([Preview EXCEPT !.room = call.room, !.status = "entered"], call)
        /\ AsksList(call.room)
        /\ UNCHANGED <<auctions, news, fetches, failures>>

EntryFails(n) ==
    /\ visits[n].call.pc # "done" /\ failures < MaxFailures
    /\ visits' = [visits EXCEPT ![n].call = Done(visits[n].call.room)]
    /\ session' = [Preview EXCEPT !.room = visits[n].call.room, !.status = "error"]
    /\ failures' = failures + 1
    /\ UNCHANGED <<auctions, news, socketRef, fetches, lists, stale>>

(* The hub knows the connection; the page's onOpen only writes a line.        *)
Connects(n) ==
    /\ visits[n].socket = "connecting"
    /\ visits' = [visits EXCEPT ![n].socket = "joined"]
    /\ UNCHANGED <<auctions, news, session, socketRef, fetches, lists, stale, failures>>

(* A full queue, the network, the end of the gateway: nothing opens it again. *)
Drops(n) ==
    LET r == visits[n].call.room
    IN  /\ visits[n].socket \in {"connecting", "joined"} /\ failures < MaxFailures
        /\ visits' = [visits EXCEPT ![n].socket = "closed", ![n].inbox = <<>>]
        /\ fetches' = Late(r, Len(fetches)) /\ stale' = (stale \/ session.room = r)
        /\ failures' = failures + 1
        /\ UNCHANGED <<auctions, news, session, socketRef, lists>>

(* buildRuntimePatch and its merge: versions are not compared, and the        *)
(* auction of the run-time part stays what it was.                            *)
Patched(runtime, e) ==
    [auction |-> IF runtime = Nothing THEN Nothing ELSE runtime.auction,
     of |-> e.auction, version |-> e.version, status |-> e.status]

(* onEvent: the patch, a snapshot and a list, for the socket's room.          *)
Merged(n) ==
    IF visits[n].call.room # session.room THEN session
    ELSE [session EXCEPT !.runtime = Patched(@, Head(visits[n].inbox))]
Heard(n) ==
    /\ visits[n].inbox # <<>>
    /\ visits' = [visits EXCEPT ![n].inbox = Tail(@)]
    /\ session' = Merged(n)
    /\ AsksList(visits[n].call.room)
    /\ UNCHANGED <<auctions, news, socketRef, stale, failures>>
AsksSnapshot(r) == Len(fetches) < MaxFetches /\ fetches' = Append(fetches, NewCall(r))

HearsWithoutRefetch(n) == Heard(n) /\ UNCHANGED fetches

Hears(n) == Heard(n) /\ AsksSnapshot(visits[n].call.room)

(* A bid while nothing runs, or one that is not answered in time              *)
Refreshes ==
    /\ session.status = "entered" /\ AsksSnapshot(session.room)
    /\ UNCHANGED <<auctions, news, session, visits, socketRef, lists, stale, failures>>

(* openAuctionRecords *)
OpensRecords ==
    /\ session.status = "entered" /\ AsksList(session.room)
    /\ UNCHANGED <<auctions, news, session, visits, socketRef, fetches, stale, failures>>

ReadsSnapshot(i) ==
    /\ \E next \in AfterRead(fetches[i]) : fetches' = [fetches EXCEPT ![i] = next]
    /\ UNCHANGED <<auctions, news, session, visits, socketRef, lists, stale, failures>>

SnapshotArrivesAnywhere(i) ==
    /\ fetches[i].pc = "answer"
    /\ fetches' = RemoveAt(Late(fetches[i].room, i), i)
    /\ session' = IF session.status # "entered" THEN session ELSE Shows(session, fetches[i])
    /\ stale' = IF session.status = "entered" THEN fetches[i].late ELSE stale
    /\ UNCHANGED <<auctions, news, visits, socketRef, lists, failures>>

(* refreshAuctionSnapshot after its await: the room must still be the one.    *)
SnapshotArrives(i) ==
    LET call == fetches[i]
        applies == session.status = "entered" /\ session.room = call.room
    IN  /\ call.pc = "answer"
        /\ fetches' = RemoveAt(Late(call.room, i), i)
        /\ session' = IF applies THEN Shows(session, call) ELSE session
        /\ stale' = IF applies THEN call.late ELSE stale
        /\ UNCHANGED <<auctions, news, visits, socketRef, lists, failures>>

SnapshotFails(i) ==
    /\ failures < MaxFailures /\ failures' = failures + 1
    /\ fetches' = RemoveAt(Late(fetches[i].room, i), i)
    /\ stale' = (stale \/ session.room = fetches[i].room)
    /\ UNCHANGED <<auctions, news, session, visits, socketRef, lists>>

(* GetUserLiveAuctionRecords, then refreshAuctionRecords after its await: the *)
(* row of the auction the session has replaces what the panel shows of it.    *)
ReadsList(i) ==
    /\ lists[i].rows = Nothing
    /\ lists' = [lists EXCEPT ![i].rows = [a \in Auctions |-> auctions[a].row]]
    /\ UNCHANGED <<auctions, news, session, visits, socketRef, fetches, stale, failures>>

ListArrives(i) ==
    LET a == session.auction
        listed == /\ session.status = "entered" /\ session.room = lists[i].room
                  /\ a # Nothing /\ AuctionRoom[a] = lists[i].room /\ lists[i].rows[a].status # "pending"
    IN  /\ lists[i].rows # Nothing
        /\ lists' = RemoveAt(lists, i)
        /\ session' = IF listed THEN [session EXCEPT !.panel = lists[i].rows[a]] ELSE session
        /\ UNCHANGED <<auctions, news, visits, socketRef, fetches, stale, failures>>

ListFails(i) ==
    /\ failures < MaxFailures /\ failures' = failures + 1
    /\ lists' = RemoveAt(lists, i)
    /\ UNCHANGED <<auctions, news, session, visits, socketRef, fetches, stale>>

PageNext ==
    \/ \E a \in Auctions : Starts(a) \/ Bid(a) \/ Closes(a) \/ SavesRow(a)
    \/ \E e \in news : Broadcast(e)
    \/ \E r \in FeedRooms : EnterRoom(r)
    \/ LeaveRoom \/ Refreshes \/ OpensRecords
    \/ \E n \in DOMAIN visits :
           ReadsEntry(n) \/ EntryArrives(n) \/ EntryFails(n) \/ Connects(n) \/ Drops(n) \/ Hears(n)
    \/ \E i \in DOMAIN fetches : ReadsSnapshot(i) \/ SnapshotArrives(i) \/ SnapshotFails(i)
    \/ \E i \in DOMAIN lists : ReadsList(i) \/ ListArrives(i) \/ ListFails(i)

PageSpec == PageInit /\ [][PageNext]_pageVars

-----------------------------------------------------------------------------
Statuses == {"pending", "running", "closed"}
News == [auction : Auctions, version : Nat, status : Statuses]
Runtimes == [auction : Auctions \cup {Nothing}, of : Auctions, version : Nat, status : Statuses] \cup {Nothing}
Rows == [status : Statuses, version : Nat]
PageCalls == [room : FeedRooms, pc : {"row", "runtime", "answer", "done"},
              auction : Auctions \cup {Nothing}, runtime : Runtimes, late : BOOLEAN]
PageVisits == [call : PageCalls, socket : {"none", "connecting", "joined", "closed"}, inbox : Seq(News)]

PageTypeOK ==
    /\ auctions \in [Auctions -> [row : Rows, redis : Rows]]
    /\ news \subseteq News /\ stale \in BOOLEAN /\ failures \in 0..MaxFailures
    /\ session \in [room : FeedRooms \cup {Nothing}, status : {"preview", "entering", "entered", "error"},
                     auction : Auctions \cup {Nothing}, panel : Rows \cup {Nothing}, runtime : Runtimes]
    /\ visits \in Seq(PageVisits)
    /\ fetches \in Seq(PageCalls)
    /\ lists \in Seq([room : FeedRooms, rows : [Auctions -> Rows] \cup {Nothing}])
    /\ socketRef \in 0..Len(visits) /\ Len(visits) <= MaxVisits
    /\ Len(fetches) <= MaxFetches /\ Len(lists) <= MaxLists

(* Whatever answers and events of rooms the user has left are still on their  *)
(* way, and wherever an entry answer brings the page back to, what it shows   *)
(* is of the room it is in: the auction, its run-time state, and the state an *)
(* event put in its place.                                                    *)
ShowsItsRoom ==
    LET here(a) == a # Nothing => AuctionRoom[a] = session.room
    IN  /\ here(session.auction)
        /\ session.runtime # Nothing => here(session.runtime.auction) /\ here(session.runtime.of)

Quiet ==
    /\ session.status = "entered" /\ news = {} /\ fetches = <<>> /\ lists = <<>>
    /\ \A a \in Auctions : auctions[a].row = auctions[a].redis
    /\ \A n \in DOMAIN visits :
           visits[n].call.pc = "done" /\ visits[n].socket # "connecting"
           /\ visits[n].inbox = <<>>

(* What a room bids against: the auction that runs, or none.                  *)
ShowsTheRoom ==
    LET running == {a \in AuctionsShown(session.room) : auctions[a].redis.status = "running"}
    IN  IF running = {} THEN session.runtime = Nothing \/ session.runtime.status # "running"
        ELSE session.auction \in running /\ session.runtime = Runtime(session.auction)

(* The panel's copy of its auction, which lists of rows may put back behind   *)
(* what a snapshot brought.                                                   *)
PanelIsPast ==
    session.panel # Nothing =>
        /\ session.auction # Nothing /\ session.panel.status # "pending"
        /\ session.panel.version <= auctions[session.auction].redis.version

(* Once all has arrived, the auction and the run-time state that drawer, bid  *)
(* button and minimum bid use are the room's as Redis has them, in whichever  *)
(* order events and answers came and whatever rooms the user saw on the way,  *)
(* unless the page was not told of a change: an event while it had no socket  *)
(* in the hub (onOpen asks for nothing), or a snapshot that failed or was     *)
(* overtaken by one asked for later (refreshAuctionSnapshot after every       *)
(* event, LiveHomePage.tsx:250).  What the panel shows of the auction has at  *)
(* least been so.                                                             *)
QuietPageIsCurrent == Quiet /\ ~stale => ShowsTheRoom /\ PanelIsPast
=============================================================================
