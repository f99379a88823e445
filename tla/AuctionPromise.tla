--------------------------- MODULE AuctionPromise ---------------------------
(* What the service design promises of an auction, without saying where its   *)
(* state is kept: it is announced, may be revised, cancelled or withdrawn,    *)
(* opens, takes bids that never lower the price, and is closed for good       *)
(* (docs/services/auction-service, the rules of the interfaces).  Until it is *)
(* settled, the service only promises less: it may open again, from whatever  *)
(* it was, without its bids.                                                  *)
EXTENDS Naturals

CONSTANTS Auctions, Users, NoUser

VARIABLES
    auction,  \* what merchants and bidders are shown
    settled   \* auctions nobody can announce or open any more

Unknown == [status |-> "absent", price |-> 0, winner |-> NoUser, bids |-> 0]

Init == auction = [a \in Auctions |-> Unknown] /\ settled = {}

Becomes(a, next) == auction' = [auction EXCEPT ![a] = next]

(* Nobody has bid yet; the price is the start price of the moment.            *)
Afresh(a, status) ==
    /\ a \notin settled /\ auction'[a].price > 0
    /\ Becomes(a, [status |-> status, price |-> auction'[a].price, winner |-> NoUser, bids |-> 0])

(* A merchant creates the auction, or changes its start price while it waits. *)
Announce(a) == auction[a].status \in {"absent", "pending"} /\ Afresh(a, "pending")

Open(a) == Afresh(a, "running")

(* Before it opens, also by a merchant who read the price of a while ago.     *)
CancelWaiting(a) == auction[a].status = "pending" /\ Afresh(a, "canceled")

(* A deleted auction that never opened is gone.                               *)
Withdraw(a) == auction[a].status \in {"pending", "canceled"} /\ auction[a].bids = 0 /\ Becomes(a, Unknown)

(* Somebody other than the leader takes the lead; the price never falls below *)
(* a bid.                                                                     *)
Bid(a, u) ==
    /\ auction[a].status = "running" /\ auction[a].winner # u
    /\ auction[a].bids > 0 => auction'[a].price >= auction[a].price
    /\ Becomes(a, [status |-> "running", price |-> auction'[a].price, winner |-> u,
                   bids |-> auction[a].bids + 1])

(* The leader wins; without one the auction fails. *)
Finish(a) ==
    /\ auction[a].status = "running"
    /\ Becomes(a, [auction[a] EXCEPT !.status = IF auction[a].winner = NoUser THEN "failed" ELSE "deal"])

Cancel(a) ==
    /\ auction[a].status = "running"
    /\ Becomes(a, [auction[a] EXCEPT !.status = "canceled"])

Changes(a) ==
    \/ Announce(a) \/ Open(a) \/ CancelWaiting(a) \/ Withdraw(a)
    \/ \E u \in Users : Bid(a, u)
    \/ Finish(a) \/ Cancel(a)

Next == settled \subseteq settled' /\ (UNCHANGED auction \/ \E a \in Auctions : Changes(a))

Spec == Init /\ [][Next]_<<auction, settled>>
=============================================================================
