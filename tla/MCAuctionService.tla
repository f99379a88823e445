------------------------- MODULE MCAuctionService -------------------------
(* Values for the instances of AuctionService that TLC checks.                *)
EXTENDS AuctionService, TLC

CONSTANTS a1, a2, r1, u1, u2, b1, b2, q1, q2, q3, m1, m2

SharedRoom == [a \in Auctions |-> r1]
OwnGoods == [a \in Auctions |-> a]

(* One increment below the seal price; the scheduled end is at time 1. *)
OneRule == {[startPrice |-> 1, incr |-> 1, seal |-> 3, end |-> 1]}

(* No scheduled end: StartAuction puts DefaultRun after its start.  No seal. *)
OpenEnd == {[startPrice |-> 1, incr |-> 1, seal |-> 0, end |-> 0]}

(* A request that sets nothing. *)
NoUpdate == {<<>>}

(* A request that sets the increment. *)
IncrementUpdate == {[incr |-> 2]}

(* Ids that are the first of their millisecond are multiples of 2^12, which a *)
(* double represents: today's ids are below 2^59.                             *)
ExactIds == [n \in 1..6 |-> n]
ExactUsers == [u \in Users \cup {NoUser} |-> u]

(* The second bid's id was minted in the millisecond of the first: a double   *)
(* cannot tell them apart.                                                    *)
SameMillisecond == [n \in 1..6 |-> IF n = 2 THEN 1 ELSE n]

RoomSymmetry == Permutations({a1, a2})
Symmetric == Permutations({u1, u2}) \cup Permutations({b1, b2}) \cup Permutations({q1, q2})
OverlapSymmetry == Symmetric \cup Permutations({m1, m2})
=============================================================================
