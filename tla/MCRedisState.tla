--------------------------- MODULE MCRedisState ----------------------------
(* Values for an instance of RedisState: two auctions that share a room.      *)
EXTENDS RedisState, TLC

CONSTANTS a1, a2, r1, u1, u2

SharedRoom == [a \in Auctions |-> r1]

(* A seal price two increments up: it caps the minimum from the second bid on. *)
OneRule == {[startPrice |-> 1, incr |-> 1, seal |-> 3, end |-> 1]}

Symmetric == Permutations({u1, u2}) \cup Permutations({a1, a2})
=============================================================================
