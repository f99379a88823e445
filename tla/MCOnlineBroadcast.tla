------------------------- MODULE MCOnlineBroadcast -------------------------
(* Values for the instances of OnlineBroadcast that TLC checks: one user with *)
(* a connection to each of two gateways.                                      *)
EXTENDS OnlineBroadcast, TLC

CONSTANTS c1, c2, u1, g1, g2

OneOwner == [c \in Conns |-> u1]
EachItsGateway == (c1 :> g1) @@ (c2 :> g2)
OneAhead == (g1 :> 1) @@ (g2 :> 0)
SameClock == [i \in Gateways |-> 0]
=============================================================================
