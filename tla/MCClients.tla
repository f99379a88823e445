----------------------------- MODULE MCClients ------------------------------
(* Connections share the hub and the consumers only, which treat each by      *)
(* itself: one is enough.  One of the events is delivered again.  The page    *)
(* finds a room where one auction runs and another waits, and has another     *)
(* room to go to.                                                             *)
EXTENDS Clients, TLC

CONSTANTS c1, e1, e2, w1, w2, l1, l2, x1, x2

OneTwice == (e1 :> 2) @@ (e2 :> 1)
MCAuctionRoom == (x1 :> l1) @@ (x2 :> l1)
=============================================================================
