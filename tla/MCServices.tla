----------------------------- MODULE MCServices -----------------------------
(* Four services, checked in one run on small instances. *)
EXTENDS Services, TLC

CONSTANTS u1, u2, a1, a2, a3

MCOwnerOf == (a1 :> u1) @@ (a2 :> u1) @@ (a3 :> u2)
=============================================================================
