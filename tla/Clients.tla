------------------------------ MODULE Clients -------------------------------
(* What reaches a client, and what its page makes of it.  The gateway's       *)
(* connections and the page share no state: a behaviour is one of either.     *)
EXTENDS Viewers, LivePage

VARIABLE part    \* the one that acts

clientsVars == <<part, viewersVars, pageVars>>

ClientsInit == part \in {"viewers", "page"} /\ ViewersInit /\ PageInit

(* Bound: the more rooms, the fewer answers under way, failures and changes.  *)
FewAtATime ==
    /\ Len(visits') + Len(fetches') + failures' <= 3
    /\ ChangesMade' + Len(visits') <= MaxChanges + 1

ClientsNext ==
    /\ UNCHANGED part
    /\ \/ part = "viewers" /\ ViewersNext /\ UNCHANGED pageVars
       \/ part = "page" /\ PageNext /\ FewAtATime /\ UNCHANGED viewersVars

ClientsSpec == ClientsInit /\ [][ClientsNext]_clientsVars /\ ViewersFairness

(* Both type invariants. *)
ClientsTypeOK == ViewersTypeOK /\ PageTypeOK
=============================================================================
