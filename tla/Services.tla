------------------------------ MODULE Services -------------------------------
(* live-service, goods-service, user-service and pkg/idgen share no state: a  *)
(* behaviour picks one of them and the others stay as they began.             *)
EXTENDS LiveRooms, Catalog, Accounts, IdGen

VARIABLE part

servicesVars == <<part, roomsVars, catalogVars, accountsVars, idVars>>

ServicesInit ==
    /\ part \in {"rooms", "catalog", "accounts", "ids"}
    /\ RoomsInit /\ CatalogInit /\ AccountsInit /\ IdsInit

ServicesNext ==
    /\ UNCHANGED part
    /\ \/ part = "rooms" /\ RoomsNext /\ UNCHANGED <<catalogVars, accountsVars, idVars>>
       \/ part = "catalog" /\ CatalogNext /\ UNCHANGED <<roomsVars, accountsVars, idVars>>
       \/ part = "accounts" /\ AccountsNext /\ UNCHANGED <<roomsVars, catalogVars, idVars>>
       \/ part = "ids" /\ IdsNext /\ UNCHANGED <<roomsVars, catalogVars, accountsVars>>

ServicesSpec == ServicesInit /\ [][ServicesNext]_servicesVars /\ CatalogFairness

(* The four type invariants. *)
ServicesTypeOK == RoomsTypeOK /\ CatalogTypeOK /\ AccountsTypeOK /\ IdsTypeOK
=============================================================================
