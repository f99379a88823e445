------------------------------ MODULE Accounts ------------------------------
(* user-service: user rows and delivery addresses.  A profile or an address   *)
(* is read, changed and written back by two statements; what one transaction  *)
(* does is one step, for InnoDB locks the addresses of the user it updates    *)
(* until it commits, or aborts one of two that wait for each other.           *)
EXTENDS Naturals

CONSTANTS
    Users,
    Names,         \* usernames
    Phones,        \* phone numbers; email addresses are treated alike
    NoPhone,
    Addresses,     \* address ids
    OwnerOf,       \* the user an address is created for
    Details,       \* receiver, phone, street and the rest of an address
    UserCalls,     \* registrations and profile updates served at the same time
    AddressCalls,  \* address updates served at the same time
    NoRow,         \* no row yet
    NoCall         \* a call slot that serves nothing

ASSUME AccountsAssumption == OwnerOf \in [Addresses -> Users] /\ NoPhone \notin Phones

VARIABLES
    users,         \* the user table
    userCalls,     \* the row each request is about to write, once it found it unique
    addresses,     \* the user_address table
    addressCalls   \* the row each UpdateAddress read, with its own changes

accountsVars == <<users, userCalls, addresses, addressCalls>>

AccountsInit ==
    /\ users = [u \in Users |-> NoRow]
    /\ userCalls = [c \in UserCalls |-> NoCall]
    /\ addresses = [a \in Addresses |-> NoRow]
    /\ addressCalls = [c \in AddressCalls |-> NoCall]

-----------------------------------------------------------------------------
(* Users.  Rows are never deleted. *)

(* ensureFieldUnique, of a non-empty field. *)
HeldByAnother(u, field, value) ==
    \E other \in Users \ {u} : users[other] # NoRow /\ users[other][field] = value

(* ensureUnique *)
Unique(u, row) ==
    /\ ~HeldByAnother(u, "name", row.name)
    /\ row.phone # NoPhone => ~HeldByAnother(u, "phone", row.phone)

UserGoes(c, call) == userCalls' = [userCalls EXCEPT ![c] = call] /\ UNCHANGED <<addresses, addressCalls>>

(* RegisterUser with a new id: looks for the name and the phone first ...     *)
RegisterUser(c, u, name, phone) ==
    LET row == [name |-> name, phone |-> phone] IN
    /\ userCalls[c] = NoCall /\ users[u] = NoRow /\ Unique(u, row)
    /\ \A other \in UserCalls : userCalls[other] # NoCall => userCalls[other].user # u
    /\ UserGoes(c, [user |-> u, row |-> row])
    /\ UNCHANGED users

(* UpdateCurrentUser reads the row, takes the new phone over and looks for it; *)
(* the lookup comes after the read, and a request that fails it is no step.   *)
UpdateCurrentUser(c, u, phone) ==
    /\ userCalls[c] = NoCall /\ users[u] # NoRow
    /\ Unique(u, [users[u] EXCEPT !.phone = phone])
    /\ UserGoes(c, [user |-> u, row |-> [users[u] EXCEPT !.phone = phone]])
    /\ UNCHANGED users

(* ... and then inserts or writes the row; uk_username is the only key that   *)
(* the table itself keeps unique.                                             *)
SaveUser(c) ==
    LET call == userCalls[c] IN
    /\ call # NoCall
    /\ \/ /\ ~HeldByAnother(call.user, "name", call.row.name)
          /\ users' = [users EXCEPT ![call.user] = call.row]
       \/ HeldByAnother(call.user, "name", call.row.name) /\ UNCHANGED users
    /\ UserGoes(c, NoCall)

-----------------------------------------------------------------------------
(* Addresses. *)

Kept(a) == addresses[a] # NoRow /\ ~addresses[a].deleted

(* Mutant of UnsetDefaultAddresses: the user's other addresses keep their mark. *)
UnsetNothing(table, u, keep) == table

UnsetDefaultAddresses(table, u, keep) ==
    [a \in Addresses |->
        IF a # keep /\ OwnerOf[a] = u /\ table[a] # NoRow /\ ~table[a].deleted
        THEN [table[a] EXCEPT !.default = FALSE] ELSE table[a]]

(* The transactions that store an address: if it is to be the default one,    *)
(* no other stays it.                                                         *)
Store(a, row) ==
    addresses' = [(IF row.default THEN UnsetDefaultAddresses(addresses, OwnerOf[a], a) ELSE addresses) EXCEPT ![a] = row]

CreateAddress(a, detail, default) ==
    /\ addresses[a] = NoRow
    /\ Store(a, [detail |-> detail, default |-> default, deleted |-> FALSE])
    /\ UNCHANGED <<users, userCalls, addressCalls>>

SetDefaultAddress(a) ==
    /\ Kept(a)
    /\ Store(a, [addresses[a] EXCEPT !.default = TRUE])
    /\ UNCHANGED <<users, userCalls, addressCalls>>

DeleteAddress(a) ==
    /\ Kept(a)
    /\ addresses' = [addresses EXCEPT ![a].deleted = TRUE]
    /\ UNCHANGED <<users, userCalls, addressCalls>>

(* UpdateAddress reads before its transaction, and keeps the mark it read     *)
(* unless the request names one ...                                           *)
UpdateAddress(c, a, detail, default) ==
    /\ addressCalls[c] = NoCall /\ Kept(a)
    /\ addressCalls' = [addressCalls EXCEPT ![c] =
          [address |-> a, row |-> [addresses[a] EXCEPT !.detail = detail, !.default = default]]]
    /\ UNCHANGED <<users, userCalls, addresses>>

(* ... and stores all of it, mark included, if the address is still there.    *)
SaveAddress(c) ==
    LET call == addressCalls[c] IN
    /\ call # NoCall
    /\ IF Kept(call.address) THEN Store(call.address, call.row) ELSE UNCHANGED addresses
    /\ addressCalls' = [addressCalls EXCEPT ![c] = NoCall]
    /\ UNCHANGED <<users, userCalls>>

AccountsNext ==
    \/ \E c \in UserCalls, u \in Users, phone \in Phones \cup {NoPhone} :
          UpdateCurrentUser(c, u, phone) \/ (\E name \in Names : RegisterUser(c, u, name, phone))
    \/ \E c \in UserCalls : SaveUser(c)
    \/ \E a \in Addresses, detail \in Details :
          \/ \E default \in BOOLEAN : CreateAddress(a, detail, default)
          \/ \E c \in AddressCalls, default \in BOOLEAN : UpdateAddress(c, a, detail, default)
    \/ \E a \in Addresses : SetDefaultAddress(a) \/ DeleteAddress(a)
    \/ \E c \in AddressCalls : SaveAddress(c)

AccountsSpec == AccountsInit /\ [][AccountsNext]_accountsVars

-----------------------------------------------------------------------------
UserRow == [name : Names, phone : Phones \cup {NoPhone}]
AddressRow == [detail : Details, default : BOOLEAN, deleted : BOOLEAN]

AccountsTypeOK ==
    /\ users \in [Users -> UserRow \cup {NoRow}]
    /\ userCalls \in [UserCalls -> [user : Users, row : UserRow] \cup {NoCall}]
    /\ addresses \in [Addresses -> AddressRow \cup {NoRow}]
    /\ addressCalls \in [AddressCalls -> [address : Addresses, row : AddressRow] \cup {NoCall}]

(* A user has at most one default address, whichever creations, updates (which *)
(* bring back the mark they read), switches and deletions overlap.            *)
OneDefaultAddress ==
    \A a, b \in Addresses :
        Kept(a) /\ Kept(b) /\ OwnerOf[a] = OwnerOf[b] /\ addresses[a].default /\ addresses[b].default
            => a = b
=============================================================================
