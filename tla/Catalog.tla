------------------------------- MODULE Catalog -------------------------------
(* goods-service: the goods of one shop, the requests that edit and switch    *)
(* them, and the callers that read the whole list page by page                *)
(* (auction-service's ListGoodsForShop, api-gateway's listCreateOptionGoods). *)
EXTENDS Naturals, FiniteSets

CONSTANTS
    Goods,        \* ids, in the order of the list: numbers, newest first
    Texts,        \* what title, cover and description may say
    Matching,     \* the texts whose title contains the keyword of a search
    Editors,      \* UpdateGoods requests served at the same time
    NoGoods,      \* no row yet
    Unread,       \* an editor that serves nothing
    PageSize

GoodsRow == [text : Texts, onSale : BOOLEAN, deleted : BOOLEAN]

ASSUME CatalogAssumption ==
    /\ Goods \subseteq Nat /\ IsFiniteSet(Goods)
    /\ PageSize \in Nat \ {0}
    /\ NoGoods \notin GoodsRow /\ Unread \notin [goods : Goods, row : GoodsRow \cup {NoGoods}]
    /\ Matching \subseteq Texts

VARIABLES
    goods,     \* the goods table
    editors,   \* the row each UpdateGoods request read, with its own changes; no row
               \* once they are written
    told,      \* history: what the shop was last told of its goods
    list       \* the caller that reads the list, and what it has of it

catalogVars == <<goods, editors, told, list>>

(* New goods are off sale. *)
NewGoods(text) == [text |-> text, onSale |-> FALSE, deleted |-> FALSE]

NoList == [pc |-> "idle", wants |-> "any", page |-> 0, total |-> 0, read |-> 0,
           found |-> {}, stayed |-> {}, left |-> 0, joined |-> 0]

CatalogInit ==
    /\ goods = [g \in Goods |-> NoGoods]
    /\ editors = [e \in Editors |-> Unread]
    /\ told = [g \in Goods |-> "nothing"]
    /\ list = NoList

(* The WHERE of every statement on one row. *)
InUse(g) == goods[g] # NoGoods /\ ~goods[g].deleted

(* What an answer says of a row. *)
Says(row) ==
    IF row = NoGoods THEN "nothing"
    ELSE IF row.deleted THEN "deleted"
    ELSE IF row.onSale THEN "on_sale" ELSE "off_sale"

-----------------------------------------------------------------------------
(* Lists.  A page is a Count and then a Find of the rows that match, newest   *)
(* first; the caller goes on until it read as many rows as the last Count     *)
(* said, or a page is empty.                                                  *)

(* What callers that read a whole list ask for. *)
Wants == {"any", "on_sale", "named"}

(* applyGoodsFilter, of a table of goods. *)
Listed(table, wants) ==
    {g \in Goods : /\ table[g] # NoGoods /\ ~table[g].deleted
                   /\ wants = "on_sale" => table[g].onSale
                   /\ wants = "named" => table[g].text \in Matching}

Position(g, rows) == Cardinality({h \in rows : h >= g})

Page(rows, page) == {g \in rows : (page - 1) * PageSize < Position(g, rows) /\ Position(g, rows) <= page * PageSize}

(* History of a list being read: the rows that stayed in it from the first    *)
(* page on, how many left it, and how many joined it since the last Count.    *)
(* More than there are goods are not counted.                                 *)
Tally(n, rows) ==
    IF n + Cardinality(rows) > Cardinality(Goods) THEN Cardinality(Goods) ELSE n + Cardinality(rows)

Watched(table) ==
    LET before == Listed(goods, list.wants)
        after == Listed(table, list.wants)
    IN  IF list.pc \in {"count", "find"}
        THEN [list EXCEPT !.stayed = @ \cap after, !.left = Tally(@, before \ after),
                          !.joined = IF list.pc = "find" THEN Tally(@, after \ before) ELSE @]
        ELSE list

Changes(table) == goods' = table /\ list' = Watched(table)

ListGoods(wants) ==
    /\ list.pc = "idle"
    /\ list' = [NoList EXCEPT !.pc = "count", !.wants = wants, !.page = 1,
                              !.stayed = Listed(goods, wants)]
    /\ UNCHANGED <<goods, editors, told>>

CountPage ==
    /\ list.pc = "count"
    /\ list' = [list EXCEPT !.pc = "find", !.joined = 0,
                             !.total = Cardinality(Listed(goods, list.wants))]
    /\ UNCHANGED <<goods, editors, told>>

(* Mutant of LastPage: the last row is not waited for. *)
LastPageEarly(rows, read, total) == rows = {} \/ read + 1 >= total

(* Mutant of LastPage: an empty page is not the end. *)
LastPageByCount(rows, read, total) == read >= total

LastPage(rows, read, total) == rows = {} \/ read >= total

(* Page numbers past the number of goods are all one empty page. *)
FindPage ==
    LET rows == Page(Listed(goods, list.wants), list.page)
        read == list.read + Cardinality(rows)
    IN
    /\ list.pc = "find"
    /\ list' = [list EXCEPT !.read = read, !.found = @ \cup rows,
                            !.page = IF @ > Cardinality(Goods) THEN @ ELSE @ + 1,
                            !.pc = IF LastPage(rows, read, list.total) THEN "done" ELSE "count"]
    /\ UNCHANGED <<goods, editors, told>>

ListServed ==
    /\ list.pc = "done"
    /\ list' = NoList
    /\ UNCHANGED <<goods, editors, told>>

-----------------------------------------------------------------------------
(* Requests of the shop; those for goods of others are refused. *)

CreateGoods(g, text) ==
    /\ goods[g] = NoGoods
    /\ Changes([goods EXCEPT ![g] = NewGoods(text)])
    /\ told' = [told EXCEPT ![g] = "off_sale"]
    /\ UNCHANGED editors

(* UpdateStatus: one statement. *)
UpdateStatus(g, onSale) ==
    /\ InUse(g)
    /\ Changes([goods EXCEPT ![g].onSale = onSale])
    /\ told' = [told EXCEPT ![g] = IF onSale THEN "on_sale" ELSE "off_sale"]
    /\ UNCHANGED editors

DeleteGoods(g) ==
    /\ InUse(g)
    /\ Changes([goods EXCEPT ![g].deleted = TRUE])
    /\ told' = [told EXCEPT ![g] = "deleted"]
    /\ UNCHANGED editors

(* UpdateGoods reads the row and merges its request into it ...               *)
UpdateRead(e, g, text) ==
    /\ editors[e] = Unread /\ InUse(g)
    /\ editors' = [editors EXCEPT ![e] = [goods |-> g, row |-> [goods[g] EXCEPT !.text = text]]]
    /\ UNCHANGED <<goods, told, list>>

(* Mutant of Edited: all columns are written, as live-service does. *)
EditedWhole(row, edit) == edit

Edited(row, edit) == [row EXCEPT !.text = edit.text]

(* ... and writes three columns back, if the row is still there ...           *)
UpdateWrite(e) ==
    LET edit == editors[e] IN
    /\ edit # Unread /\ edit.row # NoGoods
    /\ IF InUse(edit.goods)
       THEN /\ Changes([goods EXCEPT ![edit.goods] = Edited(@, edit.row)])
            /\ editors' = [editors EXCEPT ![e].row = NoGoods]
       ELSE /\ editors' = [editors EXCEPT ![e] = Unread]
            /\ UNCHANGED <<goods, list>>
    /\ UNCHANGED told

(* ... and reads it again for its answer, which is an error once it is gone.  *)
UpdateAnswer(e) ==
    LET edit == editors[e] IN
    /\ edit # Unread /\ edit.row = NoGoods
    /\ told' = IF InUse(edit.goods) THEN [told EXCEPT ![edit.goods] = Says(goods[edit.goods])] ELSE told
    /\ editors' = [editors EXCEPT ![e] = Unread]
    /\ UNCHANGED <<goods, list>>

CatalogNext ==
    \/ \E g \in Goods, text \in Texts :
          CreateGoods(g, text) \/ (\E e \in Editors : UpdateRead(e, g, text))
    \/ \E g \in Goods : DeleteGoods(g) \/ (\E onSale \in BOOLEAN : UpdateStatus(g, onSale))
    \/ \E e \in Editors : UpdateWrite(e) \/ UpdateAnswer(e)
    \/ \E wants \in Wants : ListGoods(wants)
    \/ CountPage \/ FindPage \/ ListServed

CatalogSpec == CatalogInit /\ [][CatalogNext]_catalogVars

(* A caller that reads a list goes on until it has it. *)
CatalogFairness == WF_catalogVars(CountPage \/ FindPage)

-----------------------------------------------------------------------------
CatalogTypeOK ==
    /\ goods \in [Goods -> GoodsRow \cup {NoGoods}]
    /\ editors \in [Editors -> [goods : Goods, row : GoodsRow \cup {NoGoods}] \cup {Unread}]
    /\ told \in [Goods -> {"nothing", "on_sale", "off_sale", "deleted"}]
    /\ list.pc \in {"idle", "count", "find", "done"} /\ list.found \subseteq Goods

(* An edit that read its goods before they were put on sale, taken off sale   *)
(* or deleted is written after it, and leaves alone what the shop was told.   *)
LastWordStands == \A g \in Goods : told[g] = Says(goods[g])

(* Of the rows that are in the list all the while, a caller that reads page   *)
(* after page misses at most one for each row that left the list meanwhile    *)
(* (deleted, taken off sale, retitled), which moves another into a page       *)
(* already read, and one for each that joined it between the last Count and   *)
(* its Find, which ends the loop too early.  Nothing else costs it a row:     *)
(* rows joining the list at any other time do not.                            *)
MissesAreExplained ==
    list.pc = "done" => Cardinality(list.stayed \ list.found) <= list.left + list.joined

(* The loop over the pages ends, whatever is added, removed and switched.     *)
ListsEnd == list.pc = "count" ~> list.pc = "done"
=============================================================================
