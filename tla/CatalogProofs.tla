---------------------------- MODULE CatalogProofs ----------------------------
(* The goods of a shop for any goods, texts, number of overlapping edits and  *)
(* size of a page: what the shop is told stands, and lists are complete.      *)
EXTENDS Catalog, FiniteSetTheorems, TLAPS

(* The part of the type invariant that the proof needs: an edit names goods   *)
(* and holds a row that was there, so its goods have one.                     *)
TablesTypeOK ==
    /\ goods \in [Goods -> GoodsRow \cup {NoGoods}]
    /\ editors \in [Editors -> [goods : Goods, row : GoodsRow \cup {NoGoods}] \cup {Unread}]
    /\ told \in [Goods -> {"nothing", "on_sale", "off_sale", "deleted"}]

CatalogInv == TablesTypeOK /\ LastWordStands

(* One row and what is told of it change together. *)
LEMMA OneRowChanges ==
    ASSUME CatalogInv, NEW g \in Goods, NEW row \in GoodsRow,
           goods' = [goods EXCEPT ![g] = row], told' = [told EXCEPT ![g] = Says(row)],
           UNCHANGED editors
    PROVE  CatalogInv'
<1>1. Says(row) \in {"nothing", "on_sale", "off_sale", "deleted"}
    BY DEF Says
<1>2. TablesTypeOK'
    BY <1>1 DEF CatalogInv, TablesTypeOK
<1>3. \A h \in Goods : told'[h] = Says(goods'[h])
    BY DEF CatalogInv, TablesTypeOK, LastWordStands
<1> QED BY <1>2, <1>3 DEF CatalogInv, LastWordStands

LEMMA CatalogStartsInInv ==
    ASSUME CatalogInit PROVE CatalogInv
BY DEF CatalogInit, CatalogInv, TablesTypeOK, LastWordStands, Says

(* The requests that change what the shop is told. *)
LEMMA RequestsKeepInv ==
    ASSUME CatalogInv, NEW g \in Goods
    PROVE  /\ \A text \in Texts : CreateGoods(g, text) => CatalogInv'
           /\ \A onSale \in BOOLEAN : UpdateStatus(g, onSale) => CatalogInv'
           /\ DeleteGoods(g) => CatalogInv'
<1> USE CatalogAssumption DEF CatalogAssumption
<1>1. ASSUME NEW text \in Texts, CreateGoods(g, text)
      PROVE  CatalogInv'
    <2>1. NewGoods(text) \in GoodsRow /\ ~NewGoods(text).deleted /\ ~NewGoods(text).onSale
        BY DEF NewGoods, GoodsRow
    <2>2. Says(NewGoods(text)) = "off_sale"
        BY <2>1 DEF Says
    <2> QED BY <1>1, <2>1, <2>2, OneRowChanges DEF CreateGoods, Changes
<1>2. ASSUME NEW onSale \in BOOLEAN, UpdateStatus(g, onSale)
      PROVE  CatalogInv'
    <2> DEFINE row == [goods[g] EXCEPT !.onSale = onSale]
    <2>1. goods[g] \in GoodsRow /\ ~goods[g].deleted
        BY <1>2 DEF UpdateStatus, InUse, CatalogInv, TablesTypeOK
    <2>2. row \in GoodsRow /\ row.onSale = onSale /\ ~row.deleted
        BY <2>1 DEF GoodsRow
    <2>3. Says(row) = IF onSale THEN "on_sale" ELSE "off_sale"
        BY <2>2 DEF Says
    <2>4. goods' = [goods EXCEPT ![g] = row] /\ told' = [told EXCEPT ![g] = Says(row)]
        BY <1>2, <2>3 DEF UpdateStatus, Changes, CatalogInv, TablesTypeOK
    <2> QED BY <1>2, <2>2, <2>4, OneRowChanges DEF UpdateStatus
<1>3. ASSUME DeleteGoods(g)
      PROVE  CatalogInv'
    <2> DEFINE row == [goods[g] EXCEPT !.deleted = TRUE]
    <2>1. goods[g] \in GoodsRow
        BY <1>3 DEF DeleteGoods, InUse, CatalogInv, TablesTypeOK
    <2>2. row \in GoodsRow /\ row.deleted
        BY <2>1 DEF GoodsRow
    <2>3. Says(row) = "deleted"
        BY <2>2 DEF Says
    <2>4. goods' = [goods EXCEPT ![g] = row] /\ told' = [told EXCEPT ![g] = Says(row)]
        BY <1>3, <2>3 DEF DeleteGoods, Changes, CatalogInv, TablesTypeOK
    <2> QED BY <1>3, <2>2, <2>4, OneRowChanges DEF DeleteGoods
<1> QED BY <1>1, <1>2, <1>3

(* An edit leaves alone what a row says, however old the row it read.         *)
LEMMA EditsKeepInv ==
    ASSUME CatalogInv, NEW e \in Editors
    PROVE  /\ \A g \in Goods, text \in Texts : UpdateRead(e, g, text) => CatalogInv'
           /\ UpdateWrite(e) => CatalogInv'
           /\ UpdateAnswer(e) => CatalogInv'
<1> USE CatalogAssumption DEF CatalogAssumption
<1>1. ASSUME NEW g \in Goods, NEW text \in Texts, UpdateRead(e, g, text)
      PROVE  CatalogInv'
    <2>1. goods[g] \in GoodsRow
        BY <1>1 DEF UpdateRead, InUse, CatalogInv, TablesTypeOK
    <2>2. [goods[g] EXCEPT !.text = text] \in GoodsRow
        BY <2>1 DEF GoodsRow
    <2> QED BY <1>1, <2>2 DEF UpdateRead, CatalogInv, TablesTypeOK, LastWordStands
<1>2. ASSUME UpdateWrite(e)
      PROVE  CatalogInv'
    <2> DEFINE g == editors[e].goods
               row == Edited(goods[g], editors[e].row)
    <2>1. g \in Goods /\ editors[e].row \in GoodsRow /\ UNCHANGED told
        BY <1>2 DEF UpdateWrite, CatalogInv, TablesTypeOK
    <2>2. TablesTypeOK /\ editors' \in [Editors -> [goods : Goods, row : GoodsRow \cup {NoGoods}] \cup {Unread}]
        <3>1. [editors[e] EXCEPT !.row = NoGoods] \in [goods : Goods, row : GoodsRow \cup {NoGoods}]
            BY <1>2 DEF UpdateWrite, CatalogInv, TablesTypeOK
        <3> QED BY <1>2, <3>1 DEF UpdateWrite, CatalogInv, TablesTypeOK
    <2>3. CASE InUse(g)
        <3>1. goods[g] \in GoodsRow /\ goods' = [goods EXCEPT ![g] = row]
            BY <1>2, <2>1, <2>2, <2>3 DEF InUse, UpdateWrite, Changes, TablesTypeOK
        <3>2. row \in GoodsRow /\ row.deleted = goods[g].deleted /\ row.onSale = goods[g].onSale
            BY <2>1, <3>1 DEF Edited, GoodsRow
        <3>3. Says(row) = Says(goods[g])
            BY <3>1, <3>2 DEF Says
        <3>4. \A h \in Goods : told'[h] = Says(goods'[h])
            BY <2>1, <2>2, <3>1, <3>3 DEF CatalogInv, TablesTypeOK, LastWordStands
        <3>5. TablesTypeOK'
            BY <2>1, <2>2, <3>1, <3>2 DEF TablesTypeOK
        <3> QED BY <3>4, <3>5 DEF CatalogInv, LastWordStands
    <2>4. CASE ~InUse(g)
        BY <1>2, <2>1, <2>2, <2>4 DEF UpdateWrite, CatalogInv, TablesTypeOK, LastWordStands
    <2> QED BY <2>3, <2>4
<1>3. ASSUME UpdateAnswer(e)
      PROVE  CatalogInv'
    <2>1. editors[e].goods \in Goods /\ editors' = [editors EXCEPT ![e] = Unread] /\ UNCHANGED goods
        BY <1>3 DEF UpdateAnswer, CatalogInv, TablesTypeOK
    <2>2. told' = told
        <3> DEFINE g == editors[e].goods
        <3>1. told[g] = Says(goods[g]) /\ told \in [Goods -> {"nothing", "on_sale", "off_sale", "deleted"}]
            BY <2>1 DEF CatalogInv, TablesTypeOK, LastWordStands
        <3>2. told' = told \/ told' = [told EXCEPT ![g] = Says(goods[g])]
            BY <1>3 DEF UpdateAnswer
        <3> HIDE DEF g
        <3> QED BY <3>1, <3>2
    <2> QED BY <2>1, <2>2 DEF CatalogInv, TablesTypeOK, LastWordStands
<1> QED BY <1>1, <1>2, <1>3

LEMMA CatalogStepsKeepInv ==
    ASSUME CatalogInv, [CatalogNext]_catalogVars
    PROVE  CatalogInv'
<1>1. ASSUME UNCHANGED <<goods, editors, told>>
      PROVE  CatalogInv'
    BY <1>1 DEF CatalogInv, TablesTypeOK, LastWordStands
<1>2. ASSUME NEW wants, ListGoods(wants)
      PROVE  CatalogInv'
    BY <1>1, <1>2 DEF ListGoods
<1>3. CASE CountPage \/ FindPage \/ ListServed
    BY <1>1, <1>3 DEF CountPage, FindPage, ListServed
<1>4. CASE UNCHANGED catalogVars
    BY <1>1, <1>4 DEF catalogVars
<1> QED BY <1>2, <1>3, <1>4, RequestsKeepInv, EditsKeepInv DEF CatalogNext

LEMMA CatalogInvHolds == CatalogSpec => []CatalogInv
<1>1. CatalogInit => CatalogInv
    BY CatalogStartsInInv
<1>2. CatalogInv /\ [CatalogNext]_catalogVars => CatalogInv'
    BY CatalogStepsKeepInv
<1> QED BY <1>1, <1>2, PTL DEF CatalogSpec

(* However many edits overlap with switches and deletions, goods are as the   *)
(* shop was last told.                                                        *)
THEOREM EditsRespectSwitches == CatalogSpec => []LastWordStands
<1>1. CatalogInv => LastWordStands
    BY DEF CatalogInv
<1> QED BY <1>1, CatalogInvHolds, PTL

-----------------------------------------------------------------------------
(* Positions in a list                                                        *)

LEMMA CardinalityIsNat ==
    ASSUME NEW S, IsFiniteSet(S)
    PROVE  Cardinality(S) \in Nat
BY FS_CardinalityType

(* Positions are ranks: each row has its own, from 1 to the number of rows.   *)
LEMMA PositionsAreRanks ==
    ASSUME NEW L \in SUBSET Goods
    PROVE  /\ Cardinality(L) \in Nat /\ IsFiniteSet(L) /\ Cardinality(L) <= Cardinality(Goods)
           /\ \A g \in L : Position(g, L) \in 1..Cardinality(L)
           /\ \A g, h \in L : g < h => Position(h, L) < Position(g, L)
           /\ \A g, h \in L : g # h => Position(g, L) # Position(h, L)
<1> DEFINE From(g) == {h \in L : h >= g}
<1>1. IsFiniteSet(L) /\ Cardinality(L) \in Nat /\ Cardinality(L) <= Cardinality(Goods) /\ L \subseteq Nat
    BY CatalogAssumption, FS_Subset, FS_CardinalityType DEF CatalogAssumption
<1>2. ASSUME NEW g \in L
      PROVE  /\ IsFiniteSet(From(g)) /\ Cardinality(From(g)) \in Nat
             /\ Cardinality(From(g)) <= Cardinality(L) /\ Cardinality(From(g)) # 0
    <2>1. From(g) \in SUBSET L /\ g \in From(g)
        BY <1>1
    <2> HIDE DEF From
    <2>2. IsFiniteSet(From(g)) /\ Cardinality(From(g)) <= Cardinality(L) /\ Cardinality(From(g)) \in Nat
        BY <1>1, <2>1, FS_Subset, FS_CardinalityType
    <2>3. Cardinality(From(g)) # 0
        BY <2>1, <2>2, FS_EmptySet
    <2> QED BY <2>2, <2>3
<1>3. ASSUME NEW g \in L, NEW h \in L, g < h
      PROVE  Cardinality(From(h)) < Cardinality(From(g))
    <2>1. \A x \in L : x \in Nat
        BY <1>1
    <2>2. (\A x \in L : x >= h => x >= g) /\ g >= g /\ ~(g >= h)
        BY <1>3, <2>1
    <2>3. From(h) \in SUBSET From(g) /\ g \in From(g) /\ g \notin From(h)
        BY <2>2
    <2> HIDE DEF From
    <2>4. Cardinality(From(h)) <= Cardinality(From(g)) /\ Cardinality(From(h)) # Cardinality(From(g))
        BY <1>2, <2>3, FS_Subset
    <2> QED BY <1>2, <2>4
<1>4. \A g, h \in L : g # h => g < h \/ h < g
    BY <1>1
<1>5. \A g \in L : Position(g, L) = Cardinality(From(g))
    BY DEF Position
<1> HIDE DEF From
<1>6. \A g \in L : Position(g, L) \in 1..Cardinality(L)
    BY <1>1, <1>2, <1>5
<1>7. \A g, h \in L : g < h => Position(h, L) < Position(g, L)
    BY <1>3, <1>5
<1>8. \A g, h \in L : g # h => Position(g, L) # Position(h, L)
    BY <1>4, <1>6, <1>7
<1> QED BY <1>1, <1>6, <1>7, <1>8

(* ... and every rank is some row's.                                          *)
LEMMA RanksAreTaken ==
    ASSUME NEW L \in SUBSET Goods, NEW k \in 1..Cardinality(L)
    PROVE  \E g \in L : Position(g, L) = k
<1> DEFINE N == Cardinality(L)
           f == [g \in L |-> Position(g, L)]
<1>1. IsFiniteSet(L) /\ N \in Nat
    BY PositionsAreRanks
<1>2. f \in Injection(L, 1..N)
    BY PositionsAreRanks DEF Injection, IsInjective
<1>3. IsFiniteSet(1..N) /\ Cardinality(1..N) = N
    BY <1>1, FS_Interval
<1>4. f \in Surjection(L, 1..N)
    <2> HIDE DEF f
    <2> QED BY <1>2, <1>3, FS_Injection
<1> QED BY <1>4 DEF Surjection

LEMMA UnionIsBounded ==
    ASSUME NEW S, NEW T, NEW U, IsFiniteSet(S), IsFiniteSet(T), U \subseteq S \cup T
    PROVE  /\ IsFiniteSet(U) /\ Cardinality(U) \in Nat /\ Cardinality(S) \in Nat /\ Cardinality(T) \in Nat
           /\ Cardinality(U) <= Cardinality(S) + Cardinality(T)
<1>1. IsFiniteSet(S \cap T)
    BY FS_Subset
<1>2. /\ IsFiniteSet(S \cup T) /\ Cardinality(S \cap T) \in Nat
      /\ Cardinality(S \cup T) = Cardinality(S) + Cardinality(T) - Cardinality(S \cap T)
    BY <1>1, FS_Union, CardinalityIsNat
<1>3. IsFiniteSet(U) /\ Cardinality(U) <= Cardinality(S \cup T)
    BY <1>2, FS_Subset
<1>4. Cardinality(U) \in Nat /\ Cardinality(S) \in Nat /\ Cardinality(T) \in Nat /\ Cardinality(S \cup T) \in Nat
    BY <1>2, <1>3, CardinalityIsNat
<1> QED BY <1>2, <1>3, <1>4

LEMMA PartsAddUp ==
    ASSUME NEW S, NEW T, IsFiniteSet(S), T \subseteq S
    PROVE  /\ Cardinality(S) \in Nat /\ Cardinality(T) \in Nat /\ Cardinality(S \ T) \in Nat
           /\ Cardinality(S) = Cardinality(T) + Cardinality(S \ T)
<1>1. IsFiniteSet(T) /\ IsFiniteSet(S \ T) /\ S \cap T = T
    BY FS_Subset, FS_Difference
<1>2. Cardinality(S \ T) = Cardinality(S) - Cardinality(T)
    BY <1>1, FS_Difference
<1> QED BY <1>1, <1>2, CardinalityIsNat

(* The first k places hold k rows, or all there are; what is past them is the *)
(* rest.                                                                      *)
First(L, k) == {g \in L : Position(g, L) <= k}

LEMMA FirstRows ==
    ASSUME NEW L \in SUBSET Goods, NEW k \in Nat
    PROVE  /\ IsFiniteSet(First(L, k)) /\ Cardinality(First(L, k)) \in Nat
           /\ Cardinality(First(L, k)) <= k
           /\ L # First(L, k) => Cardinality(First(L, k)) = k
           /\ \A m \in Nat : Cardinality(L) <= k + m => Cardinality(L \ First(L, k)) <= m
<1> DEFINE F == First(L, k)
           f == [g \in F |-> Position(g, L)]
<1>1. /\ Cardinality(L) \in Nat /\ IsFiniteSet(L)
      /\ \A g \in L : Position(g, L) \in 1..Cardinality(L)
      /\ \A g, h \in L : g # h => Position(g, L) # Position(h, L)
    BY PositionsAreRanks
<1>2. F \subseteq L /\ \A g \in L : g \in F <=> Position(g, L) <= k
    BY DEF First
<1> HIDE DEF F
<1>3. IsFiniteSet(1..k) /\ Cardinality(1..k) = k
    BY FS_Interval
<1>4. f \in [F -> 1..k]
    BY <1>1, <1>2
<1>5. \A g, h \in F : f[g] = f[h] => g = h
    BY <1>1, <1>2
<1>6. f \in Injection(F, 1..k)
    BY <1>4, <1>5 DEF Injection, IsInjective
<1>7. IsFiniteSet(F) /\ Cardinality(F) <= k /\ (f \in Surjection(F, 1..k) => Cardinality(F) = k)
    <2> HIDE DEF f
    <2> QED BY <1>3, <1>6, FS_Injection
<1>8. ASSUME L # F
      PROVE  Cardinality(F) = k
    <2>1. PICK g \in L : Position(g, L) > k
        BY <1>1, <1>2, <1>8
    <2>2. k <= Cardinality(L)
        BY <1>1, <2>1
    <2>3. ASSUME NEW n \in 1..k
          PROVE  \E h \in F : f[h] = n
        <3>1. PICK h \in L : Position(h, L) = n
            BY <1>1, <2>2, RanksAreTaken
        <3>2. h \in F
            BY <1>2, <3>1
        <3> QED BY <3>1, <3>2
    <2>4. f \in Surjection(F, 1..k)
        BY <1>4, <2>3 DEF Surjection
    <2> QED BY <1>7, <2>4
<1>9. ASSUME NEW m \in Nat, Cardinality(L) <= k + m
      PROVE  Cardinality(L \ F) <= m
    <2>1. CASE L = F
        <3>1. L \ F = {}
            BY <2>1
        <3> QED BY <3>1, FS_EmptySet
    <2>2. CASE L # F
        <3>1. Cardinality(F) = k
            BY <1>8, <2>2
        <3>2. Cardinality(L) = Cardinality(F) + Cardinality(L \ F) /\ Cardinality(L \ F) \in Nat
            BY <1>1, <1>2, PartsAddUp
        <3> QED BY <1>9, <3>1, <3>2
    <2> QED BY <2>1, <2>2
<1>10. Cardinality(F) \in Nat
    BY <1>7, CardinalityIsNat
<1> QED BY <1>7, <1>8, <1>9, <1>10 DEF F

(* When a list changes, no more rows come forward into its first k places     *)
(* than left the list: those they overtake.                                   *)
LEMMA RowsComeForward ==
    ASSUME NEW L \in SUBSET Goods, NEW M \in SUBSET Goods, NEW k \in Nat
    PROVE  Cardinality((First(M, k) \cap L) \ First(L, k)) <= Cardinality(L \ M)
<1> DEFINE F == First(L, k)
           X == (First(M, k) \cap L) \ F
           kept == F \cap M
<1>1. /\ IsFiniteSet(L) /\ IsFiniteSet(M) /\ L \subseteq Nat /\ M \subseteq Nat
      /\ IsFiniteSet(First(M, k)) /\ Cardinality(First(M, k)) \in Nat /\ Cardinality(First(M, k)) <= k
      /\ IsFiniteSet(F) /\ F \subseteq L /\ (L # F => Cardinality(F) = k)
    BY PositionsAreRanks, FirstRows, CatalogAssumption DEF First, CatalogAssumption
<1>2. IsFiniteSet(L \ M) /\ Cardinality(L \ M) \in Nat
    BY <1>1, FS_Difference, CardinalityIsNat
<1>3. CASE X = {}
    BY <1>2, <1>3, FS_EmptySet
<1>4. CASE X # {}
    <2>1. Cardinality(F) = k
        BY <1>1, <1>4
    <2>2. kept \subseteq First(M, k)
        <3>1. PICK x \in X : TRUE
            BY <1>4
        <3>2. x \in L /\ x \in M /\ Position(x, M) <= k /\ ~(Position(x, L) <= k)
            BY <3>1 DEF First
        <3>3. SUFFICES ASSUME NEW b \in kept PROVE Position(b, M) <= k
            BY DEF First
        <3>4. b \in L /\ b \in M /\ Position(b, L) <= k
            BY DEF First
        <3>5. Position(b, L) \in Nat /\ Position(x, L) \in Nat /\ Position(b, M) \in Nat /\ Position(x, M) \in Nat
            BY <3>2, <3>4, PositionsAreRanks
        <3>6. ~(b < x) /\ b # x
            BY <3>2, <3>4, <3>5, PositionsAreRanks
        <3>7. x < b
            BY <1>1, <3>2, <3>4, <3>6
        <3>8. Position(b, M) < Position(x, M)
            BY <3>2, <3>4, <3>7, PositionsAreRanks
        <3> QED BY <3>2, <3>5, <3>8
    <2> HIDE DEF F
    <2>3. kept \cap X = {} /\ kept \cup X \in SUBSET First(M, k) /\ kept \subseteq F /\ X \subseteq First(M, k)
        BY <2>2
    <2> HIDE DEF X
    <2>4. IsFiniteSet(kept) /\ IsFiniteSet(X)
        BY <1>1, <2>3, FS_Subset
    <2>5. Cardinality(kept) \in Nat /\ Cardinality(X) \in Nat
        BY <2>4, CardinalityIsNat
    <2>6. Cardinality(kept \cup X) = Cardinality(kept) + Cardinality(X) /\ Cardinality(kept \cup X) <= k
        <3>1. Cardinality(kept \cup X) = Cardinality(kept) + Cardinality(X) - Cardinality(kept \cap X)
            BY <2>4, FS_Union
        <3>2. Cardinality(kept \cap X) = 0
            BY <2>3, FS_EmptySet
        <3>3. Cardinality(kept \cup X) <= Cardinality(First(M, k)) /\ IsFiniteSet(kept \cup X)
            BY <1>1, <2>3, FS_Subset
        <3>4. Cardinality(kept \cup X) \in Nat
            BY <3>3, CardinalityIsNat
        <3> QED BY <1>1, <2>5, <3>1, <3>2, <3>3, <3>4
    <2>7. k = Cardinality(kept) + Cardinality(F \ kept) /\ Cardinality(F \ kept) \in Nat
        BY <1>1, <2>1, <2>3, PartsAddUp
    <2>8. Cardinality(F \ kept) <= Cardinality(L \ M)
        <3>1. F \ kept \in SUBSET (L \ M)
            BY <1>1
        <3> QED BY <1>2, <3>1, FS_Subset
    <2>9. Cardinality(X) <= Cardinality(L \ M)
        BY <1>2, <2>5, <2>6, <2>7, <2>8
    <2> QED BY <2>9 DEF X, F
<1> QED BY <1>3, <1>4

LEMMA PageBounds ==
    ASSUME NEW p \in Nat \ {0}
    PROVE  /\ (p - 1) * PageSize \in Nat /\ p * PageSize = (p - 1) * PageSize + PageSize
           /\ ((p + 1) - 1) * PageSize = p * PageSize /\ p * PageSize \in Nat
           /\ p - 1 <= (p - 1) * PageSize
<1> USE CatalogAssumption DEF CatalogAssumption
<1>1. PICK q \in Nat : p = q + 1
    <2> WITNESS p - 1 \in Nat
    <2> QED OBVIOUS
<1>2. q * PageSize \in Nat /\ (q + 1) * PageSize = q * PageSize + PageSize /\ q <= q * PageSize
    OBVIOUS
<1> QED BY <1>1, <1>2

(* A page holds no more rows than its size, and the first empty page is past  *)
(* the last row.                                                              *)
LEMMA PagesAreFilled ==
    ASSUME NEW L \in SUBSET Goods, NEW p \in Nat \ {0}
    PROVE  /\ Cardinality(Page(L, p)) \in Nat /\ Cardinality(Page(L, p)) <= PageSize
           /\ Page(L, p) = {} => \A g \in L : Position(g, L) <= (p - 1) * PageSize
           /\ Page(L, p) # {} => p <= Cardinality(Goods)
<1> DEFINE from == (p - 1) * PageSize
           rows == Page(L, p)
           slots == (from + 1)..(from + PageSize)
           f == [g \in rows |-> Position(g, L)]
<1>1. from \in Nat /\ p * PageSize = from + PageSize /\ PageSize \in Nat \ {0} /\ p - 1 <= from
    BY PageBounds, CatalogAssumption DEF CatalogAssumption
<1>2. /\ rows \subseteq L
      /\ \A g \in L : g \in rows <=> from < Position(g, L) /\ Position(g, L) <= from + PageSize
    BY <1>1 DEF Page
<1>3. /\ Cardinality(L) \in Nat /\ Cardinality(Goods) \in Nat /\ Cardinality(L) <= Cardinality(Goods)
      /\ \A g \in L : Position(g, L) \in 1..Cardinality(L)
    BY PositionsAreRanks, CardinalityIsNat, CatalogAssumption DEF CatalogAssumption
<1> HIDE DEF from, rows
<1>4. f \in Injection(rows, slots)
    <2>1. f \in [rows -> slots]
        BY <1>1, <1>2, <1>3
    <2>2. \A g, h \in rows : f[g] = f[h] => g = h
        BY <1>2, PositionsAreRanks
    <2> QED BY <2>1, <2>2 DEF Injection, IsInjective
<1>5. IsFiniteSet(slots) /\ Cardinality(slots) = PageSize
    BY <1>1, FS_Interval
<1>6. Cardinality(rows) \in Nat /\ Cardinality(rows) <= PageSize
    <2> HIDE DEF f, slots
    <2> QED BY <1>4, <1>5, FS_Injection, CardinalityIsNat
<1>7. ASSUME rows = {}, NEW g \in L
      PROVE  Position(g, L) <= from
    <2> SUFFICES ASSUME Position(g, L) > from PROVE FALSE
        BY <1>1, <1>3
    <2>1. from + 1 \in 1..Cardinality(L)
        BY <1>1, <1>3
    <2>2. PICK h \in L : Position(h, L) = from + 1
        BY <2>1, RanksAreTaken
    <2> QED BY <1>1, <1>2, <1>7, <2>2
<1>8. ASSUME rows # {}
      PROVE  p <= Cardinality(Goods)
    <2>1. PICK g \in rows : TRUE
        BY <1>8
    <2>2. from < Position(g, L) /\ Position(g, L) <= Cardinality(L) /\ Position(g, L) \in Nat
        BY <2>1, <1>2, <1>3
    <2> QED BY <1>1, <1>3, <2>2
<1> QED BY <1>6, <1>7, <1>8 DEF from, rows

-----------------------------------------------------------------------------
(* The caller that reads a list                                               *)

ListTypeOK ==
    list \in [pc : {"idle", "count", "find", "done"}, wants : Wants, page : Nat, total : Nat,
              read : Nat, found : SUBSET Goods, stayed : SUBSET Goods, left : Nat, joined : Nat]

Rows == Listed(goods, list.wants)
Before == (list.page - 1) * PageSize

(* Rows that stayed in the list and moved to a page that was read already.    *)
Overtaken == (list.stayed \cap First(Rows, Before)) \ list.found

(* Between two pages: the rows that stayed are still there, no more of them   *)
(* were overtaken than rows left, no more were read than the pages hold, and  *)
(* the Count a page is judged by is short only of the rows that joined since. *)
PagesAreRead ==
    list.pc \in {"count", "find"} =>
        /\ list.page # 0
        /\ list.stayed \subseteq Rows
        /\ Cardinality(Overtaken) <= list.left
        /\ list.read <= Before
        /\ list.pc = "find" => Cardinality(Rows) <= list.total + list.joined

ListInv == ListTypeOK /\ PagesAreRead /\ MissesAreExplained

LEMMA ListedAreGoods ==
    \A table, wants : Listed(table, wants) \in SUBSET Goods
BY DEF Listed

LEMMA GoodsAreCounted ==
    ASSUME NEW S \in SUBSET Goods
    PROVE  /\ IsFiniteSet(S) /\ Cardinality(S) \in Nat /\ Cardinality(Goods) \in Nat
           /\ Cardinality(S) <= Cardinality(Goods)
BY CatalogAssumption, FS_Subset, CardinalityIsNat DEF CatalogAssumption

(* A tally bounds what the exact count bounds, among goods.                   *)
LEMMA TalliesBound ==
    ASSUME NEW n \in Nat, NEW S \in SUBSET Goods
    PROVE  /\ Tally(n, S) \in Nat
           /\ \A m \in Nat : m <= Cardinality(Goods) /\ m <= n + Cardinality(S) => m <= Tally(n, S)
           /\ \A m \in Nat, k \in Nat :
                m <= Cardinality(Goods) /\ m <= k + n + Cardinality(S) => m <= k + Tally(n, S)
BY GoodsAreCounted DEF Tally

(* What another request does to the table is watched.                         *)
LEMMA ChangesKeepListInv ==
    ASSUME ListInv, NEW table, Changes(table)
    PROVE  ListInv'
<1> DEFINE before == Listed(goods, list.wants)
           after == Listed(table, list.wants)
<1>1. before \in SUBSET Goods /\ after \in SUBSET Goods
    BY ListedAreGoods
<1> HIDE DEF before, after
<1>2. CASE list.pc \notin {"count", "find"}
    <2>1. list' = list
        BY <1>2 DEF Changes, Watched
    <2> QED BY <1>2, <2>1 DEF ListInv, ListTypeOK, PagesAreRead, MissesAreExplained
<1>3. CASE list.pc \in {"count", "find"}
    <2> DEFINE left == Tally(list.left, before \ after)
               joined == IF list.pc = "find" THEN Tally(list.joined, after \ before) ELSE list.joined
    <2>1. /\ list' = [list EXCEPT !.stayed = @ \cap after, !.left = left, !.joined = joined]
          /\ goods' = table
        BY <1>3 DEF Changes, Watched, before, after
    <2>2. left \in Nat /\ joined \in Nat
        BY <1>1, TalliesBound DEF ListInv, ListTypeOK
    <2> HIDE DEF left, joined
    <2>3. /\ list'.pc = list.pc /\ list'.wants = list.wants /\ list'.page = list.page
          /\ list'.total = list.total /\ list'.read = list.read /\ list'.found = list.found
          /\ list'.stayed = list.stayed \cap after /\ list'.left = left /\ list'.joined = joined
        BY <2>1 DEF ListInv, ListTypeOK
    <2>4. ListTypeOK'
        BY <1>1, <2>1, <2>2 DEF ListInv, ListTypeOK
    <2>5. Rows = before /\ Rows' = after /\ Before' = Before
        BY <2>1, <2>3 DEF Rows, Before, before, after
    <2>6. /\ list.page \in Nat \ {0} /\ list.stayed \subseteq before /\ list.stayed \subseteq Goods
          /\ Cardinality(Overtaken) <= list.left /\ list.read <= Before
          /\ list.pc = "find" => Cardinality(before) <= list.total + list.joined
          /\ list.left \in Nat /\ list.joined \in Nat /\ list.total \in Nat /\ list.read \in Nat
        BY <1>3, <2>5 DEF ListInv, ListTypeOK, PagesAreRead
    <2>7. Before \in Nat
        BY <2>6, PageBounds DEF Before
    <2>8. Cardinality(Overtaken') <= left
        <3> DEFINE forward == (First(after, Before) \cap before) \ First(before, Before)
        <3>1. Overtaken' = (list.stayed \cap after \cap First(after, Before)) \ list.found
            BY <2>3, <2>5 DEF Overtaken
        <3>2. Overtaken = (list.stayed \cap First(before, Before)) \ list.found
            BY <2>5 DEF Overtaken
        <3>3. Overtaken' \subseteq Overtaken \cup forward
            BY <2>6, <3>1, <3>2
        <3>4. Cardinality(forward) <= Cardinality(before \ after)
            BY <1>1, <2>7, RowsComeForward
        <3>5. /\ IsFiniteSet(Overtaken) /\ IsFiniteSet(forward)
              /\ Overtaken' \in SUBSET Goods /\ before \ after \in SUBSET Goods
            BY <1>1, <2>6, <3>1, <3>2, GoodsAreCounted
        <3> DEFINE o == Overtaken
                   oo == Overtaken'
        <3>6. oo \subseteq o \cup forward /\ IsFiniteSet(o) /\ oo \in SUBSET Goods
            BY <3>3, <3>5
        <3> HIDE DEF forward, o, oo
        <3>7. /\ Cardinality(oo) \in Nat /\ Cardinality(o) \in Nat /\ Cardinality(forward) \in Nat
              /\ Cardinality(oo) <= Cardinality(o) + Cardinality(forward)
            BY <3>5, <3>6, UnionIsBounded
        <3>8. Cardinality(oo) <= Cardinality(Goods) /\ Cardinality(before \ after) \in Nat
            BY <3>5, <3>6, GoodsAreCounted
        <3>9. Cardinality(o) <= list.left
            BY <2>6 DEF o
        <3>10. Cardinality(oo) <= list.left + Cardinality(before \ after)
            BY <2>6, <3>4, <3>7, <3>8, <3>9
        <3>11. Cardinality(oo) <= left
            BY <2>6, <3>5, <3>7, <3>8, <3>10, TalliesBound DEF left
        <3> QED BY <3>11 DEF oo
    <2>9. ASSUME list.pc = "find"
          PROVE  Cardinality(after) <= list.total + joined
        <3>1. Cardinality(before) <= list.total + list.joined
            BY <2>6, <2>9
        <3>2. /\ Cardinality(after) \in Nat /\ Cardinality(after) <= Cardinality(Goods)
              /\ Cardinality(before) \in Nat /\ Cardinality(after \ before) \in Nat
              /\ IsFiniteSet(before) /\ IsFiniteSet(after \ before) /\ after \ before \in SUBSET Goods
            BY <1>1, GoodsAreCounted
        <3>3. after \subseteq before \cup (after \ before)
            OBVIOUS
        <3>4. Cardinality(after) <= Cardinality(before) + Cardinality(after \ before)
            BY <3>2, <3>3, UnionIsBounded
        <3>5. Cardinality(after) <= list.total + list.joined + Cardinality(after \ before)
            BY <2>6, <3>1, <3>2, <3>4
        <3> QED BY <2>6, <2>9, <3>2, <3>5, TalliesBound DEF joined
    <2>10. PagesAreRead'
        BY <2>3, <2>5, <2>6, <2>8, <2>9 DEF PagesAreRead
    <2>11. MissesAreExplained'
        BY <1>3, <2>3 DEF MissesAreExplained
    <2> QED BY <2>4, <2>10, <2>11 DEF ListInv
<1> QED BY <1>2, <1>3

LEMMA FindPageKeepsListInv ==
    ASSUME ListInv, FindPage
    PROVE  ListInv'
<1> DEFINE p == list.page
           page == Page(Rows, p)
           read == list.read + Cardinality(page)
<1>1. /\ p \in Nat \ {0} /\ Rows \in SUBSET Goods /\ list.read \in Nat /\ list.total \in Nat
      /\ list.stayed \subseteq Goods /\ list.found \subseteq Goods /\ list.pc = "find"
      /\ list.left \in Nat /\ list.joined \in Nat
    BY ListedAreGoods DEF FindPage, ListInv, ListTypeOK, PagesAreRead, Rows
<1>2. /\ Cardinality(page) \in Nat /\ Cardinality(page) <= PageSize
      /\ page = {} => \A g \in Rows : Position(g, Rows) <= Before
      /\ page # {} => p <= Cardinality(Goods)
    BY <1>1, PagesAreFilled DEF Before
<1>3. /\ Before \in Nat /\ p * PageSize = Before + PageSize /\ ((p + 1) - 1) * PageSize = p * PageSize
      /\ p * PageSize \in Nat /\ PageSize \in Nat /\ Cardinality(Goods) \in Nat
    BY <1>1, PageBounds, CardinalityIsNat, CatalogAssumption DEF Before, CatalogAssumption
<1>4. /\ Cardinality(Rows) \in Nat
      /\ \A g \in Rows : Position(g, Rows) \in Nat
    BY <1>1, PositionsAreRanks
<1>5. \A g \in Rows : g \in page <=> Before < Position(g, Rows) /\ Position(g, Rows) <= p * PageSize
    BY DEF Page, Before
<1>6. page \subseteq Goods
    BY <1>1 DEF Page
<1>7. /\ list' = [list EXCEPT !.read = read, !.found = @ \cup page,
                              !.page = IF @ > Cardinality(Goods) THEN @ ELSE @ + 1,
                              !.pc = IF LastPage(page, read, list.total) THEN "done" ELSE "count"]
      /\ UNCHANGED goods
    BY DEF FindPage, Rows
<1> HIDE DEF page
<1>8. /\ list'.pc = (IF LastPage(page, read, list.total) THEN "done" ELSE "count")
      /\ list'.wants = list.wants /\ list'.stayed = list.stayed /\ list'.left = list.left
      /\ list'.joined = list.joined /\ list'.read = read /\ list'.found = list.found \cup page
      /\ list'.page = (IF p > Cardinality(Goods) THEN p ELSE p + 1)
    BY <1>7 DEF ListInv, ListTypeOK
<1> HIDE DEF p
<1>9. ListTypeOK'
    <2>1. list'.page \in Nat /\ read \in Nat
        BY <1>1, <1>2, <1>3, <1>8
    <2> HIDE DEF read
    <2> QED BY <1>1, <1>6, <1>7, <1>8, <2>1 DEF ListInv, ListTypeOK, p
<1>10. /\ list.stayed \subseteq Rows /\ list.read <= Before
       /\ Cardinality(Overtaken) <= list.left /\ Cardinality(Rows) <= list.total + list.joined
    BY <1>1 DEF ListInv, PagesAreRead
<1> DEFINE o == Overtaken
<1>11. /\ o = (list.stayed \cap First(Rows, Before)) \ list.found /\ o \in SUBSET Goods
       /\ IsFiniteSet(o) /\ Cardinality(o) \in Nat /\ Cardinality(o) <= list.left
    <2>1. o \in SUBSET Goods
        BY <1>1 DEF Overtaken
    <2> QED BY <1>10, <2>1, GoodsAreCounted DEF Overtaken
<1> HIDE DEF o
<1>12. (list.stayed \cap First(Rows, p * PageSize)) \ list'.found \subseteq o
    <2> SUFFICES ASSUME NEW g \in list.stayed, g \in First(Rows, p * PageSize), g \notin list'.found
                 PROVE  g \in o
        OBVIOUS
    <2>1. g \in Rows /\ Position(g, Rows) <= p * PageSize /\ Position(g, Rows) \in Nat
        BY <1>4 DEF First
    <2>2. g \notin page /\ g \notin list.found
        BY <1>8
    <2>3. Position(g, Rows) <= Before
        BY <1>3, <1>5, <2>1, <2>2
    <2> QED BY <1>11, <2>1, <2>2, <2>3 DEF First
<1>13. read <= p * PageSize /\ read \in Nat
    BY <1>1, <1>2, <1>3, <1>10
<1>14. CASE LastPage(page, read, list.total)
    <2> DEFINE rest == Rows \ First(Rows, p * PageSize)
               missed == list.stayed \ list'.found
    <2>1. IsFiniteSet(rest) /\ missed \subseteq o \cup rest
        BY <1>1, <1>10, <1>12, GoodsAreCounted
    <2>0. list'.stayed \ list'.found = missed /\ list'.left + list'.joined = list.left + list.joined
        BY <1>8
    <2>2. ASSUME page = {} PROVE MissesAreExplained'
        <3>1. missed \subseteq o
            <4>1. \A g \in list.stayed : g \in First(Rows, Before)
                BY <1>2, <1>10, <2>2 DEF First
            <4> QED BY <1>8, <1>11, <4>1
        <3> HIDE DEF missed
        <3>2. Cardinality(missed) <= Cardinality(o) /\ IsFiniteSet(missed)
            BY <1>11, <3>1, FS_Subset
        <3>3. Cardinality(missed) <= list.left + list.joined
            BY <1>1, <1>11, <3>2, CardinalityIsNat
        <3> QED BY <2>0, <3>3 DEF MissesAreExplained
    <2>3. ASSUME read >= list.total PROVE MissesAreExplained'
        <3>1. Cardinality(Rows) <= p * PageSize + list.joined
            BY <1>1, <1>3, <1>4, <1>10, <1>13, <2>3
        <3>2. Cardinality(rest) <= list.joined
            BY <1>1, <1>3, <3>1, FirstRows
        <3> HIDE DEF missed, rest
        <3>3. /\ Cardinality(missed) \in Nat /\ Cardinality(rest) \in Nat
              /\ Cardinality(missed) <= Cardinality(o) + Cardinality(rest)
            BY <1>11, <2>1, UnionIsBounded
        <3>4. Cardinality(missed) <= list.left + list.joined
            BY <1>1, <1>11, <3>2, <3>3
        <3> QED BY <2>0, <3>4 DEF MissesAreExplained
    <2>4. MissesAreExplained'
        BY <1>14, <2>2, <2>3 DEF LastPage
    <2> QED BY <1>8, <1>9, <1>14, <2>4 DEF ListInv, PagesAreRead
<1>15. CASE ~LastPage(page, read, list.total)
    <2>1. list'.page = p + 1 /\ list'.pc = "count"
        BY <1>1, <1>2, <1>3, <1>8, <1>15 DEF LastPage
    <2>2. Before' = p * PageSize /\ Rows' = Rows
        BY <1>3, <1>7, <1>8, <2>1 DEF Before, Rows
    <2>3. Cardinality(Overtaken') <= list.left
        <3>1. Overtaken' \subseteq o
            BY <1>8, <1>12, <2>2 DEF Overtaken
        <3> DEFINE oo == Overtaken'
        <3>2. oo \subseteq o
            BY <3>1
        <3> HIDE DEF oo
        <3>3. Cardinality(oo) <= Cardinality(o) /\ IsFiniteSet(oo)
            BY <1>11, <3>2, FS_Subset
        <3>4. Cardinality(oo) <= list.left
            BY <1>1, <1>11, <3>3, CardinalityIsNat
        <3> QED BY <3>4 DEF oo
    <2>4. PagesAreRead'
        BY <1>1, <1>8, <1>10, <1>13, <2>1, <2>2, <2>3 DEF PagesAreRead
    <2>5. MissesAreExplained'
        BY <2>1 DEF MissesAreExplained
    <2> QED BY <1>9, <2>4, <2>5 DEF ListInv
<1> QED BY <1>14, <1>15

LEMMA StepsKeepListInv ==
    ASSUME ListInv, [CatalogNext]_catalogVars
    PROVE  ListInv'
<1>1. ASSUME UNCHANGED <<goods, list>>
      PROVE  ListInv'
    BY <1>1 DEF ListInv, ListTypeOK, PagesAreRead, MissesAreExplained, Overtaken, Rows, Before
<1>2. ASSUME NEW g \in Goods,
             \/ \E text \in Texts : CreateGoods(g, text) \/ (\E e \in Editors : UpdateRead(e, g, text))
             \/ DeleteGoods(g) \/ (\E onSale \in BOOLEAN : UpdateStatus(g, onSale))
      PROVE  ListInv'
    BY <1>1, <1>2, ChangesKeepListInv DEF CreateGoods, UpdateRead, DeleteGoods, UpdateStatus
<1>3. ASSUME NEW e \in Editors, UpdateWrite(e) \/ UpdateAnswer(e)
      PROVE  ListInv'
    BY <1>1, <1>3, ChangesKeepListInv DEF UpdateWrite, UpdateAnswer
<1>4. ASSUME NEW wants \in Wants, ListGoods(wants)
      PROVE  ListInv'
    <2>1. list' = [pc |-> "count", wants |-> wants, page |-> 1, total |-> 0, read |-> 0, found |-> {},
                   stayed |-> Listed(goods, wants), left |-> 0, joined |-> 0]
        BY <1>4 DEF ListGoods, NoList
    <2>2. UNCHANGED goods
        BY <1>4 DEF ListGoods
    <2>3. ListTypeOK'
        BY <2>1, ListedAreGoods DEF ListTypeOK
    <2>4. Rows' = Listed(goods, wants) /\ Before' = 0
        BY <2>1, <2>2, CatalogAssumption DEF Rows, Before, CatalogAssumption
    <2>5. \A g \in Rows' : Position(g, Rows') \in Nat \ {0}
        BY <2>4, ListedAreGoods, PositionsAreRanks
    <2>6. Overtaken' = {}
        BY <2>4, <2>5 DEF Overtaken, First
    <2>7. PagesAreRead'
        BY <2>1, <2>4, <2>6, FS_EmptySet DEF PagesAreRead
    <2> QED BY <2>1, <2>3, <2>7 DEF ListInv, MissesAreExplained
<1>5. CASE CountPage
    <2>1. Cardinality(Rows) \in Nat
        BY ListedAreGoods, PositionsAreRanks DEF Rows
    <2>2. /\ list.pc = "count" /\ UNCHANGED goods
          /\ list' = [list EXCEPT !.pc = "find", !.joined = 0, !.total = Cardinality(Rows)]
        BY <1>5 DEF CountPage, Rows
    <2>3. ListTypeOK'
        BY <2>1, <2>2 DEF ListInv, ListTypeOK
    <2>4. /\ list'.pc = "find" /\ list'.total = Cardinality(Rows) /\ list'.page = list.page
          /\ list'.read = list.read /\ list'.found = list.found /\ list'.stayed = list.stayed
          /\ list'.left = list.left /\ list'.joined = 0 /\ list'.wants = list.wants
        BY <2>2 DEF ListInv, ListTypeOK
    <2>5. Rows' = Rows /\ Before' = Before
        BY <2>2, <2>4 DEF Rows, Before
    <2>6. Overtaken' = Overtaken
        BY <2>4, <2>5 DEF Overtaken
    <2> QED BY <2>1, <2>2, <2>3, <2>4, <2>5, <2>6 DEF ListInv, PagesAreRead, MissesAreExplained
<1>6. CASE FindPage
    BY <1>6, FindPageKeepsListInv
<1>7. CASE ListServed
    BY <1>7 DEF ListServed, NoList, ListInv, ListTypeOK, PagesAreRead, MissesAreExplained, Wants
<1>8. CASE UNCHANGED catalogVars
    BY <1>1, <1>8 DEF catalogVars
<1> QED BY <1>2, <1>3, <1>4, <1>5, <1>6, <1>7, <1>8 DEF CatalogNext

LEMMA ListInvHolds == CatalogSpec => []ListInv
<1>1. CatalogInit => ListInv
    BY DEF CatalogInit, NoList, ListInv, ListTypeOK, PagesAreRead, MissesAreExplained, Wants
<1>2. ListInv /\ [CatalogNext]_catalogVars => ListInv'
    BY StepsKeepListInv
<1> QED BY <1>1, <1>2, PTL DEF CatalogSpec

(* Whatever requests change the table while a caller reads page after page,   *)
(* of any size, it misses no more of the rows that were in the list all the   *)
(* while than rows left it, and joined it between the last Count and its Find. *)
THEOREM ReadersMissFewGoods == CatalogSpec => []MissesAreExplained
<1>1. ListInv => MissesAreExplained
    BY DEF ListInv
<1> QED BY <1>1, ListInvHolds, PTL

(* Rows, overlapping edits and a list being read are what the handlers and    *)
(* the callers of goods-service can have made of them.                        *)
THEOREM CatalogTyped == CatalogSpec => []CatalogTypeOK
<1>1. CatalogInv /\ ListInv => CatalogTypeOK
    BY DEF CatalogInv, TablesTypeOK, ListInv, ListTypeOK, CatalogTypeOK
<1> QED BY <1>1, CatalogInvHolds, ListInvHolds, PTL
=============================================================================
