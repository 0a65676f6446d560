---------------------------- MODULE CatalogProofs ----------------------------
(***************************************************************************)
(* Proofs about Catalog, for any catalogue, any prices, carts and page     *)
(* sizes, and any number of updates and buyers.                            *)
(***************************************************************************)
EXTENDS Catalog, FunctionTheorems, FiniteSetTheorems, TLAPS

-----------------------------------------------------------------------------
(***************************************************************************)
(* Type correctness.                                                       *)
(***************************************************************************)

Updating == [pc : {"idle", "save", "end"}, product : 0..MaxProducts]
Buying == [pc : {"idle", "fetch", "persist", "placed", "cancelled", "failed"},
           prices : PriceLists]
Walking == [pc : {"idle", "list", "end"}, page : Nat, size : AskedSizes \cup {0},
            had : SUBSET Ids, seen : SUBSET Ids]

\* Writing a product's rows keeps the types, also of the price lists buyers see.
LEMMA WriteType ==
  ASSUME TypeOK, NEW p, NEW pr \in Prices, NEW q \in Quantities, Write(p, pr, q)
  PROVE  /\ price' \in PriceLists /\ quantity' \in [Ids -> Nat]
         /\ moments' \in [Buyers -> SUBSET PriceLists]
<1>1. price' \in PriceLists
  BY DEF TypeOK, Write, PriceLists
<1>2. quantity' \in [Ids -> Nat]
  BY CatalogAssumption DEF TypeOK, Write
<1>3. moments' \in [Buyers -> SUBSET PriceLists]
  <2> HIDE DEF PriceLists
  <2> QED
    BY <1>1 DEF TypeOK, Write
<1> QED
  BY <1>1, <1>2, <1>3

LEMMA PageListed ==
  ASSUME NEW limit, NEW offset PROVE Page(limit, offset) \subseteq Listed
BY DEF Page

\* Every step keeps the types.
LEMMA TypeStep ==
  ASSUME TypeOK, [Next]_vars PROVE TypeOK'
<1>0. /\ drawn \in 0..MaxProducts /\ creating \subseteq 1..drawn
      /\ price \in PriceLists /\ quantity \in [Ids -> Nat]
      /\ upd \in [Updates -> Updating] /\ buy \in [Buyers -> Buying]
      /\ moments \in [Buyers -> SUBSET PriceLists] /\ walk \in Walking
  BY DEF TypeOK, Updating, Buying, Walking
<1>1. CASE InsertProduct
  <2>1. drawn' \in 0..MaxProducts /\ creating' \subseteq 1..drawn'
    BY <1>0, <1>1, CatalogAssumption DEF InsertProduct
  <2> QED
    BY <1>1, <2>1 DEF InsertProduct, TypeOK
<1>2. ASSUME NEW p \in Ids, NEW pr \in Prices, NEW q \in Quantities, CreateProduct(p, pr, q)
      PROVE  TypeOK'
  BY <1>2, WriteType DEF CreateProduct, TypeOK
<1>3. ASSUME NEW p \in Ids, CreateProductFails(p) PROVE TypeOK'
  BY <1>3 DEF CreateProductFails, TypeOK
<1>4. ASSUME NEW u \in Updates, NEW p \in Ids, GetProduct(u, p) PROVE TypeOK'
  <2>1. upd' \in [Updates -> Updating]
    BY <1>0, <1>4 DEF GetProduct, Updating, Ids
  <2> QED
    BY <1>4, <2>1 DEF GetProduct, Updating, TypeOK
<1>5. ASSUME NEW u \in Updates, NEW pr \in Prices, NEW q \in Quantities, UpdateProduct(u, pr, q)
      PROVE  TypeOK'
  <2>1. upd' \in [Updates -> Updating]
    BY <1>0, <1>5 DEF UpdateProduct, Updating
  <2>2. /\ price' \in PriceLists /\ quantity' \in [Ids -> Nat]
        /\ moments' \in [Buyers -> SUBSET PriceLists]
    BY <1>5, WriteType DEF UpdateProduct
  <2> QED
    BY <1>5, <2>1, <2>2 DEF UpdateProduct, Updating, TypeOK
<1>6. ASSUME NEW u \in Updates, UpdateProductFails(u) PROVE TypeOK'
  <2>1. upd' \in [Updates -> Updating]
    BY <1>0, <1>6 DEF UpdateProductFails, Updating
  <2> QED
    BY <1>6, <2>1 DEF UpdateProductFails, Updating, TypeOK
<1>7. ASSUME NEW b \in Buyers, Ask(b) PROVE TypeOK'
  <2>1. buy' \in [Buyers -> Buying]
    BY <1>0, <1>7 DEF Ask, Buying
  <2>2. moments' \in [Buyers -> SUBSET PriceLists]
    <3> HIDE DEF PriceLists
    <3> QED
      BY <1>0, <1>7 DEF Ask
  <2> QED
    BY <1>7, <2>1, <2>2 DEF Ask, Buying, TypeOK
<1>8. ASSUME NEW b \in Buyers, FetchProducts(b) PROVE TypeOK'
  <2>1. buy' \in [Buyers -> Buying]
    BY <1>0, <1>8 DEF FetchProducts, Buying
  <2> QED
    BY <1>8, <2>1 DEF FetchProducts, Buying, TypeOK
<1>9. ASSUME NEW b \in Buyers, Place(b) PROVE TypeOK'
  <2>1. buy' \in [Buyers -> Buying]
    BY <1>0, <1>9 DEF Place, Buying
  <2>2. quantity' \in [Ids -> Nat]
    BY <1>0, <1>9 DEF Place, Take
  <2> QED
    BY <1>9, <2>1, <2>2 DEF Place, Buying, TypeOK
<1>10. ASSUME NEW b \in Buyers, PlaceFails(b) PROVE TypeOK'
  <2>1. buy' \in [Buyers -> Buying]
    BY <1>0, <1>10 DEF PlaceFails, Buying
  <2> QED
    BY <1>10, <2>1 DEF PlaceFails, Buying, TypeOK
<1>11. ASSUME NEW b \in Buyers, Cancel(b) PROVE TypeOK'
  <2>1. buy' \in [Buyers -> Buying]
    BY <1>0, <1>11 DEF Cancel, Buying
  <2>2. quantity' \in [Ids -> Nat]
    BY <1>0, <1>11 DEF Cancel, Take
  <2> QED
    BY <1>11, <2>1, <2>2 DEF Cancel, Buying, TypeOK
<1>12. ASSUME NEW asked \in AskedSizes, StartWalk(asked) PROVE TypeOK'
  <2>1. walk' \in Walking
    BY <1>0, <1>12 DEF StartWalk, Walking, Listed
  <2> QED
    BY <1>12, <2>1 DEF StartWalk, Walking, TypeOK
<1>13. CASE ListNextPage
  <2>1. walk' \in Walking
    <3>1. ListProducts(walk.page, walk.size) \subseteq Ids
      BY PageListed DEF ListProducts, Listed
    <3>2. walk.page + 1 \in Nat
      BY <1>0 DEF Walking
    <3> QED
      BY <1>0, <1>13, <3>1, <3>2 DEF ListNextPage, Walking
  <2> QED
    BY <1>13, <2>1 DEF ListNextPage, Walking, TypeOK
<1>14. CASE UNCHANGED vars
  BY <1>14 DEF vars, TypeOK
<1> QED
  BY <1>1, <1>2, <1>3, <1>4, <1>5, <1>6, <1>7, <1>8, <1>9, <1>10, <1>11, <1>12, <1>13,
     <1>14 DEF Next

\* The catalogue's variables keep their types: in particular no quantity of the
\* inventory is ever negative, although orders, restocks and updates of one
\* product interleave.
THEOREM TypeCorrect == Spec => []TypeOK
<1>1. Init => TypeOK
  BY CatalogAssumption DEF Init, TypeOK, PriceLists
<1>2. TypeOK /\ [Next]_vars => TypeOK'
  BY TypeStep
<1> QED
  BY <1>1, <1>2, PTL DEF Spec

-----------------------------------------------------------------------------
(***************************************************************************)
(* Prices.  The list a buyer at work would read is one of its moments, and *)
(* the list it has read is one of them for good.                           *)
(***************************************************************************)

PriceInv ==
  \A b \in Buyers :
    /\ buy[b].pc \in {"fetch", "persist"} => price \in moments[b]
    /\ buy[b].pc \in {"persist", "placed", "cancelled"} =>
         buy[b].prices \in moments[b] /\ \A p \in Cart[b] : buy[b].prices[p] # 0

\* What is written is seen by every buyer at work, and no moment is forgotten.
LEMMA WriteKeepsPrices ==
  ASSUME TypeOK, PriceInv, NEW p, NEW pr, NEW q, Write(p, pr, q), UNCHANGED buy
  PROVE  PriceInv'
BY DEF TypeOK, PriceInv, Write

LEMMA PriceStep ==
  ASSUME TypeOK, PriceInv, [Next]_vars PROVE PriceInv'
<1>0. buy \in [Buyers -> Buying] /\ moments \in [Buyers -> SUBSET PriceLists]
  BY DEF TypeOK, Buying
<1>1. ASSUME NEW b \in Buyers, Ask(b) PROVE PriceInv'
  BY <1>0, <1>1 DEF PriceInv, Ask, Buying
<1>2. ASSUME NEW b \in Buyers, FetchProducts(b) PROVE PriceInv'
  <2>1. Cart[b] \subseteq Listed => \A p \in Cart[b] : price[p] # 0
    BY DEF Listed
  <2> QED
    BY <1>0, <1>2, <2>1 DEF PriceInv, FetchProducts
<1>3. ASSUME NEW b \in Buyers, Place(b) PROVE PriceInv'
  BY <1>0, <1>3 DEF PriceInv, Place, Buying
<1>4. ASSUME NEW b \in Buyers, PlaceFails(b) PROVE PriceInv'
  BY <1>0, <1>4 DEF PriceInv, PlaceFails, Buying
<1>5. ASSUME NEW b \in Buyers, Cancel(b) PROVE PriceInv'
  BY <1>0, <1>5 DEF PriceInv, Cancel, Buying
<1>6. ASSUME NEW p \in Ids, NEW pr \in Prices, NEW q \in Quantities, CreateProduct(p, pr, q)
      PROVE  PriceInv'
  BY <1>6, WriteKeepsPrices DEF CreateProduct
<1>7. ASSUME NEW u \in Updates, NEW pr \in Prices, NEW q \in Quantities, UpdateProduct(u, pr, q)
      PROVE  PriceInv'
  BY <1>7, WriteKeepsPrices DEF UpdateProduct
<1>8. ASSUME UNCHANGED <<price, buy, moments>> PROVE PriceInv'
  BY <1>8 DEF PriceInv
<1> QED
  BY <1>1, <1>2, <1>3, <1>4, <1>5, <1>6, <1>7, <1>8
  DEF Next, InsertProduct, CreateProductFails, GetProduct, UpdateProductFails, StartWalk,
      ListNextPage, vars

\* No order mixes an old price with a new one: the prices on its lines were all
\* listed at one moment after its request came in.
THEOREM OrdersArePricedTogether == Spec => []PricedTogether
<1>1. Init => PriceInv
  BY DEF Init, PriceInv
<1>2. TypeOK /\ PriceInv /\ [Next]_vars => PriceInv'
  BY PriceStep
<1>3. PriceInv => PricedTogether
  BY DEF PriceInv, PricedTogether
<1> QED
  BY <1>1, <1>2, <1>3, TypeCorrect, PTL DEF Spec

-----------------------------------------------------------------------------
(***************************************************************************)
(* Pages.  The place of a product in the listing is the number of listed   *)
(* products with smaller ids; a page holds the products of an interval of  *)
(* places.                                                                 *)
(***************************************************************************)

Rank(S, p) == Cardinality({q \in S : q < p})

Offset(page, asked) == (page - 1) * PageSize(asked)

LEMMA PageSizeType ==
  ASSUME NEW asked \in Int
  PROVE  PageSize(asked) \in Nat /\ PageSize(asked) >= 1
BY CatalogAssumption DEF PageSize

LEMMA OffsetType ==
  ASSUME NEW page \in Nat, page >= 1, NEW asked \in Int
  PROVE  /\ Offset(page, asked) \in Nat
         /\ Offset(page + 1, asked) = Offset(page, asked) + PageSize(asked)
<1> DEFINE s == PageSize(asked)
<1>1. s \in Nat
  BY PageSizeType
<1> HIDE DEF s
<1>2. page - 1 \in Nat /\ (page - 1) * s \in Nat
  BY <1>1
<1>3. ((page + 1) - 1) * s = (page - 1) * s + s
  BY <1>1
<1> QED
  BY <1>2, <1>3 DEF Offset, s

\* The offset of a page does not wrap around as long as it fits the int.
LEMMA ListProductsIs ==
  ASSUME NEW page \in Nat, page >= 1, NEW asked \in Int, Offset(page, asked) < IntLimit
  PROVE  ListProducts(page, asked) =
           {p \in Listed : Rank(Listed, p) \in
              Offset(page, asked)..(Offset(page, asked) + PageSize(asked) - 1)}
<1> DEFINE s == PageSize(asked)
           off == Offset(page, asked)
<1>1. off \in Nat /\ s \in Nat
  BY OffsetType, PageSizeType
<1>2. Times(page - 1, s) = off
  <2>1. (page - 1) * s = off
    BY DEF Offset
  <2> HIDE DEF off, s
  <2>2. off % (2 * IntLimit) = off
    BY <1>1, CatalogAssumption DEF off
  <2> QED
    BY <1>1, <2>1, <2>2 DEF Times, off
<1>3. ListProducts(page, asked) = Page(s, off)
  BY <1>2 DEF ListProducts
<1> HIDE DEF off, s
<1>4. (IF off > 0 THEN off ELSE 0) = off
  BY <1>1
<1> QED
  BY <1>3, <1>4 DEF Page, Rank, off, s

\* Two pages of one size have no product in common, for every page number an int
\* can hold, as long as the offset fits the int too.
THEOREM NoProductOnTwoPages == Spec => []PagesDoNotOverlap
<1>1. ASSUME NEW asked \in AskedSizes, NEW i \in 1..(IntLimit - 1), NEW j \in 1..(IntLimit - 1),
             i < j, (j - 1) * PageSize(asked) < IntLimit
      PROVE  ListProducts(i, asked) \cap ListProducts(j, asked) = {}
  <2> DEFINE s == PageSize(asked)
  <2>1. asked \in Int /\ i \in Nat /\ i >= 1 /\ j \in Nat /\ j >= 1
    BY CatalogAssumption
  <2>2. s \in Nat /\ s >= 1
    BY <2>1, PageSizeType
  <2>3. Offset(i, asked) + s <= Offset(j, asked)
    <3> HIDE DEF s
    <3>1. PICK d \in Nat : j = i + 1 + d
      BY <1>1, <2>1
    <3>2. (j - 1) * s = (i - 1) * s + s + d * s
      BY <2>1, <2>2, <3>1
    <3>3. (i - 1) * s \in Nat /\ d * s \in Nat
      BY <2>1, <2>2
    <3> QED
      BY <2>2, <3>2, <3>3 DEF Offset, s
  <2>4. Offset(i, asked) \in Nat /\ Offset(j, asked) \in Nat /\ Offset(j, asked) < IntLimit
    BY <1>1, <2>1, OffsetType DEF Offset
  <2>5. Offset(i, asked) < IntLimit
    BY <2>2, <2>3, <2>4, CatalogAssumption
  <2>6. ASSUME NEW n, n \in Offset(i, asked)..(Offset(i, asked) + s - 1),
               n \in Offset(j, asked)..(Offset(j, asked) + s - 1)
        PROVE  FALSE
    BY <2>2, <2>3, <2>4, <2>6
  <2> HIDE DEF s
  <2> QED
    BY <2>1, <2>4, <2>5, <2>6, ListProductsIs DEF s
<1>2. PagesDoNotOverlap
  BY <1>1 DEF PagesDoNotOverlap
<1> QED
  BY <1>2, PTL

-----------------------------------------------------------------------------
(***************************************************************************)
(* The walk.  Places of products in the listing are 0, 1, 2 ... without a  *)
(* gap, and only move up, because products only appear.                    *)
(***************************************************************************)

LEMMA CountIds ==
  ASSUME NEW S, S \subseteq Ids, NEW T, T \subseteq S
  PROVE  /\ IsFiniteSet(T) /\ Cardinality(T) \in Nat
         /\ IsFiniteSet(S) /\ Cardinality(S) \in Nat
         /\ Cardinality(T) <= Cardinality(S) /\ Cardinality(S) <= MaxProducts
         /\ T # S => Cardinality(T) < Cardinality(S)
<1>1. IsFiniteSet(Ids) /\ Cardinality(Ids) = MaxProducts
  BY FS_Interval, CatalogAssumption DEF Ids
<1>2. IsFiniteSet(S) /\ Cardinality(S) <= MaxProducts
  BY <1>1, FS_Subset
<1>3. /\ IsFiniteSet(T) /\ Cardinality(T) <= Cardinality(S)
      /\ Cardinality(S) = Cardinality(T) => S = T
  BY <1>2, FS_Subset
<1>4. Cardinality(S) \in Nat /\ Cardinality(T) \in Nat
  BY <1>2, <1>3, FS_CardinalityType
<1> QED
  BY <1>2, <1>3, <1>4

LEMMA RankGrows ==
  ASSUME NEW S, S \subseteq Ids, NEW p \in S, NEW q \in S
  PROVE  /\ Rank(S, p) \in Nat /\ Rank(S, p) < Cardinality(S)
         /\ p < q => Rank(S, p) < Rank(S, q)
<1> DEFINE B(k) == {r \in S : r < k}
<1>0. p \in Int /\ q \in Int /\ \A r \in S : r \in Int
  BY CatalogAssumption DEF Ids
<1>1. B(p) \subseteq S /\ p \notin B(p) /\ B(q) \subseteq S
  BY <1>0
<1>2. Cardinality(B(p)) \in Nat /\ Cardinality(B(p)) < Cardinality(S)
  BY <1>1, CountIds
<1>3. ASSUME p < q PROVE Cardinality(B(p)) < Cardinality(B(q))
  <2>1. B(p) \subseteq B(q) /\ p \in B(q)
    <3>1. \A r \in S : r < p => r < q
      BY <1>0, <1>3
    <3> QED
      BY <1>3, <3>1
  <2>2. B(q) \subseteq Ids
    BY <1>1
  <2> HIDE DEF B
  <2> QED
    BY <1>1, <2>1, <2>2, CountIds
<1> QED
  BY <1>2, <1>3 DEF Rank

\* No two products have one place, so that every place up to the end is taken.
LEMMA RankTaken ==
  ASSUME NEW S, S \subseteq Ids
  PROVE  /\ \A p, q \in S : Rank(S, p) = Rank(S, q) => p = q
         /\ \A k \in 0..(Cardinality(S) - 1) : \E p \in S : Rank(S, p) = k
<1> DEFINE R == 0..(Cardinality(S) - 1)
<1>1. IsFiniteSet(S) /\ Cardinality(S) \in Nat
  BY CountIds
<1>2. IsFiniteSet(R) /\ Cardinality(R) = Cardinality(S)
  <2>1. Cardinality(S) - 1 \in Int /\ 0 \in Int
    BY <1>1
  <2>2. /\ IsFiniteSet(R)
        /\ Cardinality(R) = IF 0 > Cardinality(S) - 1 THEN 0 ELSE (Cardinality(S) - 1) - 0 + 1
    BY <2>1, FS_Interval
  <2> HIDE DEF R
  <2> QED
    BY <1>1, <2>2
<1>3. \A p, q \in S : Rank(S, p) = Rank(S, q) => p = q
  <2> SUFFICES ASSUME NEW p \in S, NEW q \in S, p # q PROVE Rank(S, p) # Rank(S, q)
    OBVIOUS
  <2>1. p < q \/ q < p
    BY CatalogAssumption DEF Ids
  <2>2. Rank(S, p) \in Nat /\ Rank(S, q) \in Nat
    BY RankGrows
  <2>3. Rank(S, p) < Rank(S, q) \/ Rank(S, q) < Rank(S, p)
    BY <2>1, RankGrows
  <2> QED
    BY <2>2, <2>3
<1>4. PICK f : f = [p \in S |-> Rank(S, p)]
  OBVIOUS
<1>5. f \in [S -> R]
  <2>1. ASSUME NEW p \in S PROVE Rank(S, p) \in R
    <3>1. Rank(S, p) \in Nat /\ Rank(S, p) < Cardinality(S)
      BY RankGrows
    <3> QED
      BY <1>1, <3>1
  <2> QED
    BY <1>4, <2>1
<1> HIDE DEF R
<1>6. f \in Injection(S, R)
  BY <1>3, <1>4, <1>5 DEF Injection, IsInjective
<1>7. f \in Surjection(S, R)
  BY <1>2, <1>6, FS_Injection
<1>8. \A k \in R : \E p \in S : f[p] = k
  BY <1>7 DEF Surjection
<1> QED
  BY <1>3, <1>4, <1>8 DEF R

\* A page is full unless the listing ends on it.
LEMMA PageFull ==
  ASSUME NEW S, S \subseteq Ids, NEW off \in Nat, NEW top \in Nat,
         off <= top, top <= Cardinality(S)
  PROVE  Cardinality({p \in S : Rank(S, p) \in off..(top - 1)}) = top - off
<1> DEFINE T == {p \in S : Rank(S, p) \in off..(top - 1)}
           R == off..(top - 1)
<1>1. PICK f : f = [p \in T |-> Rank(S, p)]
  OBVIOUS
<1>2. f \in [T -> R]
  BY <1>1
<1>3. \A p, q \in T : f[p] = f[q] => p = q
  BY <1>1, RankTaken
<1>4. \A k \in R : \E p \in T : f[p] = k
  <2> SUFFICES ASSUME NEW k \in R PROVE \E p \in T : f[p] = k
    OBVIOUS
  <2>1. Cardinality(S) \in Nat
    BY CountIds
  <2>2. k \in 0..(Cardinality(S) - 1)
    BY <2>1
  <2>3. PICK p \in S : Rank(S, p) = k
    BY <2>2, RankTaken
  <2>4. p \in T
    BY <2>3
  <2> QED
    BY <1>1, <2>3, <2>4
<1>5. /\ IsFiniteSet(R) /\ Cardinality(R) = IF off > top - 1 THEN 0 ELSE (top - 1) - off + 1
  BY FS_Interval
<1> HIDE DEF R, T
<1>6. f \in Injection(T, R) /\ f \in Surjection(T, R)
  BY <1>2, <1>3, <1>4 DEF Injection, IsInjective, Surjection
<1>7. Cardinality(T) = Cardinality(R)
  BY <1>5, <1>6, FS_Injection
<1> QED
  BY <1>5, <1>7 DEF T

\* What the walk has shown so far: every product that was listed at the start and
\* has not been shown has its place on a page still to come.
WalkInv ==
  /\ walk.page >= 1
  /\ walk.pc = "idle" => walk.page = 1
  /\ walk.pc = "list" =>
       /\ walk.had \subseteq Listed
       /\ Offset(walk.page, walk.size) <= Cardinality(Listed)
       /\ \A p \in walk.had \ walk.seen :
            Rank(Listed, p) >= Offset(walk.page, walk.size)
  /\ walk.pc = "end" => walk.had \subseteq walk.seen

\* Products that appear leave what the walk has still to show ahead of it.
LEMMA ListedGrows ==
  ASSUME TypeOK, WalkInv, UNCHANGED walk, Listed \subseteq Listed'
  PROVE  WalkInv'
<1> DEFINE off == Offset(walk.page, walk.size)
<1>0. walk.page \in Nat /\ walk.size \in Int /\ walk.page >= 1
  <2>1. walk \in Walking
    BY DEF TypeOK, Walking
  <2>2. walk.page \in Nat /\ walk.size \in AskedSizes \cup {0}
    BY <2>1 DEF Walking
  <2>3. walk.page >= 1
    BY DEF WalkInv
  <2>4. AskedSizes \cup {0} \subseteq Int
    BY CatalogAssumption
  <2> QED
    BY <2>2, <2>3, <2>4
<1>1. off \in Nat
  BY <1>0, OffsetType
<1>2. PICK S : S = Listed
  OBVIOUS
<1>3. PICK T : T = Listed'
  OBVIOUS
<1>4. S \subseteq T /\ T \subseteq Ids /\ S \subseteq Ids
  BY <1>2, <1>3 DEF Listed, Ids
<1>5. /\ Cardinality(S) <= Cardinality(T)
      /\ Cardinality(S) \in Nat /\ Cardinality(T) \in Nat
  BY <1>4, CountIds
<1>6. ASSUME NEW p \in S PROVE Rank(S, p) \in Nat /\ Rank(T, p) \in Nat /\ Rank(S, p) <= Rank(T, p)
  <2>1. {q \in S : q < p} \subseteq {q \in T : q < p} /\ {q \in T : q < p} \subseteq Ids
    BY <1>4
  <2> QED
    BY <2>1, CountIds DEF Rank
<1>7. off' = off
  BY DEF Offset, PageSize
<1>8. ASSUME walk.pc = "list"
      PROVE  /\ walk.had \subseteq T /\ off <= Cardinality(T)
             /\ \A p \in walk.had \ walk.seen : Rank(T, p) >= off
  <2>1. /\ walk.had \subseteq S /\ off <= Cardinality(S)
        /\ \A p \in walk.had \ walk.seen : Rank(S, p) >= off
    BY <1>2, <1>8 DEF WalkInv
  <2>2. off <= Cardinality(T)
    BY <1>1, <1>5, <2>1
  <2>3. ASSUME NEW p \in walk.had \ walk.seen PROVE Rank(T, p) >= off
    <3>1. Rank(S, p) >= off /\ p \in S
      BY <2>1
    <3>2. Rank(S, p) \in Nat /\ Rank(T, p) \in Nat /\ Rank(S, p) <= Rank(T, p)
      BY <1>6, <3>1
    <3> HIDE DEF off
    <3> QED
      BY <1>1, <3>1, <3>2
  <2> QED
    BY <1>4, <2>1, <2>2, <2>3
<1> QED
  BY <1>3, <1>7, <1>8 DEF WalkInv, Rank

\* The next page shows what has its place on it; when it is not full, that is all
\* there is.
LEMMA PageStep ==
  ASSUME TypeOK, WalkInv, ListNextPage
  PROVE  WalkInv'
<1> DEFINE off == Offset(walk.page, walk.size)
           s == PageSize(walk.size)
           next == Offset(walk.page + 1, walk.size)
<1>0. /\ walk.page \in Nat /\ walk.size \in Int /\ walk.page >= 1 /\ walk \in Walking
      /\ walk.pc = "list" /\ walk.had \subseteq Listed /\ off <= Cardinality(Listed)
      /\ \A p \in walk.had \ walk.seen : Rank(Listed, p) >= off
  BY CatalogAssumption DEF TypeOK, WalkInv, ListNextPage, Walking
<1>1. off \in Nat /\ next = off + s /\ s \in Nat /\ s >= 1
  BY <1>0, OffsetType, PageSizeType
<1>2. PICK n : n = Cardinality(Listed)
  OBVIOUS
<1>3. PICK items : items = ListProducts(walk.page, walk.size)
  OBVIOUS
<1>4. Listed \subseteq Ids
  BY DEF Listed
<1>5. n \in Nat /\ n <= MaxProducts /\ off <= n
  BY <1>0, <1>2, <1>4, CountIds
<1>6. items = {p \in Listed : Rank(Listed, p) \in off..(off + s - 1)}
  <2>1. off < IntLimit
    BY <1>1, <1>5, CatalogAssumption
  <2> QED
    BY <1>0, <1>3, <2>1, ListProductsIs
<1>7. \A p \in Listed : Rank(Listed, p) \in Nat /\ Rank(Listed, p) < n
  BY <1>2, <1>4, RankGrows
<1>8. /\ walk'.pc = (IF Cardinality(items) < s THEN "end" ELSE "list")
      /\ walk'.page = walk.page + 1 /\ walk'.size = walk.size
      /\ walk'.had = walk.had /\ walk'.seen = walk.seen \cup items
      /\ Listed' = Listed
  BY <1>0, <1>3 DEF ListNextPage, Walking, Listed
<1>9. Offset(walk.page, walk.size)' = next
  BY <1>8 DEF Offset, PageSize
<1> HIDE DEF off, s, next
<1>10. CASE next <= n
  <2>1. Cardinality(items) = s
    <3>1. Cardinality({p \in Listed : Rank(Listed, p) \in off..(next - 1)}) = next - off
      BY <1>1, <1>2, <1>4, <1>10, PageFull
    <3> QED
      BY <1>1, <1>6, <3>1
  <2>2. walk'.pc = "list"
    BY <1>1, <1>8, <2>1
  <2>3. ASSUME NEW p \in walk.had, p \notin walk.seen, p \notin items
        PROVE  Rank(Listed, p) >= next
    <3>1. p \in Listed /\ Rank(Listed, p) >= off /\ Rank(Listed, p) \in Nat
      BY <1>0, <1>7, <2>3 DEF off
    <3>2. ~(Rank(Listed, p) \in off..(off + s - 1))
      BY <1>6, <2>3, <3>1
    <3> QED
      BY <1>1, <3>1, <3>2
  <2>4. \A p \in walk'.had \ walk'.seen : Rank(Listed', p) >= next
    BY <1>8, <2>3
  <2>5. walk'.page >= 1 /\ next <= Cardinality(Listed') /\ walk'.had \subseteq Listed'
    BY <1>0, <1>2, <1>8, <1>10
  <2> QED
    BY <1>9, <2>2, <2>4, <2>5 DEF WalkInv, Rank
<1>11. CASE n < next
  <2>1. items = {p \in Listed : Rank(Listed, p) \in off..(n - 1)}
    <3>1. ASSUME NEW p \in Listed
          PROVE  Rank(Listed, p) \in off..(off + s - 1) <=> Rank(Listed, p) \in off..(n - 1)
      <4>1. Rank(Listed, p) \in Nat /\ Rank(Listed, p) < n
        BY <1>7
      <4> QED
        BY <1>1, <1>5, <1>11, <4>1
    <3> QED
      BY <1>6, <3>1
  <2>2. Cardinality(items) = n - off
    BY <1>1, <1>2, <1>4, <1>5, <2>1, PageFull
  <2>3. walk'.pc = "end"
    BY <1>1, <1>5, <1>8, <1>11, <2>2
  <2>4. ASSUME NEW p \in walk.had, p \notin walk.seen PROVE p \in items
    <3>1. p \in Listed /\ Rank(Listed, p) >= off /\ Rank(Listed, p) \in Nat /\ Rank(Listed, p) < n
      BY <1>0, <1>7, <2>4 DEF off
    <3>2. Rank(Listed, p) \in off..(n - 1)
      BY <1>1, <1>5, <3>1
    <3> QED
      BY <2>1, <3>1, <3>2
  <2>5. walk'.had \subseteq walk'.seen /\ walk'.page >= 1
    BY <1>0, <1>8, <2>4
  <2> QED
    BY <2>3, <2>5 DEF WalkInv
<1> QED
  BY <1>1, <1>5, <1>10, <1>11

LEMMA WalkStep ==
  ASSUME TypeOK, WalkInv, [Next]_vars PROVE WalkInv'
<1>1. ASSUME NEW asked \in AskedSizes, StartWalk(asked) PROVE WalkInv'
  <2>0. walk.pc = "idle" /\ walk.page = 1 /\ walk \in Walking
    BY <1>1 DEF StartWalk, WalkInv, TypeOK, Walking
  <2>1. /\ walk'.pc = "list" /\ walk'.page = 1 /\ walk'.size = asked
        /\ walk'.had = Listed /\ Listed' = Listed
    BY <1>1, <2>0 DEF StartWalk, Walking, Listed
  <2>2. Offset(walk.page, walk.size)' = 0
    <3>1. PageSize(asked) \in Nat
      BY PageSizeType, CatalogAssumption
    <3>2. Offset(walk.page, walk.size)' = (1 - 1) * PageSize(asked)
      BY <2>1 DEF Offset, PageSize
    <3> QED
      BY <3>1, <3>2
  <2>3. Listed \subseteq Ids
    BY DEF Listed
  <2>4. Cardinality(Listed) \in Nat /\ \A p \in Listed : Rank(Listed, p) \in Nat
    BY <2>3, CountIds, RankGrows
  <2>5. 0 <= Cardinality(Listed') /\ \A p \in walk'.had : Rank(Listed', p) >= 0
    BY <2>1, <2>4
  <2> QED
    BY <2>1, <2>2, <2>5 DEF WalkInv, Rank
<1>2. CASE ListNextPage
  BY <1>2, PageStep
<1>3. ASSUME NEW p, NEW pr \in Prices, NEW q, Write(p, pr, q) PROVE Listed \subseteq Listed'
  <2>1. pr # 0
    BY CatalogAssumption
  <2> QED
    BY <1>3, <2>1 DEF Write, Listed, TypeOK, PriceLists
<1>4. ASSUME NEW p \in Ids, NEW pr \in Prices, NEW q \in Quantities, CreateProduct(p, pr, q)
      PROVE  WalkInv'
  BY <1>3, <1>4, ListedGrows DEF CreateProduct
<1>5. ASSUME NEW u \in Updates, NEW pr \in Prices, NEW q \in Quantities, UpdateProduct(u, pr, q)
      PROVE  WalkInv'
  BY <1>3, <1>5, ListedGrows DEF UpdateProduct
<1>6. ASSUME UNCHANGED <<price, walk>> PROVE WalkInv'
  BY <1>6, ListedGrows DEF Listed
<1> QED
  BY <1>1, <1>2, <1>4, <1>5, <1>6
  DEF Next, InsertProduct, CreateProductFails, GetProduct, UpdateProductFails, Ask,
      FetchProducts, Place, PlaceFails, Cancel, vars

\* A client that asks for page after page until one is not full has been shown
\* every product that was listed when it began, whatever appears meanwhile: places
\* only move up, so nothing slips onto a page that was shown already.
THEOREM WalkShowsEverything == Spec => []WalkSeesAll
<1>1. Init => WalkInv
  BY DEF Init, WalkInv
<1>2. TypeOK /\ WalkInv /\ [Next]_vars => WalkInv'
  BY WalkStep
<1>3. WalkInv => WalkSeesAll
  BY DEF WalkInv, WalkSeesAll
<1> QED
  BY <1>1, <1>2, <1>3, TypeCorrect, PTL DEF Spec

=============================================================================
