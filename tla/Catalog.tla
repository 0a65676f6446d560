------------------------------- MODULE Catalog -------------------------------
(***************************************************************************)
(* The product catalogue while it is being changed: products are created   *)
(* and updated, customers order at the prices they were shown, and a       *)
(* client walks through the pages of GET /products.                        *)
(*                                                                         *)
(* A product's id is drawn from a sequence when its row is inserted, and   *)
(* the row is seen by others when its transaction commits: ids may appear  *)
(* out of order and with gaps.  Products are never deleted, and each has   *)
(* its row of inventory from the start (CreateProduct inserts both).  Of   *)
(* the fields UpdateProduct writes, price stands for all: every one is     *)
(* overwritten with what the request says.                                 *)
(***************************************************************************)
EXTENDS Integers, FiniteSets

CONSTANTS
  MaxProducts,       \* bound: how many ids are ever drawn
  Prices,
  Quantities,        \* inventory.quantity in a request
  Updates,           \* requests to update a product
  Buyers,            \* requests to order
  Cart,              \* the products a buyer orders, one of each
  DefaultPageSize,
  MaxPageSize,
  AskedSizes,        \* page_size as clients send it
  IntLimit           \* an int is one of -IntLimit..(IntLimit - 1)

ASSUME CatalogAssumption ==
  /\ MaxProducts \in Nat
  /\ Prices \subseteq Nat \ {0}
  /\ Quantities \subseteq Nat
  /\ Cart \in [Buyers -> SUBSET (1..MaxProducts)]
  /\ MaxPageSize \in Nat /\ DefaultPageSize \in 1..MaxPageSize
  /\ AskedSizes \subseteq Int
  /\ IntLimit \in Nat \ {0}
  /\ MaxProducts < IntLimit   \* ids are ints

VARIABLES
  drawn,      \* the last id the sequence gave out
  creating,   \* ids whose transaction is open
  price,      \* products.price, 0 while there is no row to be seen
  quantity,   \* inventory.quantity
  upd,        \* per update: its step, and the product it is about
  buy,        \* per buyer: the step of CreateOrder, and the prices it read
  moments,    \* history, per buyer: the price lists since its request came in
  walk        \* the client that walks the pages

vars == <<drawn, creating, price, quantity, upd, buy, moments, walk>>

Ids == 1..MaxProducts
Listed == {p \in Ids : price[p] # 0}
PriceLists == [Ids -> Prices \cup {0}]

TypeOK ==
  /\ drawn \in 0..MaxProducts
  /\ creating \subseteq 1..drawn
  /\ price \in PriceLists
  /\ quantity \in [Ids -> Nat]
  /\ upd \in [Updates -> [pc : {"idle", "save", "end"}, product : 0..MaxProducts]]
  /\ buy \in [Buyers -> [pc : {"idle", "fetch", "persist", "placed", "cancelled", "failed"},
                         prices : PriceLists]]
  /\ moments \in [Buyers -> SUBSET PriceLists]
  /\ walk \in [pc : {"idle", "list", "end"}, page : Nat, size : AskedSizes \cup {0},
               had : SUBSET Ids, seen : SUBSET Ids]

Init ==
  /\ drawn = 0 /\ creating = {}
  /\ price = [p \in Ids |-> 0] /\ quantity = [p \in Ids |-> 0]
  /\ upd = [u \in Updates |-> [pc |-> "idle", product |-> 0]]
  /\ buy = [b \in Buyers |-> [pc |-> "idle", prices |-> price]]
  /\ moments = [b \in Buyers |-> {}]
  /\ walk = [pc |-> "idle", page |-> 1, size |-> 0, had |-> {}, seen |-> {}]

-----------------------------------------------------------------------------
(***************************************************************************)
(* Creating and updating products.                                         *)
(***************************************************************************)

\* Both rows of p get what the request says; buyers at work see the new list.
Write(p, pr, q) ==
  /\ price' = [price EXCEPT ![p] = pr]
  /\ quantity' = [quantity EXCEPT ![p] = q]
  /\ moments' = [b \in Buyers |-> IF buy[b].pc \in {"fetch", "persist"}
                                  THEN moments[b] \cup {price'} ELSE moments[b]]

InsertProduct ==
  /\ drawn < MaxProducts
  /\ drawn' = drawn + 1
  /\ creating' = creating \cup {drawn'}
  /\ UNCHANGED <<price, quantity, upd, buy, moments, walk>>

CreateProduct(p, pr, q) ==
  /\ p \in creating
  /\ creating' = creating \ {p}
  /\ Write(p, pr, q)
  /\ UNCHANGED <<drawn, upd, buy, walk>>

CreateProductFails(p) ==
  /\ p \in creating
  /\ creating' = creating \ {p}
  /\ UNCHANGED <<drawn, price, quantity, upd, buy, moments, walk>>

\* UpdateProduct reads the product, and ends if there is none ...
GetProduct(u, p) ==
  /\ upd[u].pc = "idle"
  /\ upd' = [upd EXCEPT ![u] = [pc |-> IF p \in Listed THEN "save" ELSE "end",
                                product |-> p]]
  /\ UNCHANGED <<drawn, creating, price, quantity, buy, moments, walk>>

\* ... and saves both rows in one transaction.
UpdateProduct(u, pr, q) ==
  /\ upd[u].pc = "save"
  /\ upd' = [upd EXCEPT ![u].pc = "end"]
  /\ Write(upd[u].product, pr, q)
  /\ UNCHANGED <<drawn, creating, buy, walk>>

UpdateProductFails(u) ==
  /\ upd[u].pc = "save"
  /\ upd' = [upd EXCEPT ![u].pc = "end"]
  /\ UNCHANGED <<drawn, creating, price, quantity, buy, moments, walk>>

-----------------------------------------------------------------------------
(***************************************************************************)
(* Ordering at a price: CreateOrder reads the products in one query, and   *)
(* writes the prices it read into the order's lines later.                 *)
(***************************************************************************)

Ask(b) ==
  /\ buy[b].pc = "idle"
  /\ buy' = [buy EXCEPT ![b].pc = "fetch"]
  /\ moments' = [moments EXCEPT ![b] = {price}]
  /\ UNCHANGED <<drawn, creating, price, quantity, upd, walk>>

FetchProducts(b) ==
  /\ buy[b].pc = "fetch"
  /\ buy' = [buy EXCEPT ![b] = [pc |-> IF Cart[b] \subseteq Listed THEN "persist" ELSE "failed",
                                prices |-> price]]
  /\ UNCHANGED <<drawn, creating, price, quantity, upd, moments, walk>>

Take(b, n) ==
  quantity' = [p \in Ids |-> IF p \in Cart[b] THEN quantity[p] - n ELSE quantity[p]]

\* Mutants of Place: the decrements lose their guard; and the first line's price
\* is read again when it is written.
PlaceOversells(b) ==
  /\ buy[b].pc = "persist"
  /\ Take(b, 1)
  /\ buy' = [buy EXCEPT ![b].pc = "placed"]
  /\ UNCHANGED <<drawn, creating, price, upd, moments, walk>>
PlaceReprices(b) ==
  /\ buy[b].pc = "persist"
  /\ \A p \in Cart[b] : quantity[p] >= 1
  /\ Take(b, 1)
  /\ buy' = [buy EXCEPT ![b] = [pc |-> "placed", prices |-> [@.prices EXCEPT ![1] = price[1]]]]
  /\ UNCHANGED <<drawn, creating, price, upd, moments, walk>>

Place(b) ==
  /\ buy[b].pc = "persist"
  /\ \A p \in Cart[b] : quantity[p] >= 1
  /\ Take(b, 1)
  /\ buy' = [buy EXCEPT ![b].pc = "placed"]
  /\ UNCHANGED <<drawn, creating, price, upd, moments, walk>>

\* Too little stock, or an error.
PlaceFails(b) ==
  /\ buy[b].pc = "persist"
  /\ buy' = [buy EXCEPT ![b].pc = "failed"]
  /\ UNCHANGED <<drawn, creating, price, quantity, upd, moments, walk>>

\* FailCancelAndRestock, whatever has been written to the inventory meanwhile.
Cancel(b) ==
  /\ buy[b].pc = "placed"
  /\ Take(b, -1)
  /\ buy' = [buy EXCEPT ![b].pc = "cancelled"]
  /\ UNCHANGED <<drawn, creating, price, upd, moments, walk>>

-----------------------------------------------------------------------------
(***************************************************************************)
(* Listing.                                                                *)
(***************************************************************************)

PageSize(asked) ==
  LET size == IF asked < 1 THEN DefaultPageSize ELSE asked
  IN IF size > MaxPageSize THEN MaxPageSize ELSE size

\* ORDER BY id LIMIT limit OFFSET offset; gorm leaves out an offset that is not
\* positive.
Page(limit, offset) ==
  LET from == IF offset > 0 THEN offset ELSE 0
  IN {p \in Listed : Cardinality({q \in Listed : q < p}) \in from..(from + limit - 1)}

\* The product of two ints, in two's complement.
Times(m, n) ==
  LET low == (m * n) % (2 * IntLimit) IN IF low < IntLimit THEN low ELSE low - 2 * IntLimit

\* Mutants of ListProducts: pages are taken to be numbered from 0; and the offset
\* counts pages, not rows.
ListProductsFromZero(page, asked) ==
  Page(PageSize(asked), page * PageSize(asked))
ListProductsByPage(page, asked) ==
  Page(PageSize(asked), (IF page < 1 THEN 1 ELSE page) - 1)

\* The total that is counted before the query is only passed on.
ListProducts(page, asked) ==
  Page(PageSize(asked), Times((IF page < 1 THEN 1 ELSE page) - 1, PageSize(asked)))

StartWalk(asked) ==
  /\ walk.pc = "idle"
  /\ walk' = [walk EXCEPT !.pc = "list", !.size = asked, !.had = Listed]
  /\ UNCHANGED <<drawn, creating, price, quantity, upd, buy, moments>>

\* The next page; a page that is not full is the last one.
ListNextPage ==
  LET items == ListProducts(walk.page, walk.size) IN
  /\ walk.pc = "list"
  /\ walk' = [walk EXCEPT !.page = @ + 1, !.seen = @ \cup items,
                !.pc = IF Cardinality(items) < PageSize(walk.size) THEN "end" ELSE "list"]
  /\ UNCHANGED <<drawn, creating, price, quantity, upd, buy, moments>>

-----------------------------------------------------------------------------

Next ==
  \/ InsertProduct
  \/ \E p \in Ids : CreateProductFails(p)
  \/ \E p \in Ids, pr \in Prices, q \in Quantities : CreateProduct(p, pr, q)
  \/ \E u \in Updates :
       \/ \E p \in Ids : GetProduct(u, p)
       \/ \E pr \in Prices, q \in Quantities : UpdateProduct(u, pr, q)
       \/ UpdateProductFails(u)
  \/ \E b \in Buyers : Ask(b) \/ FetchProducts(b) \/ Place(b) \/ PlaceFails(b) \/ Cancel(b)
  \/ \E asked \in AskedSizes : StartWalk(asked)
  \/ ListNextPage

Spec == Init /\ [][Next]_vars

-----------------------------------------------------------------------------

\* The prices on an order's lines were all listed together, at one moment after
\* its request came in, whatever updates are saved between CreateOrder's query
\* and its transaction: no order mixes an old price with a new one.
PricedTogether ==
  \A b \in Buyers :
    buy[b].pc \in {"placed", "cancelled"} =>
      \E m \in moments[b] : \A p \in Cart[b] : m[p] = buy[b].prices[p] /\ m[p] # 0

\* A client that asks ListProducts for page after page, until one is not full,
\* is shown every product that was listed when it began, although products
\* appear meanwhile, also with smaller ids than those it has been shown.
WalkSeesAll == walk.pc = "end" => walk.had \subseteq walk.seen

\* No product is on two pages of the same size of what is listed, for every page
\* number an int can hold, as long as the offset of ListProducts fits the int
\* too.  Beyond that it wraps around, and a page past the end can show products
\* again instead of none.
PagesDoNotOverlap ==
  \A asked \in AskedSizes : \A i, j \in 1..(IntLimit - 1) :
    i < j /\ (j - 1) * PageSize(asked) < IntLimit =>
      ListProducts(i, asked) \cap ListProducts(j, asked) = {}

=============================================================================
