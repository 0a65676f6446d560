---------------------------- MODULE RowLocksProofs ----------------------------
(***************************************************************************)
(* Proofs about RowLocks for any number of orders, of finishing calls and  *)
(* of products, and any carts.                                             *)
(***************************************************************************)
EXTENDS RowLocks, FiniteSetTheorems, TLAPS

Active(t) == tx[t].pc \in {"run", "wait"}

\* No row is locked by two transactions.
Exclusive == \A t, u \in Txns, r \in Rows : r \in held[t] /\ r \in held[u] => t = u

\* A payment is decided exactly when its order is.
Agree ==
  \A o \in Orders : /\ orders[o] = "none" <=> payments[o] = "none"
                    /\ orders[o] = "pending" <=> payments[o] = "pending"

\* A CreateOrder in progress: it has locked the lines with the smaller ids, each
\* of which it found covered by the stock, and its order is not there yet.
CreateOK(t) ==
  /\ t \in Orders /\ tx[t].order = t /\ orders[t] = "none"
  /\ tx[t].cart \in Carts
  /\ held[t] \cup tx[t].left = StockRows(tx[t].cart)
  /\ \A r \in held[t], s \in tx[t].left : r[2] < s[2]
  /\ \A p \in Products : StockRow(p) \in held[t] => inventory[p] >= tx[t].cart[p]

\* A finishing transaction in progress: it locks the payment first, finds it
\* pending, and then the order's row.
FinishOK(t) ==
  LET o == tx[t].order IN
  /\ o \in Orders /\ orders[o] # "none"
  /\ tx[t].cart = IF tx[t].kind = "cancel" THEN items[o] ELSE EmptyCart
  /\ held[t] \cup tx[t].left = {PaymentRow(o), OrderRow(o)} \cup StockRows(tx[t].cart)
  /\ PaymentRow(o) \in held[t] => payments[o] = "pending"
  /\ held[t] # {} => PaymentRow(o) \in held[t]

TxOK(t) ==
  /\ ~Active(t) => held[t] = {}
  /\ tx[t].pc = "idle" /\ t \in Orders => orders[t] = "none"
  /\ Active(t) => held[t] \cap tx[t].left = {}
  /\ Active(t) /\ tx[t].kind = "create" => CreateOK(t)
  /\ Active(t) /\ tx[t].kind # "create" => FinishOK(t)
  /\ tx[t].pc = "wait" => tx[t].row \in NextRows(t)

IInv == TypeOK /\ Exclusive /\ Agree /\ \A t \in Txns : TxOK(t)

TxRecord == [pc : {"idle", "run", "wait", "end"}, kind : Kinds, order : 0..MaxOrders,
             cart : [Products -> Nat], left : SUBSET Rows, row : Rows \cup {<<>>}]

LEMMA TxTyped == ASSUME TypeOK, NEW t \in Txns PROVE tx[t] \in TxRecord
BY DEF TypeOK, TxRecord

LEMMA RowsTyped ==
  /\ \A o \in Orders : PaymentRow(o) \in Rows /\ OrderRow(o) \in Rows
  /\ \A p \in Products : StockRow(p) \in Rows
  /\ \A cart : StockRows(cart) \subseteq Rows
BY DEF Rows, StockRows

LEMMA EmptyCartTyped == EmptyCart \in [Products -> Nat]
BY DEF EmptyCart

LEMMA Initially == ASSUME Init PROVE IInv
<1>1. NotBegun \in TxRecord
  BY LocksAssumption, EmptyCartTyped DEF NotBegun, TxRecord, Kinds
<1>2. TypeOK
  BY <1>1, LocksAssumption, EmptyCartTyped DEF Init, TypeOK, TxRecord
<1>3. Exclusive /\ Agree
  BY DEF Init, Exclusive, Agree
<1>4. \A t \in Txns : TxOK(t)
  BY DEF Init, TxOK, Active, NotBegun, Txns
<1> QED
  BY <1>2, <1>3, <1>4 DEF IInv

-----------------------------------------------------------------------------
(***************************************************************************)
(* Steps that leave the tables alone.                                      *)
(***************************************************************************)

\* The others are not disturbed by what a transaction does on its own account.
LEMMA OthersKeep ==
  ASSUME IInv, NEW t \in Txns, UNCHANGED tables,
         NEW u \in Txns, tx'[u] = tx[u], held'[u] = held[u]
  PROVE  TxOK(u)'
<1>1. NextRows(u)' = NextRows(u)
  BY DEF NextRows
<1>2. CreateOK(u) => CreateOK(u)'
  BY DEF CreateOK, tables
<1>3. FinishOK(u) => FinishOK(u)'
  BY DEF FinishOK, tables
<1>4. TxOK(u)
  BY DEF IInv
<1> QED
  BY <1>1, <1>2, <1>3, <1>4 DEF TxOK, Active, tables

LEMMA BeginKeeps ==
  ASSUME IInv, NEW t \in Txns, NEW kind \in Kinds, NEW o \in Orders,
         NEW cart \in [Products -> Nat], NEW left \in SUBSET Rows,
         Begin(t, kind, o, cart, left),
         kind = "create" => t \in Orders /\ o = t /\ cart \in Carts /\ left = StockRows(cart),
         kind # "create" =>
           /\ orders[o] # "none"
           /\ cart = IF kind = "cancel" THEN items[o] ELSE EmptyCart
           /\ left = {PaymentRow(o), OrderRow(o)} \cup StockRows(cart)
  PROVE  IInv'
<1> DEFINE new == [pc |-> "run", kind |-> kind, order |-> o, cart |-> cart,
                   left |-> left, row |-> <<>>]
<1>1. new \in TxRecord
  BY DEF TxRecord, Orders
<1>2. tx \in [Txns -> TxRecord] /\ tx' = [tx EXCEPT ![t] = new]
  BY DEF Begin, IInv, TypeOK, TxRecord
<1>3. tx' \in [Txns -> TxRecord]
  BY <1>1, <1>2
<1>4. TypeOK'
  BY <1>3 DEF Begin, IInv, TypeOK, TxRecord, tables
<1>5. (Exclusive /\ Agree)'
  BY DEF Begin, IInv, Exclusive, Agree, tables
<1>6. held[t] = {} /\ held' = held /\ tx[t].pc = "idle" /\ UNCHANGED tables
  BY DEF Begin, IInv, TxOK, Active
<1>7. TxOK(t)'
  <2>1. tx'[t] = new
    BY <1>2
  <2>2. t \in Orders => orders[t] = "none"
    BY <1>6 DEF IInv, TxOK
  <2> QED
    BY <1>6, <2>1, <2>2 DEF TxOK, Active, CreateOK, FinishOK, tables
<1>8. \A u \in Txns : u # t => TxOK(u)'
  BY <1>2, <1>6, OthersKeep
<1> QED
  BY <1>4, <1>5, <1>7, <1>8 DEF IInv

\* A transaction that is over holds nothing.
LEMMA EndKeeps ==
  ASSUME IInv, NEW t \in Txns, Active(t), End(t), UNCHANGED tables
  PROVE  IInv'
<1>1. tx[t] \in TxRecord
  BY TxTyped DEF IInv
<1>2. [tx[t] EXCEPT !.pc = "end", !.row = <<>>] \in TxRecord
  BY <1>1 DEF TxRecord
<1>3. tx \in [Txns -> TxRecord] /\ tx' = [tx EXCEPT ![t] = [tx[t] EXCEPT !.pc = "end", !.row = <<>>]]
  BY DEF End, IInv, TypeOK, TxRecord
<1>4. held \in [Txns -> SUBSET Rows] /\ held' = [held EXCEPT ![t] = {}]
  BY DEF End, IInv, TypeOK
<1>5. TypeOK'
  BY <1>2, <1>3, <1>4 DEF IInv, TypeOK, TxRecord, tables
<1>6. (Exclusive /\ Agree)'
  BY <1>4 DEF IInv, Exclusive, Agree, tables
<1>7. tx'[t].pc = "end" /\ held'[t] = {}
  BY <1>1, <1>3, <1>4 DEF TxRecord
<1>8. TxOK(t)'
  BY <1>7 DEF TxOK, Active
<1>9. \A u \in Txns : u # t => TxOK(u)'
  BY <1>3, <1>4, OthersKeep
<1> QED
  BY <1>5, <1>6, <1>8, <1>9 DEF IInv

\* What the rows a statement may be about look like.
LEMMA NextRowsOf ==
  ASSUME IInv, NEW t \in Txns, Active(t), NEW r \in NextRows(t)
  PROVE  /\ r \in tx[t].left /\ r \in Rows /\ r \notin held[t]
         /\ tx[t].kind = "create" => \A s \in tx[t].left : r[2] <= s[2]
         /\ tx[t].kind # "create" => r = PaymentRow(tx[t].order) \/ PaymentRow(tx[t].order) \in held[t]
         /\ tx[t].kind # "create" => r \in {PaymentRow(tx[t].order), OrderRow(tx[t].order)} \/ OrderRow(tx[t].order) \in held[t]
<1> DEFINE o == tx[t].order
<1>1. tx[t] \in TxRecord /\ TxOK(t)
  BY TxTyped DEF IInv
<1>2. r \in tx[t].left
  BY DEF NextRows
<1>3. r \in Rows /\ r \notin held[t]
  BY <1>1, <1>2 DEF TxRecord, TxOK
<1>4. CASE tx[t].kind = "create"
  <2>1. tx[t].left \subseteq StockRows(tx[t].cart)
    BY <1>1, <1>4 DEF TxOK, CreateOK
  <2>2. PaymentRow(o) \notin tx[t].left /\ OrderRow(o) \notin tx[t].left
    BY <2>1 DEF PaymentRow, OrderRow, StockRows, StockRow
  <2> QED
    BY <1>2, <1>3, <1>4, <2>2 DEF NextRows
<1>5. CASE tx[t].kind # "create"
  <2>1. PaymentRow(o) \in held[t] \cup tx[t].left /\ OrderRow(o) \in held[t] \cup tx[t].left
    BY <1>1, <1>5 DEF TxOK, FinishOK
  <2> QED
    BY <1>2, <1>3, <1>5, <2>1 DEF NextRows
<1> QED
  BY <1>4, <1>5

\* A row that is free and matches is locked.
LEMMA LockKeeps ==
  ASSUME IInv, NEW t \in Txns, Active(t), NEW r \in NextRows(t),
         Matches(t, r), Free(r), Lock(t, r), UNCHANGED tables
  PROVE  IInv'
<1> DEFINE o == tx[t].order
           new == [tx[t] EXCEPT !.pc = "run", !.left = @ \ {r}, !.row = <<>>]
<1>1. tx[t] \in TxRecord /\ TxOK(t)
  BY TxTyped DEF IInv
<1>2. new \in TxRecord
  BY <1>1 DEF TxRecord
<1>3. tx \in [Txns -> TxRecord] /\ tx' = [tx EXCEPT ![t] = new]
  BY DEF Lock, Past, IInv, TypeOK, TxRecord
<1>4. r \in tx[t].left /\ r \in Rows /\ r \notin held[t]
  BY NextRowsOf
<1>5. held \in [Txns -> SUBSET Rows] /\ held' = [held EXCEPT ![t] = held[t] \cup {r}]
  BY DEF Lock, IInv, TypeOK
<1>6. TypeOK'
  BY <1>2, <1>3, <1>4, <1>5 DEF IInv, TypeOK, TxRecord, tables
<1>7. Exclusive' /\ Agree'
  BY <1>4, <1>5 DEF IInv, Exclusive, Agree, tables, Free
<1>8. /\ tx'[t].pc = "run" /\ tx'[t].kind = tx[t].kind /\ tx'[t].order = o
      /\ tx'[t].cart = tx[t].cart /\ tx'[t].left = tx[t].left \ {r}
      /\ held'[t] = held[t] \cup {r}
  BY <1>1, <1>3, <1>5 DEF TxRecord
<1>9. TxOK(t)'
  <2>1. CASE tx[t].kind = "create"
    <3>1. CreateOK(t) /\ \A s \in tx[t].left : r[2] <= s[2]
      BY <1>1, <2>1, NextRowsOf DEF TxOK
    <3>2. tx[t].left \subseteq {StockRow(p) : p \in Products}
      BY <3>1 DEF CreateOK, StockRows
    <3>3. \A s \in tx[t].left : s # r => r[2] < s[2]
      BY <3>1, <3>2, <1>4, LocksAssumption DEF StockRow
    <3>4. \A p \in Products : StockRow(p) = r => inventory[p] >= tx[t].cart[p]
      BY <2>1 DEF Matches, StockRow
    <3>5. CreateOK(t)'
      BY <1>4, <1>8, <3>1, <3>3, <3>4 DEF CreateOK, tables
    <3> QED
      BY <1>1, <1>4, <1>8, <2>1, <3>5 DEF TxOK, Active
  <2>2. CASE tx[t].kind # "create"
    <3>1. FinishOK(t) /\ (r = PaymentRow(o) \/ PaymentRow(o) \in held[t])
      BY <1>1, <2>2, NextRowsOf DEF TxOK
    <3>2. r = PaymentRow(o) => payments[o] = "pending"
      BY DEF Matches, PaymentRow
    <3>3. FinishOK(t)'
      BY <1>4, <1>8, <3>1, <3>2 DEF FinishOK, tables
    <3> QED
      BY <1>1, <1>4, <1>8, <2>2, <3>3 DEF TxOK, Active
  <2> QED
    BY <2>1, <2>2
<1>10. \A u \in Txns : u # t => TxOK(u)'
  BY <1>3, <1>5, OthersKeep
<1> QED
  BY <1>6, <1>7, <1>9, <1>10 DEF IInv

\* The update of orders always finds its row pending: the payment is held, and was.
LEMMA OrderRowMatches ==
  ASSUME IInv, NEW t \in Txns, Active(t), NEW r \in NextRows(t), r[1] = "orders"
  PROVE  Matches(t, r)
<1> DEFINE o == tx[t].order
<1>1. tx[t] \in TxRecord /\ TxOK(t) /\ Agree
  BY TxTyped DEF IInv
<1>2. r \in tx[t].left
  BY NextRowsOf
<1>3. tx[t].kind # "create"
  BY <1>1, <1>2 DEF TxOK, CreateOK, StockRows, StockRow
<1>4. FinishOK(t)
  BY <1>1, <1>3 DEF TxOK
<1>5. r = OrderRow(o)
  BY <1>2, <1>4 DEF FinishOK, StockRows, StockRow, PaymentRow, OrderRow
<1>6. PaymentRow(o) \in held[t]
  BY <1>3, <1>5, NextRowsOf DEF PaymentRow, OrderRow
<1>7. orders[o] = "pending"
  BY <1>1, <1>4, <1>6 DEF FinishOK, Agree
<1> QED
  BY <1>5, <1>7 DEF Matches, OrderRow

LEMMA AffectsNoneKeeps ==
  ASSUME IInv, NEW t \in Txns, Active(t), NEW r \in NextRows(t),
         ~Matches(t, r), AffectsNone(t, r), UNCHANGED tables
  PROVE  IInv'
<1>1. End(t)
  BY OrderRowMatches DEF AffectsNone
<1> QED
  BY <1>1, EndKeeps

LEMMA UpdateKeeps ==
  ASSUME IInv, NEW t \in Txns, NEW r \in Rows, Update(t, r)
  PROVE  IInv'
<1>1. Active(t) /\ r \in NextRows(t) /\ UNCHANGED tables
  BY DEF Update, Active
<1>2. CASE ~Matches(t, r) /\ AffectsNone(t, r)
  BY <1>1, <1>2, AffectsNoneKeeps
<1>3. CASE Matches(t, r) /\ Free(r) /\ Lock(t, r)
  BY <1>1, <1>3, LockKeeps
<1>4. CASE /\ tx' = [tx EXCEPT ![t] = [@ EXCEPT !.pc = "wait", !.row = r]]
           /\ UNCHANGED held
  <2> DEFINE new == [tx[t] EXCEPT !.pc = "wait", !.row = r]
  <2>1. tx[t] \in TxRecord /\ TxOK(t)
    BY TxTyped DEF IInv
  <2>2. new \in TxRecord
    BY <2>1 DEF TxRecord
  <2>3. tx \in [Txns -> TxRecord] /\ tx' = [tx EXCEPT ![t] = new]
    BY <1>4 DEF IInv, TypeOK, TxRecord
  <2>4. TypeOK'
    BY <1>1, <1>4, <2>2, <2>3 DEF IInv, TypeOK, TxRecord, tables
  <2>5. (Exclusive /\ Agree)'
    BY <1>1, <1>4 DEF IInv, Exclusive, Agree, tables
  <2>6. /\ tx'[t].pc = "wait" /\ tx'[t].kind = tx[t].kind /\ tx'[t].order = tx[t].order
        /\ tx'[t].cart = tx[t].cart /\ tx'[t].left = tx[t].left /\ tx'[t].row = r
        /\ held' = held
    BY <1>4, <2>1, <2>3 DEF TxRecord
  <2>7. TxOK(t)'
    <3>1. NextRows(t)' = NextRows(t)
      BY <2>6 DEF NextRows
    <3>2. CreateOK(t) => CreateOK(t)'
      BY <1>1, <2>6 DEF CreateOK, tables
    <3>3. FinishOK(t) => FinishOK(t)'
      BY <1>1, <2>6 DEF FinishOK, tables
    <3> QED
      BY <1>1, <2>1, <2>6, <3>1, <3>2, <3>3 DEF TxOK, Active
  <2>8. \A u \in Txns : u # t => TxOK(u)'
    BY <1>1, <1>4, <2>3, OthersKeep
  <2> QED
    BY <2>4, <2>5, <2>7, <2>8 DEF IInv
<1> QED
  BY <1>2, <1>3, <1>4 DEF Update

LEMMA GrantedKeeps ==
  ASSUME IInv, NEW t \in Txns, Granted(t)
  PROVE  IInv'
<1>1. Active(t) /\ tx[t].row \in NextRows(t) /\ UNCHANGED tables
  BY DEF Granted, Active, IInv, TxOK
<1> QED
  BY <1>1, LockKeeps, AffectsNoneKeeps DEF Granted

-----------------------------------------------------------------------------
(***************************************************************************)
(* Commits.  The rows a commit changes are locked by it, so nobody else    *)
(* relies on them.                                                         *)
(***************************************************************************)

LEMMA OthersKeepAtCommit ==
  ASSUME IInv, NEW t \in Txns, Active(t), NEW o \in Orders,
         \/ orders[o] = "none" /\ t = o
         \/ /\ orders[o] # "none" /\ orders'[o] # "none" /\ items'[o] = items[o]
            /\ PaymentRow(o) \in held[t],
         \A x \in Orders : x # o => /\ orders'[x] = orders[x] /\ payments'[x] = payments[x]
                                    /\ items'[x] = items[x],
         NEW u \in Txns, u # t, tx'[u] = tx[u], held'[u] = held[u],
         inventory \in [Products -> Nat], inventory' \in [Products -> Nat],
         \A p \in Products : StockRow(p) \in held[u] => inventory'[p] >= inventory[p]
  PROVE  TxOK(u)'
<1>1. NextRows(u)' = NextRows(u)
  BY DEF NextRows
<1>2. TxOK(u) /\ Exclusive /\ tx[u] \in TxRecord
  BY TxTyped DEF IInv
<1>3. ASSUME CreateOK(u) PROVE CreateOK(u)'
  <2>1. orders'[u] = "none"
    BY <1>3 DEF CreateOK
  <2>2. \A p \in Products : StockRow(p) \in held[u] => inventory'[p] >= tx[u].cart[p]
    BY <1>2, <1>3 DEF CreateOK, TxRecord
  <2> QED
    BY <1>3, <2>1, <2>2 DEF CreateOK
<1>4. ASSUME FinishOK(u) PROVE FinishOK(u)'
  <2> DEFINE x == tx[u].order
  <2>1. x \in Orders /\ orders[x] # "none"
    BY <1>4 DEF FinishOK
  <2>2. items'[x] = items[x] /\ orders'[x] # "none"
    BY <2>1
  <2>3. PaymentRow(x) \in held[u] => x # o
    BY <1>2, <2>1, RowsTyped DEF Exclusive
  <2>4. PaymentRow(x) \in held[u] => payments'[x] = "pending"
    BY <1>4, <2>1, <2>3 DEF FinishOK
  <2> QED
    BY <1>4, <2>1, <2>2, <2>4 DEF FinishOK
<1>5. tx[u].pc = "idle" /\ u \in Orders => orders'[u] = "none"
  BY <1>2 DEF TxOK
<1> QED
  BY <1>1, <1>2, <1>3, <1>4, <1>5 DEF TxOK, Active

\* A transaction that has run its last statement has locked all it changes.
LEMMA ReadyHolds ==
  ASSUME IInv, NEW t \in Txns, Ready(t)
  PROVE  /\ tx[t] \in TxRecord
         /\ tx[t].kind = "create" =>
              /\ CreateOK(t)
              /\ \A p \in Products : inventory[p] >= tx[t].cart[p]
              /\ \A p \in Products : tx[t].cart[p] > 0 => StockRow(p) \in held[t]
         /\ tx[t].kind # "create" =>
              /\ FinishOK(t)
              /\ PaymentRow(tx[t].order) \in held[t] /\ OrderRow(tx[t].order) \in held[t]
              /\ payments[tx[t].order] = "pending" /\ orders[tx[t].order] = "pending"
<1>1. tx[t] \in TxRecord /\ TxOK(t) /\ Active(t) /\ tx[t].left = {} /\ Agree
  BY TxTyped DEF IInv, Ready, Active
<1>2. inventory \in [Products -> Nat]
  BY DEF IInv, TypeOK
<1>3. ASSUME tx[t].kind = "create"
      PROVE  /\ CreateOK(t)
             /\ \A p \in Products : inventory[p] >= tx[t].cart[p]
             /\ \A p \in Products : tx[t].cart[p] > 0 => StockRow(p) \in held[t]
  <2>1. CreateOK(t)
    BY <1>1, <1>3 DEF TxOK
  <2>2. \A p \in Products : tx[t].cart[p] > 0 => StockRow(p) \in held[t]
    BY <1>1, <2>1 DEF CreateOK, StockRows
  <2>3. tx[t].cart \in [Products -> Nat]
    BY <1>1 DEF TxRecord
  <2>4. \A p \in Products : inventory[p] >= tx[t].cart[p]
    BY <1>2, <2>1, <2>2, <2>3 DEF CreateOK
  <2> QED
    BY <2>1, <2>2, <2>4
<1>4. ASSUME tx[t].kind # "create"
      PROVE  /\ FinishOK(t)
             /\ PaymentRow(tx[t].order) \in held[t] /\ OrderRow(tx[t].order) \in held[t]
             /\ payments[tx[t].order] = "pending" /\ orders[tx[t].order] = "pending"
  <2>1. FinishOK(t)
    BY <1>1, <1>4 DEF TxOK
  <2>2. PaymentRow(tx[t].order) \in held[t] /\ OrderRow(tx[t].order) \in held[t]
    BY <1>1, <2>1 DEF FinishOK
  <2> QED
    BY <1>1, <2>1, <2>2 DEF FinishOK, Agree
<1> QED
  BY <1>1, <1>3, <1>4

\* What End does to the transaction table and the locks, whatever is committed.
LEMMA EndDoes ==
  ASSUME IInv, NEW t \in Txns, End(t)
  PROVE  /\ tx' \in [Txns -> TxRecord] /\ held' \in [Txns -> SUBSET Rows]
         /\ tx'[t].pc = "end" /\ held'[t] = {} /\ TxOK(t)' /\ Exclusive'
         /\ \A u \in Txns : u # t => tx'[u] = tx[u] /\ held'[u] = held[u]
<1>1. tx[t] \in TxRecord
  BY TxTyped DEF IInv
<1>2. [tx[t] EXCEPT !.pc = "end", !.row = <<>>] \in TxRecord
  BY <1>1 DEF TxRecord
<1>3. tx \in [Txns -> TxRecord] /\ tx' = [tx EXCEPT ![t] = [tx[t] EXCEPT !.pc = "end", !.row = <<>>]]
  BY DEF End, IInv, TypeOK, TxRecord
<1>4. held \in [Txns -> SUBSET Rows] /\ held' = [held EXCEPT ![t] = {}]
  BY DEF End, IInv, TypeOK
<1>5. tx'[t].pc = "end" /\ held'[t] = {}
  BY <1>1, <1>3, <1>4 DEF TxRecord
<1>6. TxOK(t)'
  BY <1>5 DEF TxOK, Active
<1>7. Exclusive'
  BY <1>4 DEF IInv, Exclusive
<1> QED
  BY <1>2, <1>3, <1>4, <1>5, <1>6, <1>7

LEMMA CreateCommits ==
  ASSUME IInv, NEW t \in Txns, CommitCreateOrder(t)
  PROVE  IInv' /\ t \in Orders /\ tx[t].cart \in Carts /\ Lifecycle!Place(t, tx[t].cart)
<1> DEFINE cart == tx[t].cart
<1>1. /\ Ready(t) /\ Active(t) /\ tx[t].kind = "create" /\ End(t)
      /\ inventory' = [p \in Products |-> inventory[p] - cart[p]]
  BY DEF CommitCreateOrder, Ready, Active
<1>2. /\ CreateOK(t) /\ t \in Orders /\ tx[t].order = t /\ orders[t] = "none" /\ cart \in Carts
      /\ cart \in [Products -> Nat]
      /\ \A p \in Products : inventory[p] >= cart[p]
      /\ \A p \in Products : cart[p] > 0 => StockRow(p) \in held[t]
  BY <1>1, ReadyHolds DEF CreateOK, TxRecord
<1>3. /\ orders' = [orders EXCEPT ![t] = "pending"]
      /\ items' = [items EXCEPT ![t] = cart]
      /\ payments' = [payments EXCEPT ![t] = "pending"]
  BY <1>2 DEF CommitCreateOrder
<1>4. inventory \in [Products -> Nat] /\ inventory' \in [Products -> Nat]
  BY <1>1, <1>2 DEF IInv, TypeOK
<1>5. TypeOK'
  BY <1>1, <1>2, <1>3, <1>4, EndDoes DEF IInv, TypeOK, TxRecord
<1>6. Agree'
  BY <1>2, <1>3 DEF IInv, TypeOK, Agree
<1>7. ASSUME NEW u \in Txns, u # t PROVE TxOK(u)'
  <2>1. tx'[u] = tx[u] /\ held'[u] = held[u]
    BY <1>1, <1>7, EndDoes
  <2>2. \A p \in Products : StockRow(p) \in held[u] => StockRow(p) \notin held[t]
    BY <1>7, RowsTyped DEF IInv, Exclusive
  <2>3. \A p \in Products : StockRow(p) \in held[u] => inventory'[p] >= inventory[p]
    BY <1>1, <1>2, <1>4, <2>2
  <2>4. \A x \in Orders : x # t => /\ orders'[x] = orders[x] /\ payments'[x] = payments[x]
                                    /\ items'[x] = items[x]
    BY <1>3 DEF IInv, TypeOK
  <2> QED
    BY <1>1, <1>2, <1>4, <1>7, <2>1, <2>3, <2>4, OthersKeepAtCommit
<1>8. IInv'
  BY <1>1, <1>5, <1>6, <1>7, EndDoes DEF IInv
<1>9. Lifecycle!Place(t, cart)
  BY <1>1, <1>2, <1>3 DEF Lifecycle!Place
<1> QED
  BY <1>2, <1>8, <1>9

\* Both finishing transactions change one order and never take from the stock.
LEMMA FinishCommits ==
  ASSUME IInv, NEW t \in Txns, Ready(t), tx[t].kind # "create", End(t),
         NEW o, o = tx[t].order,
         NEW s \in {"confirmed", "cancelled"}, orders' = [orders EXCEPT ![o] = s],
         NEW q \in {"paid", "failed"}, payments' = [payments EXCEPT ![o] = q],
         items' = items, inventory' \in [Products -> Nat],
         \A p \in Products : inventory'[p] >= inventory[p]
  PROVE  IInv'
<1>1. /\ Active(t) /\ o \in Orders /\ orders[o] = "pending" /\ payments[o] = "pending"
      /\ PaymentRow(o) \in held[t]
  BY ReadyHolds DEF Ready, Active, FinishOK
<1>2. TypeOK'
  BY <1>1, EndDoes DEF IInv, TypeOK, TxRecord
<1>3. Agree'
  BY <1>1 DEF IInv, TypeOK, Agree
<1>4. ASSUME NEW u \in Txns, u # t PROVE TxOK(u)'
  <2>1. tx'[u] = tx[u] /\ held'[u] = held[u]
    BY <1>4, EndDoes
  <2>2. \A x \in Orders : x # o => /\ orders'[x] = orders[x] /\ payments'[x] = payments[x]
                                    /\ items'[x] = items[x]
    BY DEF IInv, TypeOK
  <2>3. orders[o] # "none" /\ orders'[o] # "none" /\ items'[o] = items[o]
    BY <1>1 DEF IInv, TypeOK
  <2>4. inventory \in [Products -> Nat]
    BY DEF IInv, TypeOK
  <2> QED
    BY <1>1, <1>4, <2>1, <2>2, <2>3, <2>4, OthersKeepAtCommit
<1> QED
  BY <1>2, <1>3, <1>4, EndDoes DEF IInv

LEMMA ConfirmCommits ==
  ASSUME IInv, NEW t \in Txns, CommitMarkPaidAndConfirm(t)
  PROVE  IInv' /\ tx[t].order \in Orders /\ Lifecycle!Confirm(tx[t].order)
<1> DEFINE o == tx[t].order
<1>1. /\ Ready(t) /\ tx[t].kind = "confirm" /\ End(t)
      /\ payments' = [payments EXCEPT ![o] = "paid"] /\ UNCHANGED <<items, inventory>>
  BY DEF CommitMarkPaidAndConfirm
<1>2. o \in Orders /\ orders[o] = "pending" /\ OrderRow(o) \in held[t]
  BY <1>1, ReadyHolds DEF FinishOK
<1>3. orders' = [orders EXCEPT ![o] = "confirmed"]
  BY <1>2 DEF CommitMarkPaidAndConfirm
<1>4. inventory' \in [Products -> Nat] /\ \A p \in Products : inventory'[p] >= inventory[p]
  BY <1>1 DEF IInv, TypeOK
<1>5. IInv'
  BY <1>1, <1>3, <1>4, FinishCommits
<1>6. Lifecycle!Confirm(o)
  BY <1>1, <1>2, <1>3 DEF Lifecycle!Confirm
<1> QED
  BY <1>2, <1>5, <1>6

LEMMA CancelCommits ==
  ASSUME IInv, NEW t \in Txns, CommitFailCancelAndRestock(t)
  PROVE  IInv' /\ tx[t].order \in Orders /\ Lifecycle!Cancel(tx[t].order)
<1> DEFINE o == tx[t].order
<1>1. /\ Ready(t) /\ tx[t].kind = "cancel" /\ End(t)
      /\ payments' = [payments EXCEPT ![o] = "failed"] /\ items' = items
      /\ inventory' = [p \in Products |-> inventory[p] + tx[t].cart[p]]
  BY DEF CommitFailCancelAndRestock
<1>2. /\ o \in Orders /\ orders[o] = "pending" /\ OrderRow(o) \in held[t]
      /\ tx[t].cart = items[o] /\ tx[t].cart \in [Products -> Nat]
  BY <1>1, ReadyHolds DEF FinishOK, TxRecord
<1>3. orders' = [orders EXCEPT ![o] = "cancelled"]
  BY <1>2 DEF CommitFailCancelAndRestock
<1>4. inventory' \in [Products -> Nat] /\ \A p \in Products : inventory'[p] >= inventory[p]
  BY <1>1, <1>2 DEF IInv, TypeOK
<1>5. IInv'
  BY <1>1, <1>3, <1>4, FinishCommits
<1>6. Lifecycle!Cancel(o)
  BY <1>1, <1>2, <1>3 DEF Lifecycle!Cancel
<1> QED
  BY <1>2, <1>5, <1>6

-----------------------------------------------------------------------------

\* Every step keeps the invariant, and is a step of OrderLifecycle or none.
LEMMA NextKeeps ==
  ASSUME IInv, [Next]_vars
  PROVE  IInv' /\ [Lifecycle!Next]_(Lifecycle!vars)
<1>1. ASSUME UNCHANGED tables PROVE UNCHANGED Lifecycle!vars
  BY <1>1 DEF tables, Lifecycle!vars
<1>2. ASSUME NEW o \in Orders, NEW cart \in Carts, BeginCreateOrder(o, cart)
      PROVE  IInv' /\ UNCHANGED tables
  <2>1. cart \in [Products -> Nat] /\ StockRows(cart) \in SUBSET Rows /\ o \in Txns
    BY LocksAssumption, RowsTyped DEF Txns
  <2>2. Begin(o, "create", o, cart, StockRows(cart)) /\ "create" \in Kinds
    BY <1>2 DEF BeginCreateOrder, Kinds
  <2>3. IInv'
    BY <2>1, <2>2, BeginKeeps
  <2> QED
    BY <2>2, <2>3 DEF Begin
<1>3. ASSUME NEW f \in Finishers, NEW o \in Orders, BeginMarkPaidAndConfirm(f, o)
      PROVE  IInv' /\ UNCHANGED tables
  <2>1. /\ StockRows(EmptyCart) = {} /\ f \in Txns /\ "confirm" \in Kinds
        /\ {PaymentRow(o), OrderRow(o)} \in SUBSET Rows
    BY RowsTyped DEF StockRows, EmptyCart, Txns, Kinds
  <2>2. Begin(f, "confirm", o, EmptyCart, {PaymentRow(o), OrderRow(o)}) /\ orders[o] # "none"
    BY <1>3 DEF BeginMarkPaidAndConfirm
  <2>3. IInv'
    BY <2>1, <2>2, EmptyCartTyped, BeginKeeps
  <2> QED
    BY <2>2, <2>3 DEF Begin
<1>4. ASSUME NEW f \in Finishers, NEW o \in Orders, BeginFailCancelAndRestock(f, o)
      PROVE  IInv' /\ UNCHANGED tables
  <2> DEFINE left == {PaymentRow(o), OrderRow(o)} \cup StockRows(items[o])
  <2>1. f \in Txns /\ "cancel" \in Kinds /\ left \in SUBSET Rows /\ items[o] \in [Products -> Nat]
    BY RowsTyped DEF Txns, Kinds, IInv, TypeOK
  <2>2. Begin(f, "cancel", o, items[o], left) /\ orders[o] # "none"
    BY <1>4 DEF BeginFailCancelAndRestock
  <2>3. IInv'
    BY <2>1, <2>2, BeginKeeps
  <2> QED
    BY <2>2, <2>3 DEF Begin
<1>5. ASSUME NEW t \in Txns, NEW r \in Rows, Update(t, r) PROVE IInv' /\ UNCHANGED tables
  BY <1>5, UpdateKeeps DEF Update
<1>6. ASSUME NEW t \in Txns, Granted(t) PROVE IInv' /\ UNCHANGED tables
  BY <1>6, GrantedKeeps DEF Granted
<1>7. ASSUME NEW t \in Txns, RollBack(t) PROVE IInv' /\ UNCHANGED tables
  BY <1>7, EndKeeps DEF RollBack, Active
<1>8. ASSUME NEW t \in Txns, CommitCreateOrder(t) PROVE IInv' /\ Lifecycle!Next
  BY <1>8, CreateCommits DEF Lifecycle!Next, Lifecycle!Orders, Orders
<1>9. ASSUME NEW t \in Txns, CommitMarkPaidAndConfirm(t) PROVE IInv' /\ Lifecycle!Next
  BY <1>9, ConfirmCommits DEF Lifecycle!Next, Lifecycle!Orders, Orders
<1>10. ASSUME NEW t \in Txns, CommitFailCancelAndRestock(t) PROVE IInv' /\ Lifecycle!Next
  BY <1>10, CancelCommits DEF Lifecycle!Next, Lifecycle!Orders, Orders
<1>11. CASE UNCHANGED vars
  <2>1. UNCHANGED tables
    BY <1>11 DEF vars, tables
  <2>2. \A t \in Txns : TxOK(t)'
    BY <1>11, <2>1, OthersKeep DEF vars
  <2>3. (TypeOK /\ Exclusive /\ Agree)'
    BY <1>11 DEF vars, tables, IInv, TypeOK, Exclusive, Agree
  <2> QED
    BY <1>1, <2>1, <2>2, <2>3 DEF IInv
<1> QED
  BY <1>1, <1>2, <1>3, <1>4, <1>5, <1>6, <1>7, <1>8, <1>9, <1>10, <1>11
     DEF Next, Steps, DeadlockDetected

\* Locks are exclusive, are taken in the order of the statements, and what a
\* transaction has checked stays true while it holds the row.
THEOREM Invariance == Spec => []IInv
<1>1. Init => IInv
  BY Initially
<1>2. IInv /\ [Next]_vars => IInv'
  BY NextKeeps
<1> QED
  BY <1>1, <1>2, PTL DEF Spec

\* The committed tables, with transactions taken apart into statements, change as
\* OrderLifecycle says.
THEOREM LocksImplementLifecycle == Spec => ImplementsLifecycle
<1>1. Init => Lifecycle!Init
  BY DEF Init, Lifecycle!Init, Lifecycle!Orders, Lifecycle!EmptyCart, Orders, EmptyCart
<1>2. IInv /\ [Next]_vars => [Lifecycle!Next]_(Lifecycle!vars)
  BY NextKeeps
<1> QED
  BY <1>1, <1>2, Invariance, PTL DEF Spec, ImplementsLifecycle, Lifecycle!Spec

-----------------------------------------------------------------------------
(***************************************************************************)
(* Deadlocks.  Along a circle of transactions that place orders the ids    *)
(* they wait for would grow strictly, for ever.                            *)
(***************************************************************************)

\* MarkPaidAndConfirm holds nothing when it waits for a payment, and never has
\* to wait for an order whose payment it holds.
LEMMA ConfirmsWaitAlone ==
  ASSUME IInv, NEW S \in SUBSET Txns, Cycle(S), \A t \in S : tx[t].kind # "cancel",
         NEW t \in S
  PROVE  tx[t].kind = "create"
<1> DEFINE o == tx[t].order
<1> SUFFICES ASSUME tx[t].kind # "create" PROVE FALSE
  OBVIOUS
<1>1. \A u \in S : u \in Txns /\ Active(u) /\ tx[u].pc = "wait" /\ TxOK(u) /\ tx[u] \in TxRecord
  BY TxTyped DEF Cycle, Active, IInv
<1>2. FinishOK(t) /\ o \in Orders
  BY <1>1 DEF TxOK, FinishOK
<1>3. PICK v \in S : tx[v].row \in held[t]
  BY DEF Cycle
<1>4. PaymentRow(o) \in held[t]
  BY <1>2, <1>3 DEF FinishOK
<1>5. StockRows(tx[t].cart) = {}
  BY <1>1, <1>2 DEF FinishOK, TxRecord, Kinds, StockRows, EmptyCart
<1>6. tx[t].row = OrderRow(o)
  <2>1. tx[t].row \in NextRows(t)
    BY <1>1 DEF TxOK
  <2>2. tx[t].row \in tx[t].left /\ tx[t].row \notin held[t]
    BY <1>1, <2>1, NextRowsOf
  <2> QED
    BY <1>2, <1>4, <1>5, <2>2 DEF FinishOK
<1>7. PICK u \in S : OrderRow(o) \in held[u]
  BY <1>6 DEF Cycle
<1>8. tx[u].kind # "create"
  <2>1. ASSUME CreateOK(u) PROVE FALSE
    BY <1>7, <2>1 DEF CreateOK, StockRows, StockRow, OrderRow
  <2> QED
    BY <1>1, <2>1 DEF TxOK
<1>9. FinishOK(u) /\ StockRows(tx[u].cart) = {}
  BY <1>1, <1>8 DEF TxOK, FinishOK, TxRecord, Kinds, StockRows, EmptyCart
<1>10. tx[u].order = o /\ PaymentRow(o) \in held[u]
  BY <1>7, <1>9 DEF FinishOK, PaymentRow, OrderRow
<1>11. u = t
  BY <1>1, <1>2, <1>4, <1>10, RowsTyped DEF IInv, Exclusive
<1>12. OrderRow(o) \notin held[t]
  BY <1>1, <1>6, NextRowsOf DEF TxOK
<1> QED
  BY <1>7, <1>11, <1>12

\* What a CreateOrder waits for is larger than all it holds.
LEMMA CreatorsAscend ==
  ASSUME IInv, NEW S \in SUBSET Txns, Cycle(S), \A t \in S : tx[t].kind # "cancel",
         NEW t \in S
  PROVE  /\ t \in Orders /\ tx[t].row[2] \in Nat
         /\ \E u \in S : tx[u].row[2] \in Nat /\ tx[t].row[2] < tx[u].row[2]
<1>1. \A u \in S : /\ u \in Txns /\ Active(u) /\ TxOK(u) /\ CreateOK(u)
                   /\ tx[u].row \in tx[u].left
  <2> SUFFICES ASSUME NEW u \in S
               PROVE  /\ u \in Txns /\ Active(u) /\ TxOK(u) /\ CreateOK(u)
                      /\ tx[u].row \in tx[u].left
    OBVIOUS
  <2>1. Active(u) /\ TxOK(u) /\ tx[u].pc = "wait" /\ tx[u].kind = "create"
    BY ConfirmsWaitAlone DEF Cycle, Active, IInv
  <2>2. tx[u].row \in NextRows(u)
    BY <2>1 DEF TxOK
  <2> QED
    BY <2>1, <2>2, NextRowsOf DEF TxOK
<1>2. \A u \in S : tx[u].row[2] \in Nat
  BY <1>1, LocksAssumption DEF CreateOK, StockRows, StockRow
<1>3. PICK u \in S : tx[t].row \in held[u]
  BY DEF Cycle
<1>4. tx[t].row[2] < tx[u].row[2]
  BY <1>1, <1>3 DEF CreateOK
<1> QED
  BY <1>1, <1>2, <1>4 DEF CreateOK

LEMMA NoCreatorsDeadlock == IInv => DeadlocksTakeARestock
<1> SUFFICES ASSUME IInv, NEW S \in SUBSET Txns, Cycle(S), \A t \in S : tx[t].kind # "cancel"
             PROVE  FALSE
  BY DEF DeadlocksTakeARestock
<1> DEFINE Above(t) == {u \in S : tx[u].row[2] > tx[t].row[2]}
           T == {Above(t) : t \in S}
<1>1. IsFiniteSet(S)
  <2>1. S \subseteq 1..MaxOrders
    BY CreatorsAscend DEF Orders
  <2>2. IsFiniteSet(1..MaxOrders)
    BY LocksAssumption, FS_Interval
  <2> QED
    BY <2>1, <2>2, FS_Subset
<1>2. IsWellFoundedOn(StrictSubsetOrdering(S), FiniteSubsetsOf(S))
  BY FS_StrictSubsetOrderingWellFounded
<1>3. T # {} /\ T \subseteq FiniteSubsetsOf(S)
  <2>1. \A B \in SUBSET S : IsFiniteSet(B)
    BY <1>1, FS_Subset
  <2>2. \A B \in T : B \in SUBSET S
    OBVIOUS
  <2>3. PICK t \in S : TRUE
    BY DEF Cycle
  <2>4. Above(t) \in T
    OBVIOUS
  <2> HIDE DEF T
  <2> QED
    BY <2>1, <2>2, <2>4 DEF FiniteSubsetsOf
<1>4. PICK A \in T : \A B \in T : ~(<<B, A>> \in StrictSubsetOrdering(S))
  <2> HIDE DEF T
  <2> QED
    BY <1>2, <1>3, WFMin
<1>5. PICK t \in S : A = Above(t)
  OBVIOUS
<1>6. PICK u \in S : tx[u].row[2] \in Nat /\ tx[t].row[2] < tx[u].row[2]
  BY CreatorsAscend
<1>7. \A v \in S : tx[v].row[2] \in Nat
  BY CreatorsAscend
<1>8. Above(u) \subseteq Above(t) /\ u \in Above(t) /\ u \notin Above(u)
  BY <1>6, <1>7
<1>9. <<Above(u), Above(t)>> \in StrictSubsetOrdering(S)
  BY <1>8 DEF StrictSubsetOrdering
<1> QED
  BY <1>4, <1>5, <1>9

\* Placing orders never deadlocks with placing orders, for any carts and any
\* number of them: the lines are locked in the order of the product ids.
THEOREM DeadlocksAreRestocks == Spec => []DeadlocksTakeARestock
BY Invariance, NoCreatorsDeadlock, PTL

\* The tables, the locks and the transactions keep their types; no stock is ever
\* negative.
THEOREM TypeCorrect == Spec => []TypeOK
<1>1. IInv => TypeOK
  BY DEF IInv
<1> QED
  BY <1>1, Invariance, PTL

=============================================================================
