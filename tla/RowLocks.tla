------------------------------- MODULE RowLocks -------------------------------
(***************************************************************************)
(* The three transactions of internal/repository/order.go taken apart into *)
(* their statements, under PostgreSQL's row locks.  OrderStore makes each  *)
(* of them one atomic action; this module is where that is earned.         *)
(*                                                                         *)
(* A guarded UPDATE (READ COMMITTED) first looks at the committed row: if  *)
(* the WHERE clause fails there it affects no row.  Otherwise it locks the *)
(* row, waiting for the transaction that holds it, and evaluates the WHERE *)
(* clause again on what that one left.  Locks are kept to the end, so what *)
(* a transaction writes is seen by others at its commit and applied here   *)
(* in the same step.  The rows CreateOrder inserts are nobody else's until *)
(* then, and the key locks its foreign keys take conflict with none of     *)
(* these updates: inserting is part of the commit.                         *)
(***************************************************************************)
EXTENDS Integers, FiniteSets

CONSTANTS
  MaxOrders,      \* bound: how many orders are submitted
  Products,       \* product ids
  InitialStock,   \* inventory.quantity before the first order
  Carts,          \* quantity per product (0: no such line) of a request
  Finishers       \* calls of MarkPaidAndConfirm and FailCancelAndRestock

ASSUME LocksAssumption ==
  /\ MaxOrders \in Nat
  /\ Products \subseteq Nat
  /\ InitialStock \in [Products -> Nat]
  /\ Carts \subseteq [Products -> Nat]
  /\ Finishers \cap (1..MaxOrders) = {}

\* An order is known by the transaction that creates it: one that is rolled back
\* leaves its number, like an id drawn from orders_id_seq, unused.
Orders == 1..MaxOrders
Txns == Orders \cup Finishers

PaymentRow(o) == <<"payments", o>>
OrderRow(o) == <<"orders", o>>
StockRow(p) == <<"inventory", p>>
Rows == {PaymentRow(o) : o \in Orders} \cup {OrderRow(o) : o \in Orders}
          \cup {StockRow(p) : p \in Products}

VARIABLES
  orders,      \* orders.status, as committed; "none": no row
  payments,    \* payments.status, as committed
  items,       \* order_items, as committed
  inventory,   \* inventory.quantity, as committed
  held,        \* per transaction: the rows it has locked
  tx           \* per transaction: what it does and how far it is

tables == <<orders, payments, items, inventory>>
vars == <<tables, held, tx>>

EmptyCart == [p \in Products |-> 0]
Kinds == {"create", "confirm", "cancel"}
NotBegun ==
  [pc |-> "idle", kind |-> "create", order |-> 0, cart |-> EmptyCart, left |-> {},
   row |-> <<>>]

TypeOK ==
  /\ orders \in [Orders -> {"none", "pending", "confirmed", "cancelled"}]
  /\ payments \in [Orders -> {"none", "pending", "paid", "failed"}]
  /\ items \in [Orders -> [Products -> Nat]]
  /\ inventory \in [Products -> Nat]
  /\ held \in [Txns -> SUBSET Rows]
  /\ tx \in [Txns -> [pc : {"idle", "run", "wait", "end"}, kind : Kinds, order : 0..MaxOrders,
                      cart : [Products -> Nat],
                      left : SUBSET Rows,           \* rows it has still to update
                      row : Rows \cup {<<>>}]]      \* the row it waits for

Init ==
  /\ orders = [o \in Orders |-> "none"]
  /\ payments = [o \in Orders |-> "none"]
  /\ items = [o \in Orders |-> EmptyCart]
  /\ inventory = InitialStock
  /\ held = [t \in Txns |-> {}]
  /\ tx = [t \in Txns |-> NotBegun]

-----------------------------------------------------------------------------

Begin(t, kind, o, cart, left) ==
  /\ tx[t].pc = "idle"
  /\ tx' = [tx EXCEPT ![t] = [pc |-> "run", kind |-> kind, order |-> o, cart |-> cart,
                              left |-> left, row |-> <<>>]]
  /\ UNCHANGED <<tables, held>>

StockRows(cart) == {StockRow(p) : p \in {q \in Products : cart[q] > 0}}

\* One decrement per line of the cart.
BeginCreateOrder(o, cart) == Begin(o, "create", o, cart, StockRows(cart))

\* A worker found the order's payment pending before it charged; by now another
\* worker, another replica or a sweep may be about to decide the order too.
BeginMarkPaidAndConfirm(f, o) ==
  /\ orders[o] # "none"
  /\ Begin(f, "confirm", o, EmptyCart, {PaymentRow(o), OrderRow(o)})

BeginFailCancelAndRestock(f, o) ==
  /\ orders[o] # "none"
  /\ Begin(f, "cancel", o, items[o], {PaymentRow(o), OrderRow(o)} \cup StockRows(items[o]))

\* Mutant of NextRows: the lines of an order are not sorted before they are
\* handed to CreateOrder.
NextRowsUnsorted(t) ==
  LET left == tx[t].left
      o == tx[t].order
  IN CASE PaymentRow(o) \in left -> {PaymentRow(o)}
       [] PaymentRow(o) \notin left /\ OrderRow(o) \in left -> {OrderRow(o)}
       [] OTHER -> left

\* The rows the next statement may be about.  CreateOrder goes through lines that
\* the service has sorted by product id; the restock goes through what a SELECT
\* without ORDER BY returned, in any order.
NextRows(t) ==
  LET left == tx[t].left
      o == tx[t].order
  IN CASE PaymentRow(o) \in left -> {PaymentRow(o)}
       [] PaymentRow(o) \notin left /\ OrderRow(o) \in left -> {OrderRow(o)}
       [] OTHER -> {r \in left : tx[t].kind = "create" => \A s \in left : r[2] <= s[2]}

\* Mutant of Matches: the decrements lose their guard quantity >= ?.
MatchesUnguarded(t, r) ==
  CASE r[1] = "payments" -> payments[r[2]] = "pending"
    [] r[1] = "orders" -> orders[r[2]] = "pending"
    [] r[1] = "inventory" -> TRUE

\* The committed row satisfies the statement's WHERE clause.
Matches(t, r) ==
  CASE r[1] = "payments" -> payments[r[2]] = "pending"
    [] r[1] = "orders" -> orders[r[2]] = "pending"
    [] r[1] = "inventory" -> tx[t].kind = "create" => inventory[r[2]] >= tx[t].cart[r[2]]

Free(r) == \A t \in Txns : r \notin held[t]

\* Mutant of End: an aborted or finished transaction keeps its locks.
EndKeepsLocks(t) ==
  /\ tx' = [tx EXCEPT ![t] = [@ EXCEPT !.pc = "end", !.row = <<>>]]
  /\ UNCHANGED held

\* COMMIT or ROLLBACK, as far as the transaction itself goes.
End(t) ==
  /\ tx' = [tx EXCEPT ![t] = [@ EXCEPT !.pc = "end", !.row = <<>>]]
  /\ held' = [held EXCEPT ![t] = {}]

\* The statement about row r is done.
Past(t, r) == [tx[t] EXCEPT !.pc = "run", !.left = @ \ {r}, !.row = <<>>]

Lock(t, r) ==
  /\ held' = [held EXCEPT ![t] = @ \cup {r}]
  /\ tx' = [tx EXCEPT ![t] = Past(t, r)]

\* Mutant of AffectsNone: a final update of payments that affects no row does not
\* end the transaction.
AffectsNoneGoesOn(t, r) ==
  IF r[1] \in {"payments", "orders"}
  THEN /\ tx' = [tx EXCEPT ![t] = Past(t, r)]
       /\ UNCHANGED held
  ELSE End(t)

\* RowsAffected = 0.  On payments: somebody else decided the order, return nil.
\* On inventory: InsufficientStockError, roll back.  On orders: nobody looks.
AffectsNone(t, r) ==
  IF r[1] = "orders"
  THEN /\ tx' = [tx EXCEPT ![t] = Past(t, r)]
       /\ UNCHANGED held
  ELSE End(t)

\* The next UPDATE is sent: it affects no row, or locks it, or has to wait.
Update(t, r) ==
  /\ tx[t].pc = "run"
  /\ r \in NextRows(t)
  /\ \/ ~Matches(t, r) /\ AffectsNone(t, r)
     \/ Matches(t, r) /\ Free(r) /\ Lock(t, r)
     \/ /\ Matches(t, r) /\ ~Free(r)
        /\ tx' = [tx EXCEPT ![t] = [@ EXCEPT !.pc = "wait", !.row = r]]
        /\ UNCHANGED held
  /\ UNCHANGED tables

\* The row is let go of by the transaction that held it.
Granted(t) ==
  /\ tx[t].pc = "wait"
  /\ Free(tx[t].row)
  /\ IF Matches(t, tx[t].row) THEN Lock(t, tx[t].row) ELSE AffectsNone(t, tx[t].row)
  /\ UNCHANGED tables

\* The last statement is done.
Ready(t) == tx[t].pc = "run" /\ tx[t].left = {}

CommitCreateOrder(t) ==
  LET o == tx[t].order IN
  /\ Ready(t) /\ tx[t].kind = "create"
  /\ inventory' = [p \in Products |-> inventory[p] - tx[t].cart[p]]
  /\ orders' = [orders EXCEPT ![o] = "pending"]
  /\ items' = [items EXCEPT ![o] = tx[t].cart]
  /\ payments' = [payments EXCEPT ![o] = "pending"]
  /\ End(t)

CommitMarkPaidAndConfirm(t) ==
  LET o == tx[t].order IN
  /\ Ready(t) /\ tx[t].kind = "confirm"
  /\ payments' = [payments EXCEPT ![o] = "paid"]
  /\ orders' = [orders EXCEPT ![o] = IF OrderRow(o) \in held[t] THEN "confirmed" ELSE @]
  /\ UNCHANGED <<items, inventory>>
  /\ End(t)

CommitFailCancelAndRestock(t) ==
  LET o == tx[t].order IN
  /\ Ready(t) /\ tx[t].kind = "cancel"
  /\ payments' = [payments EXCEPT ![o] = "failed"]
  /\ orders' = [orders EXCEPT ![o] = IF OrderRow(o) \in held[t] THEN "cancelled" ELSE @]
  /\ inventory' = [p \in Products |-> inventory[p] + tx[t].cart[p]]
  /\ UNCHANGED items
  /\ End(t)

\* A statement fails, its context is cancelled or times out: gorm rolls back.
RollBack(t) ==
  /\ tx[t].pc \in {"run", "wait"}
  /\ End(t)
  /\ UNCHANGED tables

\* The transactions in S wait for each other and for nobody else.
Cycle(S) ==
  /\ S # {}
  /\ \A t \in S : tx[t].pc = "wait" /\ \E u \in S : tx[t].row \in held[u]
  /\ \A u \in S : \E t \in S : tx[t].row \in held[u]

\* PostgreSQL aborts a transaction it finds in a cycle: "deadlock detected".
DeadlockDetected(t) ==
  /\ \E S \in SUBSET Txns : t \in S /\ Cycle(S)
  /\ RollBack(t)

Steps(t) ==
  \/ \E r \in Rows : Update(t, r)
  \/ Granted(t)
  \/ CommitCreateOrder(t) \/ CommitMarkPaidAndConfirm(t) \/ CommitFailCancelAndRestock(t)

Next ==
  \/ \E o \in Orders, cart \in Carts : BeginCreateOrder(o, cart)
  \/ \E f \in Finishers, o \in Orders :
       BeginMarkPaidAndConfirm(f, o) \/ BeginFailCancelAndRestock(f, o)
  \/ \E t \in Txns : Steps(t) \/ RollBack(t) \/ DeadlockDetected(t)

Spec == Init /\ [][Next]_vars

\* Each statement is answered in the end, and the database looks for deadlocks
\* again and again (deadlock_timeout).  No call fails for sure.
LiveSpec ==
  /\ Spec
  /\ \A t \in Txns : WF_vars(Steps(t)) /\ WF_vars(DeadlockDetected(t))

-----------------------------------------------------------------------------

\* Orders that are placed at the same time never wait for each other in a circle,
\* however their carts overlap: the lines are sorted by product id before
\* CreateOrder locks them.  A deadlock takes a restock, whose lines are not.
DeadlocksTakeARestock ==
  \A S \in SUBSET Txns : Cycle(S) => \E t \in S : tx[t].kind = "cancel"

\* With statements of all transactions interleaved, what is committed changes
\* only as OrderLifecycle says: a whole cart is taken from stock that is there,
\* and an order is decided once.
Lifecycle ==
  INSTANCE OrderLifecycle WITH
    status <- orders, stock <- inventory, told <- [o \in Orders |-> <<>>]
ImplementsLifecycle == Lifecycle!Spec

\* Every transaction that is begun ends, deadlocks included: none is left waiting
\* for a row.
TransactionsEnd == \A t \in Txns : (tx[t].pc # "idle") ~> (tx[t].pc = "end")

=============================================================================
