------------------------------ MODULE OrderStore ------------------------------
(***************************************************************************)
(* The PostgreSQL tables of an order and the transactions of               *)
(* internal/repository/order.go on them.  Each transaction is one atomic   *)
(* action: it takes the row locks of what it changes and keeps them until  *)
(* it commits, and every update is guarded on the row it changes.          *)
(*                                                                         *)
(* An order is known by its rank in payments.created_at (the rank, not the *)
(* id, is what the sweeper's query orders by).  Its payment row is created *)
(* in the same transaction, so payments is indexed by order too.           *)
(***************************************************************************)
EXTENDS Integers, Sequences, FiniteSets

CONSTANTS
  MaxOrders,      \* bound: how many orders are ever created
  Products,       \* rows of products, each with its row of inventory
  InitialStock,   \* inventory.quantity before the first order
  Carts           \* quantity per product (0: no such line) of a request

ASSUME StoreAssumption ==
  /\ MaxOrders \in Nat \ {0}
  /\ InitialStock \in [Products -> Nat]
  /\ Carts \subseteq [Products -> Nat]

VARIABLES
  orders,      \* orders.status, "none" when there is no row yet
  payments,    \* payments.status and payments.provider_txn_id
  items,       \* order_items, as the quantity of each product
  inventory,   \* inventory.quantity
  cutoff       \* payments created up to this rank are older than StaleAfter

storeVars == <<orders, payments, items, inventory, cutoff>>

Orders == 1..MaxOrders
EmptyCart == [p \in Products |-> 0]

\* models.OrderStatus* and models.PaymentStatus* that are ever written: shipped,
\* delivered and refunded are not.  "none" stands for the absence of a row.
OrderStatuses == {"none", "pending", "confirmed", "cancelled"}
PaymentStatuses == {"none", "pending", "paid", "failed"}
Decided == {"confirmed", "cancelled"}

\* provider_txn_id: which of the accepted charges of the order it names, in the
\* order in which they were accepted; 0 is NULL or the empty string.
NoTxn == 0

StoreTypeOK ==
  /\ orders \in [Orders -> OrderStatuses]
  /\ payments \in [Orders -> [status : PaymentStatuses, txn : Nat]]
  /\ items \in [Orders -> [Products -> Nat]]
  /\ inventory \in [Products -> Nat]
  /\ cutoff \in 0..MaxOrders

StoreInit ==
  /\ orders = [o \in Orders |-> "none"]
  /\ payments = [o \in Orders |-> [status |-> "none", txn |-> NoTxn]]
  /\ items = [o \in Orders |-> EmptyCart]
  /\ inventory = InitialStock
  /\ cutoff = 0

-----------------------------------------------------------------------------

\* Mutant of CreateOrderTx: the decrements lose their guard quantity >= ?.
CreateOrderTxOversells(o, cart) ==
  /\ orders[o] = "none"
  /\ \A older \in 1..(o - 1) : orders[older] # "none"
  /\ inventory' = [p \in Products |-> inventory[p] - cart[p]]
  /\ orders' = [orders EXCEPT ![o] = "pending"]
  /\ items' = [items EXCEPT ![o] = cart]
  /\ payments' = [payments EXCEPT ![o] = [status |-> "pending", txn |-> NoTxn]]
  /\ UNCHANGED cutoff

\* Every guarded decrement (quantity >= ?) affects its row, and the order, its
\* items and its payment are inserted.  A line that affects no row rolls the
\* whole transaction back, which leaves the tables as they were.
CreateOrderTx(o, cart) ==
  /\ orders[o] = "none"
  /\ \A older \in 1..(o - 1) : orders[older] # "none"
  /\ \A p \in Products : inventory[p] >= cart[p]
  /\ inventory' = [p \in Products |-> inventory[p] - cart[p]]
  /\ orders' = [orders EXCEPT ![o] = "pending"]
  /\ items' = [items EXCEPT ![o] = cart]
  /\ payments' = [payments EXCEPT ![o] = [status |-> "pending", txn |-> NoTxn]]
  /\ UNCHANGED cutoff

\* The row GetPendingByOrderID finds, and the guard of both final updates
\* (WHERE id = ? AND status = 'pending' affects one row).
PaymentPending(o) == payments[o].status = "pending"

\* UPDATE orders SET status = s WHERE id = o AND status = 'pending'
AdvanceOrder(o, s) ==
  orders' = [orders EXCEPT ![o] = IF @ = "pending" THEN s ELSE @]

\* Mutant of MarkPaidAndConfirm: the update of payments loses its status guard.
MarkPaidUnguarded(o, txn) ==
  /\ payments' = [payments EXCEPT ![o] = [status |-> "paid", txn |-> txn]]
  /\ AdvanceOrder(o, "confirmed")
  /\ UNCHANGED <<items, inventory, cutoff>>

MarkPaidAndConfirm(o, txn) ==
  \/ /\ PaymentPending(o)
     /\ payments' = [payments EXCEPT ![o] = [status |-> "paid", txn |-> txn]]
     /\ AdvanceOrder(o, "confirmed")
     /\ UNCHANGED <<items, inventory, cutoff>>
  \/ ~PaymentPending(o) /\ UNCHANGED storeVars

\* Mutants of FailCancelAndRestock: no return when the update of payments affects
\* no row; and no restock at all.
FailCancelRestocksAlways(o) ==
  /\ payments' = [payments EXCEPT ![o].status = IF @ = "pending" THEN "failed" ELSE @]
  /\ AdvanceOrder(o, "cancelled")
  /\ inventory' = [p \in Products |-> inventory[p] + items[o][p]]
  /\ UNCHANGED <<items, cutoff>>
FailCancelKeepsStock(o) ==
  \/ /\ PaymentPending(o)
     /\ payments' = [payments EXCEPT ![o].status = "failed"]
     /\ AdvanceOrder(o, "cancelled")
     /\ UNCHANGED <<items, inventory, cutoff>>
  \/ ~PaymentPending(o) /\ UNCHANGED storeVars

FailCancelAndRestock(o) ==
  \/ /\ PaymentPending(o)
     /\ payments' = [payments EXCEPT ![o].status = "failed"]
     /\ AdvanceOrder(o, "cancelled")
     /\ inventory' = [p \in Products |-> inventory[p] + items[o][p]]
     /\ UNCHANGED <<items, cutoff>>
  \/ ~PaymentPending(o) /\ UNCHANGED storeVars

\* Mutant of StalePending: the query loses its status filter.
StaleAnyStatus == 1..cutoff

\* status = 'pending' AND created_at < now - StaleAfter
StalePending == {o \in 1..cutoff : PaymentPending(o)}

\* ... ORDER BY created_at ASC LIMIT limit, as the set of the rows it returns.
ListStalePending(limit) ==
  {o \in StalePending : Cardinality({older \in StalePending : older < o}) < limit}

\* The clock moves past created_at + StaleAfter of the next payment.
PaymentAges ==
  /\ cutoff < MaxOrders
  /\ orders[cutoff + 1] # "none"
  /\ cutoff' = cutoff + 1
  /\ UNCHANGED <<orders, payments, items, inventory>>

=============================================================================
