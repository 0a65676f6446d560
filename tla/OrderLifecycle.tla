---------------------------- MODULE OrderLifecycle ----------------------------
(***************************************************************************)
(* What the order pipeline promises a customer and a shopkeeper, with no   *)
(* word about queues, workers, sweeps, retries or crashes.                 *)
(*                                                                         *)
(* An order is placed by taking its whole cart out of the stock, or not    *)
(* placed at all.  A placed order is decided once: confirmed, or cancelled *)
(* and its cart put back.  A decided order may be announced, once, with    *)
(* the decision that was really taken.                                     *)
(***************************************************************************)
EXTENDS Integers, Sequences

CONSTANTS
  MaxOrders,      \* how many orders may ever be placed
  Products,       \* the products of the catalogue
  InitialStock,   \* the quantity of each product before the first order
  Carts           \* the carts a customer may submit

\* What the constants have to be; modules that use this one assume it of theirs.
ConstantsOK ==
  /\ MaxOrders \in Nat
  /\ InitialStock \in [Products -> Nat]
  /\ Carts \subseteq [Products -> Nat]

VARIABLES
  status,   \* the status of each order, "none" before it is placed
  items,    \* the cart of each order
  stock,    \* the quantity left of each product
  told      \* the announcements made about each order, in order

vars == <<status, items, stock, told>>

Orders == 1..MaxOrders
Terminal == {"confirmed", "cancelled"}
Statuses == {"none", "pending"} \cup Terminal
EmptyCart == [p \in Products |-> 0]

TypeOK ==
  /\ status \in [Orders -> Statuses]
  /\ items \in [Orders -> [Products -> Nat]]
  /\ stock \in [Products -> Nat]
  /\ told \in [Orders -> Seq(Terminal)]

Init ==
  /\ status = [o \in Orders |-> "none"]
  /\ items = [o \in Orders |-> EmptyCart]
  /\ stock = InitialStock
  /\ told = [o \in Orders |-> <<>>]

Place(o, cart) ==
  /\ status[o] = "none"
  /\ \A p \in Products : cart[p] <= stock[p]
  /\ status' = [status EXCEPT ![o] = "pending"]
  /\ items' = [items EXCEPT ![o] = cart]
  /\ stock' = [p \in Products |-> stock[p] - cart[p]]
  /\ UNCHANGED told

Confirm(o) ==
  /\ status[o] = "pending"
  /\ status' = [status EXCEPT ![o] = "confirmed"]
  /\ UNCHANGED <<items, stock, told>>

Cancel(o) ==
  /\ status[o] = "pending"
  /\ status' = [status EXCEPT ![o] = "cancelled"]
  /\ stock' = [p \in Products |-> stock[p] + items[o][p]]
  /\ UNCHANGED <<items, told>>

Tell(o) ==
  /\ status[o] \in Terminal
  /\ told[o] = <<>>
  /\ told' = [told EXCEPT ![o] = <<status[o]>>]
  /\ UNCHANGED <<status, items, stock>>

Next ==
  \E o \in Orders :
    \/ \E cart \in Carts : Place(o, cart)
    \/ Confirm(o)
    \/ Cancel(o)
    \/ Tell(o)

Spec == Init /\ [][Next]_vars

-----------------------------------------------------------------------------
(***************************************************************************)
(* Conservation of stock.  A sum over the orders is written without        *)
(* recursion, as the running total of a ledger with one line per order:    *)
(* acc[o] is what orders 1..o hold of product p.                           *)
(***************************************************************************)

\* What order o holds of product p: a cancelled order has given it back.
Held(o, p) == IF status[o] \in {"pending", "confirmed"} THEN items[o][p] ELSE 0

RunningTotal(acc, p) ==
  /\ acc[0] = 0
  /\ \A o \in Orders : acc[o] = acc[o - 1] + Held(o, p)

\* Every unit of every product is either in stock or held by exactly one order
\* that is not cancelled: no reservation is lost, and no cancelled order is
\* restocked twice (CreateOrder's guarded decrements against
\* FailCancelAndRestock's increments).
StockConserved ==
  \A p \in Products :
    \E acc \in [0..MaxOrders -> 0..InitialStock[p]] :
      /\ RunningTotal(acc, p)
      /\ stock[p] + acc[MaxOrders] = InitialStock[p]

=============================================================================
