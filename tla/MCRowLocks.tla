------------------------------ MODULE MCRowLocks ------------------------------
(* A small instance of RowLocks for TLC. *)
EXTENDS RowLocks

\* Two units of each product: two carts of both products fit, and a cart that
\* takes everything leaves nothing to the others.
MCInitialStock == [p \in Products |-> 2]
MCCarts == {[p \in Products |-> 1], [p \in Products |-> 2]}
=============================================================================
