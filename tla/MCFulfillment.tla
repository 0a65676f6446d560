---------------------------- MODULE MCFulfillment ----------------------------
(* Small instances of Fulfillment for TLC. *)
EXTENDS Fulfillment

\* Two products, two units of each: two small carts fit, a large and a small
\* one do not.
MCInitialStock == [p \in Products |-> 2]
MCCarts == {[p \in Products |-> 1], [p \in Products |-> IF p = "tea" THEN 2 ELSE 0]}

\* One unit of everything.
MCOneEach == {[p \in Products |-> 1]}

\* All workers are of one process.
MCOneProcess == [w \in Workers |-> "s1"]
=============================================================================
