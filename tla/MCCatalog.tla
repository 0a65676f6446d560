------------------------------ MODULE MCCatalog ------------------------------
(* Small instances of Catalog for TLC. *)
EXTENDS Catalog

\* Every buyer orders the first two products.
MCCart == [b \in Buyers |-> 1..2]
=============================================================================
