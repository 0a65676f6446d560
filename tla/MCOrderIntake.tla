---------------------------- MODULE MCOrderIntake ----------------------------
(* Small instances of OrderIntake for TLC. *)
EXTENDS OrderIntake, TLC

CONSTANTS r1, r2, r3, r4

Line(p, q) == [product |-> p, quantity |-> q]
Lines == {Line(p, q) : p \in 1..3, q \in 1..2}

\* Every body of two users with up to three lines.
MCBodies ==
  [user : 1..2, lines : UNION {[1..n -> Lines] : n \in 1..3}]

\* The same cart three times, once with its lines the other way round, and a
\* repeated product.
MCBody ==
  [r \in Requests |->
     [user |-> 1,
      lines |-> CASE r \in {r1, r3} -> <<Line(1, 1), Line(2, 2)>>
                  [] r = r2 -> <<Line(2, 2), Line(1, 1)>>
                  [] r = r4 -> <<Line(1, 1), Line(1, 2)>>]]

\* Requests with the same body can be exchanged.
MCSymmetry == Permutations({r1, r3})
=============================================================================
