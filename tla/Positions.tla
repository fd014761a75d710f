------------------------------ MODULE Positions ------------------------------
(***************************************************************************)
(* Parts of a sequence by the set of their positions, in their order: what   *)
(* the loops of byakugan leave when they pass over elements.                  *)
(***************************************************************************)
EXTENDS Naturals, FiniteSets

\* The k-th of a finite set of positions.
Rank(positions, i) == Cardinality({j \in positions : j <= i})
Nth(positions, k) == CHOOSE i \in positions : Rank(positions, i) = k

\* What seq has at these positions.
Picked(seq, positions) ==
  [k \in 1..Cardinality(positions) |-> seq[Nth(positions, k)]]

=============================================================================
