---------------------------- MODULE MCReviewQueue ----------------------------
(* Instances of ReviewQueue small enough for TLC. *)
EXTENDS ReviewQueue, TLC

CONSTANTS a1, a2, b1, A, B

(* Two notices for one debtor, and one for another. *)
TwoDebtors == [n \in Notices |-> IF n = b1 THEN B ELSE A]

Symmetry == Permutations({a1, a2}) \cup Permutations(Operators)
=============================================================================
