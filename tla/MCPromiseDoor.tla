---------------------------- MODULE MCPromiseDoor ----------------------------
(* Instances of PromiseDoor small enough for TLC. *)
EXTENDS PromiseDoor, TLC

(* Invoices and requests are interchangeable. *)
Symmetry == Permutations(Invoices) \cup Permutations(Threads)
=============================================================================
