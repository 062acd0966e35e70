---------------------------- MODULE MCSettlement ----------------------------
(* Instances of Settlement small enough for TLC. *)
EXTENDS Settlement, TLC

CONSTANTS i1, i2, h1, h2, t1, t2

(* Every order is over half of the invoice, or over half or all of it. *)
Halves    == [o \in Orders |-> {1}]
HalfOrAll == [o \in Orders |-> {1, 2}]

(* One order is over half of it, the others over half or all. *)
HalfAndAny == [HalfOrAll EXCEPT ![CHOOSE o \in Orders : TRUE] = {1}]

(* Everything in one process. *)
OneProcess == [p \in Requests |-> i1]

(* One webhook and one route in each of two processes. *)
TwoProcesses == [p \in Requests |-> IF p \in {h1, t1} THEN i1 ELSE i2]

(* Deliveries in one process, the debtor's routes in another. *)
RoutesElsewhere == [p \in Requests |-> IF p \in Hooks THEN i1 ELSE i2]

(* Sound with OneProcess and RoutesElsewhere, where hooks and threads are interchangeable. *)
Symmetry == Permutations(Orders) \cup Permutations(Hooks) \cup Permutations(Threads)
=============================================================================
