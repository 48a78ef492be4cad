-------------------------- MODULE MCOrderExecution --------------------------
(* Instances of OrderExecution for TLC. *)
EXTENDS OrderExecution, TLC

CONSTANTS o1, o2

\* Orders are interchangeable.
OrderSymmetry == Permutations(Order)
=============================================================================
