------------------------------ MODULE MCTargets ------------------------------
(* Model-checking instance of Targets. *)
EXTENDS Targets, TLC

Symmetry == Permutations(Targets) \cup Permutations(Calls)
=============================================================================
