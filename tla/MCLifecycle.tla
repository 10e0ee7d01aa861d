----------------------------- MODULE MCLifecycle -----------------------------
(* Model-checking instance of Lifecycle. *)
EXTENDS Lifecycle, TLC

Symmetry == Permutations(Orders) \cup Permutations(Revokers) \cup Permutations(Certs)
=============================================================================
