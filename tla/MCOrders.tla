------------------------------- MODULE MCOrders -------------------------------
(* Model-checking instance of Orders. *)
EXTENDS Orders, TLC

Symmetry == Permutations(Validators) \cup Permutations(Orders) \cup Permutations(Certs)
=============================================================================
