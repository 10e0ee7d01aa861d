--------------------------- MODULE MCRenewalEngine ---------------------------
(* Model-checking instance of RenewalEngine. *)
EXTENDS RenewalEngine

MCSettings == {{1, 3}, {0, 2, 3}}
=============================================================================
