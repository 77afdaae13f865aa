------------------------------ MODULE MCBilling ------------------------------
(* TLC instances of Billing. *)
EXTENDS Billing, TLC

Symmetry == Permutations(Refs) \cup Permutations(Handlers)
=============================================================================
