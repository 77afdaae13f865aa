---------------------------- MODULE MCMasteryFold ----------------------------
(* TLC instances of MasteryFold. *)
EXTENDS MasteryFold, TLC

Symmetry == Permutations(Readers) \cup Permutations(Writers)
=============================================================================
