----------------------------- MODULE MCPaperCache -----------------------------
(* Instances of PaperCache for TLC. *)
EXTENDS PaperCache, TLC

RequestSymmetry == Permutations(Requests)
=============================================================================
