----------------------------- MODULE MCLibrary -----------------------------
(* The instance of Library that TLC checks. *)
EXTENDS Library, TLC

\* malloc may return any block.
Symmetry == Permutations(Block)
=============================================================================
