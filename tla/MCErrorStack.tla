---------------------------- MODULE MCErrorStack ----------------------------
(* The instance of ErrorStack that TLC checks. *)
EXTENDS ErrorStack, TLC

\* malloc may return any node.
Symmetry == Permutations(Node)
=============================================================================
