------------------------------- MODULE MCPot -------------------------------
(* The instances of Pot that TLC checks. *)
EXTENDS Pot

\* A value that is less than what zeroed memory holds, and one that is not.
AroundZero == {-1, 1}
=============================================================================
