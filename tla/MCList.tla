------------------------------- MODULE MCList -------------------------------
(* The instance of List that TLC checks. *)
EXTENDS List
=============================================================================
