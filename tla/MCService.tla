----------------------------- MODULE MCService -----------------------------
(* The instances of Service that TLC checks. *)
EXTENDS Service
=============================================================================
