------------------------------ MODULE MCQueue ------------------------------
(* The instances of Queue that TLC checks. *)
EXTENDS Queue, TLC

\* The specification treats all threads, and all data, alike.
Symmetric == Permutations(Thread) \cup Permutations(Data)
=============================================================================
