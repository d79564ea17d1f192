----------------------------- MODULE MCBintree -----------------------------
(* The instances of Bintree that TLC checks. *)
EXTENDS Bintree, TLC

CONSTANTS p1, q1, p2, p3, p4

\* Two pointers lead to the first key.  An int of the instance holds -4..3, and
\* so do all differences of these keys.
Keys == {0, 1, 2, 3}
Ptrs == {p1, q1, p2, p3, p4}
KeyOfPtr == p1 :> 0 @@ q1 :> 0 @@ p2 :> 1 @@ p3 :> 2 @@ p4 :> 3

\* Keys so far apart that an int does not hold their difference.
WideKeys == {0, 8}
WidePtrs == {p1, p2}
WideKeyOfPtr == p1 :> 0 @@ p2 :> 8

\* Nothing tells the values apart.
Symmetry == Permutations(Val)
=============================================================================
