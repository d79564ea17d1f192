------------------------------- MODULE MCHash -------------------------------
(* The instance of Hash that TLC checks. *)
EXTENDS Hash, TLC

CONSTANTS k1, k2, k3, p1, q1, p2, p3

\* Two pointers lead to the first key.  Its hash and the second key's agree in
\* all reductions to one bit, and the third key's has all bits of one group.
Keys == {k1, k2, k3}
Ptrs == {p1, q1, p2, p3}
KeyOfPtr == p1 :> k1 @@ q1 :> k1 @@ p2 :> k2 @@ p3 :> k3
HashOfKey == k1 :> {0} @@ k2 :> {1} @@ k3 :> {0, 1, 2}

\* Nothing tells the values apart, nor the two pointers to the first key.
Symmetry == Permutations(Val) \cup Permutations({p1, q1})
=============================================================================
