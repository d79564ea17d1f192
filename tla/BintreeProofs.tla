--------------------------- MODULE BintreeProofs ---------------------------
(***************************************************************************)
(* Proofs about the search tree, for any nodes, keys and values, when the  *)
(* differences of the keys fit an int.                                     *)
(***************************************************************************)
EXTENDS Bintree, FiniteSetTheorems, SequenceTheorems, WellFoundedInduction, TLAPS

-----------------------------------------------------------------------------
(* Graphs: K[n] is the set of the children of n.  What can be reached from n *)
(* is the smallest set with n that is closed under them.                     *)

IsGraph(K) == \A n \in DOMAIN K : K[n] \subseteq DOMAIN K
Closed(K, S) == \A n \in S : K[n] \subseteq S
Reach(K, n) == {m \in DOMAIN K : \A S \in SUBSET DOMAIN K : n \in S /\ Closed(K, S) => m \in S}

LEMMA ReachSelf ==
    ASSUME NEW K, NEW n \in DOMAIN K
    PROVE  n \in Reach(K, n)
BY DEF Reach

LEMMA ReachWithin ==
    ASSUME NEW K, NEW n, NEW S \in SUBSET DOMAIN K, n \in S, Closed(K, S)
    PROVE  Reach(K, n) \subseteq S
BY DEF Reach

LEMMA ReachIn ==
    ASSUME NEW K, NEW n
    PROVE  Reach(K, n) \subseteq DOMAIN K
BY DEF Reach

LEMMA ReachClosed ==
    ASSUME NEW K, IsGraph(K), NEW n
    PROVE  Closed(K, Reach(K, n))
<1> SUFFICES ASSUME NEW m \in Reach(K, n), NEW c \in K[m] PROVE c \in Reach(K, n)
  BY DEF Closed
<1>1. m \in DOMAIN K /\ c \in DOMAIN K
  BY ReachIn DEF IsGraph
<1>2. ASSUME NEW S \in SUBSET DOMAIN K, n \in S, Closed(K, S) PROVE c \in S
  BY <1>2 DEF Reach, Closed
<1>. QED  BY <1>1, <1>2 DEF Reach

LEMMA ReachTrans ==
    ASSUME NEW K, IsGraph(K), NEW n, NEW m \in Reach(K, n)
    PROVE  Reach(K, m) \subseteq Reach(K, n)
BY ReachClosed, ReachIn, ReachWithin

\* What is reached is the node or has a parent that is reached.
LEMMA ReachLast ==
    ASSUME NEW K, IsGraph(K), NEW n \in DOMAIN K, NEW m \in Reach(K, n), m # n
    PROVE  \E p \in Reach(K, n) : m \in K[p]
<1> DEFINE S == {n} \cup UNION {K[p] : p \in Reach(K, n)}
<1>1. S \subseteq Reach(K, n)
  BY ReachClosed, ReachSelf DEF Closed
<1>2. Closed(K, S)
  BY <1>1 DEF Closed
<1>3. Reach(K, n) \subseteq S
  <2>1. S \in SUBSET DOMAIN K /\ n \in S
    BY <1>1, ReachIn
  <2> HIDE DEF S
  <2>. QED  BY <2>1, <1>2, ReachWithin
<1>. QED  BY <1>3

\* The node, or what its children reach.
LEMMA ReachStep ==
    ASSUME NEW K, IsGraph(K), NEW n \in DOMAIN K
    PROVE  Reach(K, n) = {n} \cup UNION {Reach(K, c) : c \in K[n]}
<1> DEFINE S == {n} \cup UNION {Reach(K, c) : c \in K[n]}
<1>1. S \subseteq Reach(K, n)
  <2>1. \A c \in K[n] : c \in Reach(K, n)
    BY ReachClosed, ReachSelf DEF Closed
  <2>. QED  BY <2>1, ReachTrans, ReachSelf
<1>2. Closed(K, S)
  <2> SUFFICES ASSUME NEW m \in S, NEW d \in K[m] PROVE d \in S
    BY DEF Closed
  <2>1. CASE m = n
    BY <2>1, ReachSelf DEF IsGraph
  <2>2. CASE m # n
    <3>1. PICK c \in K[n] : m \in Reach(K, c)
      BY <2>2
    <3>. QED  BY <3>1, ReachClosed DEF Closed
  <2>. QED  BY <2>1, <2>2
<1>3. S \in SUBSET DOMAIN K /\ n \in S
  BY <1>1, ReachIn
<1> HIDE DEF S
<1>4. Reach(K, n) \subseteq S
  BY <1>2, <1>3, ReachWithin
<1>5. Reach(K, n) = S
  BY <1>1, <1>4
<1>. QED  BY <1>5 DEF S

\* Where each node has one parent, of two nodes that reach a third one reaches
\* the other.
LEMMA ReachFork ==
    ASSUME NEW K, IsGraph(K),
           \A p, q \in DOMAIN K : \A c \in K[p] : c \in K[q] => p = q,
           NEW a \in DOMAIN K, NEW b \in DOMAIN K,
           NEW x \in Reach(K, a), x \in Reach(K, b)
    PROVE  a \in Reach(K, b) \/ b \in Reach(K, a)
<1> SUFFICES ASSUME a \notin Reach(K, b), b \notin Reach(K, a) PROVE FALSE
  OBVIOUS
<1> DEFINE S == Reach(K, a) \ Reach(K, b)
<1>1. S \in SUBSET DOMAIN K /\ a \in S
  BY ReachIn, ReachSelf
<1>2. Closed(K, S)
  <2> SUFFICES ASSUME NEW y \in S, NEW c \in K[y], c \in Reach(K, b) PROVE FALSE
    BY ReachClosed DEF Closed
  <2>1. c \in Reach(K, a)
    BY ReachClosed DEF Closed
  <2>2. PICK p \in Reach(K, b) : c \in K[p]
    BY <2>1, ReachLast
  <2>3. p = y
    BY <2>2, ReachIn
  <2>. QED  BY <2>2, <2>3
<1> HIDE DEF S
<1>3. Reach(K, a) \subseteq S
  BY <1>1, <1>2, ReachWithin
<1>. QED  BY <1>3 DEF S

\* A new node without children.
LEMMA ReachNewNode ==
    ASSUME NEW K, IsGraph(K), NEW J, NEW b, b \notin DOMAIN K,
           DOMAIN J = DOMAIN K \cup {b}, J[b] = {}, \A n \in DOMAIN K : J[n] = K[n]
    PROVE  /\ IsGraph(J)
           /\ \A n \in DOMAIN K : Reach(J, n) = Reach(K, n)
<1>1. IsGraph(J)
  BY DEF IsGraph
<1>2. ASSUME NEW n \in DOMAIN K PROVE Reach(J, n) = Reach(K, n)
  <2>1. Closed(J, Reach(K, n)) /\ Reach(K, n) \in SUBSET DOMAIN J
    BY ReachClosed, ReachIn DEF Closed
  <2>2. Reach(J, n) \subseteq Reach(K, n)
    BY <2>1, ReachSelf, ReachWithin
  <2>3. Closed(K, Reach(J, n)) /\ Reach(J, n) \in SUBSET DOMAIN K
    BY <1>1, <2>2, ReachClosed, ReachIn DEF Closed
  <2>4. Reach(K, n) \subseteq Reach(J, n)
    BY <2>3, ReachSelf, ReachWithin
  <2>. QED  BY <2>2, <2>4
<1>. QED  BY <1>1, <1>2

\* One more child: b of a.
LEMMA ReachNewChild ==
    ASSUME NEW K, IsGraph(K), NEW J, NEW a \in DOMAIN K, NEW b \in DOMAIN K,
           DOMAIN J = DOMAIN K, J[a] = K[a] \cup {b},
           \A n \in DOMAIN K \ {a} : J[n] = K[n]
    PROVE  /\ IsGraph(J)
           /\ \A n \in DOMAIN K :
                 Reach(J, n) = Reach(K, n) \cup IF a \in Reach(K, n) THEN Reach(K, b) ELSE {}
<1>1. IsGraph(J)
  BY DEF IsGraph
<1>2. \A n \in DOMAIN K : Reach(K, n) \subseteq Reach(J, n)
  <2> SUFFICES ASSUME NEW n \in DOMAIN K PROVE Reach(K, n) \subseteq Reach(J, n)
    OBVIOUS
  <2>1. \A m \in DOMAIN K : K[m] \subseteq J[m]
    OBVIOUS
  <2>2. Closed(K, Reach(J, n)) /\ Reach(J, n) \in SUBSET DOMAIN K
    BY <1>1, <2>1, ReachClosed, ReachIn DEF Closed
  <2>. QED  BY <2>2, ReachSelf, ReachWithin
<1>3. ASSUME NEW n \in DOMAIN K
      PROVE  Reach(J, n) = Reach(K, n) \cup IF a \in Reach(K, n) THEN Reach(K, b) ELSE {}
  <2> DEFINE S == Reach(K, n) \cup IF a \in Reach(K, n) THEN Reach(K, b) ELSE {}
  <2>1. S \in SUBSET DOMAIN J /\ n \in S
    BY ReachIn, ReachSelf
  <2>2. Closed(J, S)
    <3> SUFFICES ASSUME NEW m \in S, NEW c \in J[m] PROVE c \in S
      BY DEF Closed
    <3>1. m \in DOMAIN K
      BY <2>1
    <3>2. CASE c \in K[m]
      BY <3>2, ReachClosed DEF Closed
    <3>3. CASE c \notin K[m]
      <4>1. m = a /\ c = b
        BY <3>1, <3>3
      <4>2. CASE a \in Reach(K, n)
        BY <4>1, <4>2, ReachSelf
      <4>3. CASE a \notin Reach(K, n)
        BY <4>1, <4>3
      <4>. QED  BY <4>2, <4>3
    <3>. QED  BY <3>2, <3>3
  <2>3. S \subseteq Reach(J, n)
    <3>1. CASE a \in Reach(K, n)
      <4>1. a \in Reach(J, n)
        BY <1>2, <3>1
      <4>2. b \in Reach(J, n)
        BY <1>1, <4>1, ReachClosed DEF Closed
      <4>3. Reach(J, b) \subseteq Reach(J, n)
        BY <1>1, <4>2, ReachTrans
      <4>. QED  BY <1>2, <4>3
    <3>2. CASE a \notin Reach(K, n)
      BY <1>2, <3>2
    <3>. QED  BY <3>1, <3>2
  <2> HIDE DEF S
  <2>4. Reach(J, n) \subseteq S
    BY <2>1, <2>2, ReachWithin
  <2>5. Reach(J, n) = S
    BY <2>3, <2>4
  <2>. QED  BY <2>5 DEF S
<1>. QED  BY <1>1, <1>3

\* Node g is left out, and its parents get the children C of g instead, which
\* reach all that g does but g.
LEMMA ReachWithout ==
    ASSUME NEW K, IsGraph(K), NEW J, NEW g \in DOMAIN K, NEW C \in SUBSET K[g],
           DOMAIN J = DOMAIN K \ {g},
           \A n \in DOMAIN J : J[n] = (K[n] \ {g}) \cup IF g \in K[n] THEN C ELSE {},
           Reach(K, g) = {g} \cup UNION {Reach(K, c) : c \in C},
           \A c \in K[g] : g \notin Reach(K, c)
    PROVE  /\ IsGraph(J)
           /\ \A n \in DOMAIN J : Reach(J, n) = Reach(K, n) \ {g}
<1>1. C \subseteq DOMAIN J
  <2>1. \A c \in K[g] : c \in DOMAIN K /\ c # g
    BY ReachSelf DEF IsGraph
  <2>. QED  BY <2>1
<1>2. IsGraph(J)
  BY <1>1 DEF IsGraph
<1>3. ASSUME NEW n \in DOMAIN J PROVE Reach(J, n) \subseteq Reach(K, n) \ {g}
  <2> DEFINE S == Reach(K, n) \ {g}
  <2>1. S \in SUBSET DOMAIN J /\ n \in S
    BY ReachIn, ReachSelf
  <2>2. Closed(J, S)
    <3> SUFFICES ASSUME NEW m \in S, NEW c \in J[m] PROVE c \in S
      BY DEF Closed
    <3>1. m \in DOMAIN J
      BY <2>1
    <3>2. CASE c \in K[m] \ {g}
      BY <3>2, ReachClosed DEF Closed
    <3>3. CASE c \notin K[m] \ {g}
      <4>1. g \in K[m] /\ c \in C
        BY <3>1, <3>3
      <4>2. g \in Reach(K, n)
        BY <4>1, ReachClosed DEF Closed
      <4>3. c \in Reach(K, n)
        BY <4>1, <4>2, ReachClosed DEF Closed
      <4>. QED  BY <4>1, <4>3, <1>1
    <3>. QED  BY <3>2, <3>3
  <2> HIDE DEF S
  <2>3. Reach(J, n) \subseteq S
    BY <2>1, <2>2, ReachWithin
  <2>. QED  BY <2>3 DEF S
<1>4. ASSUME NEW n \in DOMAIN J, g \notin Reach(K, n) PROVE Reach(K, n) \subseteq Reach(J, n)
  <2>1. Closed(K, Reach(J, n))
    <3> SUFFICES ASSUME NEW m \in Reach(J, n), NEW c \in K[m] PROVE c \in Reach(J, n)
      BY DEF Closed
    <3>1. m \in Reach(K, n) /\ m \in DOMAIN J
      BY <1>3, ReachIn
    <3>2. c # g
      BY <1>4, <3>1, ReachClosed DEF Closed
    <3>3. c \in J[m]
      BY <3>1, <3>2
    <3>. QED  BY <3>3, <1>2, ReachClosed DEF Closed
  <2>2. Reach(J, n) \in SUBSET DOMAIN K /\ n \in Reach(J, n)
    BY ReachIn, ReachSelf
  <2>. QED  BY <2>1, <2>2, ReachWithin
<1>5. ASSUME NEW n \in DOMAIN J PROVE Reach(K, n) \ {g} \subseteq Reach(J, n)
  <2> DEFINE S == Reach(J, n) \cup
                  IF \E m \in Reach(J, n) : g \in K[m]
                  THEN {g} \cup UNION {Reach(K, c) : c \in C} ELSE {}
  <2>1. S \subseteq Reach(J, n) \cup {g}
    <3> SUFFICES ASSUME NEW m \in Reach(J, n), g \in K[m], NEW c \in C
                 PROVE  Reach(K, c) \subseteq Reach(J, n)
      OBVIOUS
    <3>1. m \in DOMAIN J
      BY ReachIn
    <3>2. c \in Reach(J, n)
      BY <3>1, <1>2, ReachClosed DEF Closed
    <3>3. Reach(J, c) \subseteq Reach(J, n)
      BY <3>2, <1>2, ReachTrans
    <3>. QED  BY <3>3, <1>1, <1>4
  <2>2. S \in SUBSET DOMAIN K /\ n \in S
    BY <2>1, ReachIn, ReachSelf
  <2>3. Closed(K, S)
    <3> SUFFICES ASSUME NEW m \in S, NEW c \in K[m] PROVE c \in S
      BY DEF Closed
    <3>1. CASE m \in Reach(J, n) /\ c # g
      <4>1. c \in J[m]
        BY <3>1, ReachIn
      <4>. QED  BY <4>1, <3>1, <1>2, ReachClosed DEF Closed
    <3>2. CASE m \in Reach(J, n) /\ c = g
      BY <3>2
    <3>3. CASE m \notin Reach(J, n)
      <4>1. m = g
        BY <2>1, <3>3
      <4>2. c \in Reach(K, g)
        BY <4>1, ReachSelf, ReachClosed DEF Closed
      <4>. QED  BY <4>2, <3>3
    <3>. QED  BY <3>1, <3>2, <3>3
  <2>4. Reach(K, n) \subseteq S
    <3> HIDE DEF S
    <3>. QED  BY <2>2, <2>3, ReachWithin
  <2>. QED  BY <2>1, <2>4
<1>6. \A n \in DOMAIN J : Reach(J, n) = Reach(K, n) \ {g}
  BY <1>3, <1>5
<1>. QED  BY <1>2, <1>6
-----------------------------------------------------------------------------
(* The tree as a graph. *)

Kids == [n \in DOMAIN nodes |-> Children(n)]
Under(n) == IF n = NULL THEN {} ELSE Reach(Kids, n)

Acyclic(K) == \A n \in DOMAIN K : \A c \in K[n] : n \notin Reach(K, c)

LEMMA SameUnion ==
    ASSUME NEW K, NEW g, NEW A, \A c \in A : g[c] = Reach(K, c)
    PROVE  UNION {g[c] : c \in A} = UNION {Reach(K, c) : c \in A}
OBVIOUS

\* A function like Below's is what can be reached.
LEMMA BelowUnique ==
    ASSUME NEW K, IsGraph(K), IsFiniteSet(DOMAIN K), Acyclic(K),
           NEW g, \A m \in DOMAIN K : g[m] = {m} \cup UNION {g[c] : c \in K[m]}
    PROVE  \A m \in DOMAIN K : g[m] = Reach(K, m)
<1> DEFINE D == DOMAIN K
           Bad == {m \in D : g[m] # Reach(K, m)}
           T == {Reach(K, m) : m \in Bad}
<1> SUFFICES ASSUME Bad # {} PROVE FALSE
  OBVIOUS
<1>1. T \subseteq FiniteSubsetsOf(D) /\ T # {}
  <2>1. \A m \in Bad : Reach(K, m) \in SUBSET D
    BY ReachIn
  <2>2. \A m \in Bad : IsFiniteSet(Reach(K, m))
    BY <2>1, FS_Subset
  <2>. QED  BY <2>1, <2>2 DEF FiniteSubsetsOf
<1>2. IsWellFoundedOn(StrictSubsetOrdering(D), FiniteSubsetsOf(D))
  BY FS_StrictSubsetOrderingWellFounded
<1>3. PICK x \in T : \A y \in T : ~ (<<y, x>> \in StrictSubsetOrdering(D))
  <2> HIDE DEF T
  <2>. QED  BY <1>1, <1>2, WFMin
<1>4. PICK m \in Bad : x = Reach(K, m)
  OBVIOUS
<1>5. ASSUME NEW c \in K[m] PROVE g[c] = Reach(K, c)
  <2>1. c \in D
    BY DEF IsGraph
  <2>2. c \in Reach(K, m)
    BY ReachSelf, ReachClosed DEF Closed
  <2>3. Reach(K, c) \subseteq Reach(K, m)
    BY <2>2, ReachTrans
  <2>4. m \in Reach(K, m) /\ m \notin Reach(K, c)
    BY ReachSelf DEF Acyclic
  <2>5. Reach(K, c) \in SUBSET D /\ Reach(K, m) \in SUBSET D
    BY ReachIn
  <2>6. <<Reach(K, c), Reach(K, m)>> \in StrictSubsetOrdering(D)
    BY <2>3, <2>4, <2>5 DEF StrictSubsetOrdering
  <2>7. c \notin Bad
    BY <2>6, <1>3, <1>4
  <2>. QED  BY <2>1, <2>7
<1>6. g[m] = {m} \cup UNION {g[c] : c \in K[m]}
  OBVIOUS
<1>7. UNION {g[c] : c \in K[m]} = UNION {Reach(K, c) : c \in K[m]}
  BY <1>5, SameUnion
<1>8. m \in D /\ g[m] # Reach(K, m)
  OBVIOUS
<1>9. Reach(K, m) = {m} \cup UNION {Reach(K, c) : c \in K[m]}
  BY <1>8, ReachStep
<1>. QED  BY <1>6, <1>7, <1>8, <1>9

LEMMA BelowIsUnder ==
    ASSUME IsGraph(Kids), IsFiniteSet(DOMAIN nodes), Acyclic(Kids), NEW n \in DOMAIN nodes \cup {NULL}
    PROVE  Below(n) = Under(n)
<1> DEFINE K == Kids
           Like(g) == g = [m \in DOMAIN nodes |-> {m} \cup UNION {g[c] : c \in Children(m)}]
           f == CHOOSE g : Like(g)
           R == [m \in DOMAIN nodes |-> Reach(K, m)]
<1>1. DOMAIN K = DOMAIN nodes /\ \A m \in DOMAIN nodes : K[m] = Children(m)
  BY DEF Kids
<1>2. Like(R)
  <2> SUFFICES ASSUME NEW m \in DOMAIN nodes
               PROVE  R[m] = {m} \cup UNION {R[c] : c \in Children(m)}
    OBVIOUS
  <2>1. \A c \in Children(m) : R[c] = Reach(K, c)
    BY <1>1 DEF IsGraph
  <2>2. Reach(K, m) = {m} \cup UNION {Reach(K, c) : c \in K[m]}
    BY <1>1, ReachStep
  <2>3. UNION {R[c] : c \in Children(m)} = UNION {Reach(K, c) : c \in K[m]}
    BY <1>1, <2>1
  <2>4. R[m] = Reach(K, m)
    OBVIOUS
  <2> HIDE DEF R
  <2>. QED  BY <2>2, <2>3, <2>4
<1>3. Like(f)
  <2> HIDE DEF Like
  <2>. QED  BY <1>2
<1>4. \A m \in DOMAIN K : f[m] = {m} \cup UNION {f[c] : c \in K[m]}
  <2> HIDE DEF f
  <2>. QED  BY <1>1, <1>3
<1>5. \A m \in DOMAIN nodes : f[m] = Reach(Kids, m)
  <2> HIDE DEF f
  <2>. QED  BY <1>1, <1>4, BelowUnique
<1>6. CASE n = NULL
  BY <1>6 DEF Below, Under
<1>7. CASE n # NULL
  <2>1. Below(n) = f[n]
    BY <1>7 DEF Below
  <2> HIDE DEF f
  <2>. QED  BY <2>1, <1>5, <1>7 DEF Under
<1>. QED  BY <1>6, <1>7

-----------------------------------------------------------------------------
(* The inductive invariant. *)

Sides == {"left", "right"}

\* Keys that lie so close together that an int holds the difference of any two.
Fits == \A a, b \in Key : a - b \in -Half..(Half - 1)

Shape ==
    /\ pc \in {"idle", "put", "merge", "search", "unlink"}
    /\ DOMAIN nodes \subseteq Node
    /\ IsFiniteSet(DOMAIN nodes)
    /\ nodes \in [DOMAIN nodes -> Field]
    /\ \A n \in DOMAIN nodes : \A s \in Sides : nodes[n][s] \in DOMAIN nodes \cup {NULL}
    /\ root \in DOMAIN nodes \cup {NULL}
    /\ \A n \in DOMAIN nodes : nodes[n].val = NULL <=> n = Gone

\* The arguments and local variables of the calls.
Calls ==
    /\ slot = RootSlot \/ slot \in (DOMAIN nodes) \X Sides
    /\ held \in Val \cup {NULL}
    /\ pc \in {"idle", "put"} => slot = RootSlot
    /\ pc \in {"idle", "put", "search"} => held = NULL
    /\ pc = "put" => /\ new \in DOMAIN nodes
                     /\ at \in DOMAIN nodes \ {new}
                     /\ op = <<"put", KeyAt(new), nodes[new].val>>
    /\ pc = "search" => op \in {"get", "remove", "delete"} \X Key
    /\ pc \in {"merge", "unlink"} => /\ op \in {"remove", "delete"} \X Key
                                     /\ Cur \in DOMAIN nodes
                                     /\ KeyAt(Cur) = op[2]
                                     /\ held # NULL

\* Field s of p points to n.
Hangs(n, p, s) == nodes[p][s] = n /\ ~(pc = "unlink" /\ p = Gone)
Loose(n) == \A p \in DOMAIN nodes : \A s \in Sides : ~Hangs(n, p, s)

Hung ==
    /\ \A n, p, q \in DOMAIN nodes : \A s, t \in Sides :
          Hangs(n, p, s) /\ Hangs(n, q, t) => p = q /\ s = t
    /\ root # NULL => Loose(root)
    /\ pc = "put" => Loose(new) /\ Children(new) = {}

Whole == Under(root) = InTree

Sorted == \A n \in InTree : ~(pc = "unlink" /\ n = Gone) =>
    /\ \A m \in Under(nodes[n].left) : KeyAt(n) < KeyAt(m)
    /\ \A m \in Under(nodes[n].right) : KeyAt(m) < KeyAt(n)

Distinct == \A m, n \in InTree : KeyAt(m) = KeyAt(n) => m = n

\* A node with the new key is under at, and the new key fits under at.
Putting == pc = "put" =>
    /\ \A n \in InTree : KeyAt(n) = KeyAt(new) => n \in Under(at)
    /\ \A n \in InTree : /\ at \in Under(nodes[n].left) => KeyAt(n) < KeyAt(new)
                         /\ at \in Under(nodes[n].right) => KeyAt(new) < KeyAt(n)

\* A node with the key is under the one where the search is.
Seeking == pc = "search" => \A n \in InTree : KeyAt(n) = op[2] => n \in Under(Cur)

\* at has come from the left subtree of the node to the right only.
Merging == pc = "merge" =>
    /\ new = nodes[Gone].right
    /\ new # NULL
    /\ at \in Under(nodes[Gone].left)
    /\ \A n \in Under(nodes[Gone].left) : at \notin Under(nodes[n].left)

\* The child that will replace the node, and the nodes that will follow it.
Child == IF nodes[Gone].left # NULL THEN nodes[Gone].left ELSE nodes[Gone].right
Unlinking == pc = "unlink" =>
    /\ Child # NULL => Loose(Child)
    /\ Under(Gone) = {Gone} \cup Under(Child)

IInv ==
    /\ Shape
    /\ Calls
    /\ Hung
    /\ Acyclic(Kids)
    /\ Whole
    /\ Sorted
    /\ Distinct
    /\ Putting
    /\ Seeking
    /\ Merging
    /\ Unlinking

-----------------------------------------------------------------------------
(* Comparisons. *)

LEMMA SmallMod ==
    ASSUME NEW w \in Nat, NEW i \in Int, 0 <= i, i < w
    PROVE  i % w = i
OBVIOUS

LEMMA CmpExact ==
    ASSUME Fits, NEW a \in Key, NEW b \in Key
    PROVE  /\ a \in Int /\ b \in Int
           /\ cmp(a, b) = a - b
<1>1. a \in Int /\ b \in Int /\ Half \in Nat
  BY KeyAssumption, HalfAssumption
<1>2. -Half <= a - b /\ a - b <= Half - 1
  BY <1>1 DEF Fits
<1> DEFINE i == a - b + Half
           w == 2 * Half
<1>3. i \in Int /\ w \in Nat /\ 0 <= i /\ i < w
  BY <1>1, <1>2
<1>4. i % w = i
  <2> HIDE DEF i, w
  <2>. QED  BY <1>3, SmallMod
<1>. QED  BY <1>1, <1>4 DEF cmp

LEMMA KeyAtType ==
    ASSUME Shape, NEW n \in DOMAIN nodes
    PROVE  KeyAt(n) \in Key /\ KeyAt(n) \in Int
BY KeyAssumption DEF Shape, Field, KeyAt

LEMMA SideIs ==
    ASSUME Fits, Shape, NEW n \in DOMAIN nodes, NEW k \in Key
    PROVE  /\ cmp(KeyAt(n), k) = 0 <=> KeyAt(n) = k
           /\ KeyAt(n) < k => Side(n, k) = "left"
           /\ ~(KeyAt(n) < k) => Side(n, k) = "right"
<1>1. KeyAt(n) \in Key /\ KeyAt(n) \in Int /\ k \in Int
  BY KeyAtType, KeyAssumption
<1>2. cmp(KeyAt(n), k) = KeyAt(n) - k
  BY <1>1, CmpExact
<1>. QED  BY <1>1, <1>2 DEF Side

-----------------------------------------------------------------------------
(* The tree as a graph, and the invariant. *)

LEMMA KidsGraph ==
    ASSUME Shape
    PROVE  /\ DOMAIN Kids = DOMAIN nodes
           /\ \A n \in DOMAIN nodes : Kids[n] = Children(n)
           /\ IsGraph(Kids)
<1>1. DOMAIN Kids = DOMAIN nodes /\ \A n \in DOMAIN nodes : Kids[n] = Children(n)
  BY DEF Kids
<1>2. \A n \in DOMAIN nodes : Children(n) \subseteq DOMAIN nodes
  BY DEF Shape, Children, Sides
<1>. QED  BY <1>1, <1>2 DEF IsGraph

LEMMA InvBelow ==
    ASSUME IInv, NEW n \in DOMAIN nodes \cup {NULL}
    PROVE  Below(n) = Under(n)
BY KidsGraph, BelowIsUnder DEF IInv, Shape

LEMMA NullIsNoNode ==
    ASSUME Shape
    PROVE  NULL \notin DOMAIN nodes
BY NullAssumption DEF Shape

\* What Under is made of.
LEMMA UnderSelf ==
    ASSUME Shape, NEW n \in DOMAIN nodes
    PROVE  n \in Under(n) /\ Under(n) \subseteq DOMAIN nodes
BY KidsGraph, ReachSelf, ReachIn, NullIsNoNode DEF Under

LEMMA UnderIn ==
    ASSUME Shape, NEW n
    PROVE  Under(n) \subseteq DOMAIN nodes
BY KidsGraph, ReachIn DEF Under

LEMMA UnderStep ==
    ASSUME Shape, NEW n \in DOMAIN nodes
    PROVE  Under(n) = {n} \cup Under(nodes[n].left) \cup Under(nodes[n].right)
<1>1. Reach(Kids, n) = {n} \cup UNION {Reach(Kids, c) : c \in Kids[n]}
  BY KidsGraph, ReachStep
<1>2. UNION {Reach(Kids, c) : c \in Children(n)} = Under(nodes[n].left) \cup Under(nodes[n].right)
  BY DEF Under, Children
<1>3. n # NULL /\ Kids[n] = Children(n)
  BY NullIsNoNode, KidsGraph
<1>. QED  BY <1>1, <1>2, <1>3 DEF Under

LEMMA UnderTrans ==
    ASSUME Shape, NEW n, NEW m \in Under(n)
    PROVE  Under(m) \subseteq Under(n)
<1>1. n # NULL /\ m \in Reach(Kids, n)
  BY DEF Under
<1>2. m # NULL
  BY UnderIn, NullIsNoNode
<1>. QED  BY <1>1, <1>2, KidsGraph, ReachTrans DEF Under

LEMMA UnderLast ==
    ASSUME Shape, NEW n \in DOMAIN nodes, NEW m \in Under(n), m # n
    PROVE  \E p \in Under(n) : \E s \in Sides : nodes[p][s] = m
<1>1. n # NULL /\ m \in Reach(Kids, n)
  BY DEF Under
<1>2. PICK p \in Reach(Kids, n) : m \in Kids[p]
  BY <1>1, KidsGraph, ReachLast
<1>3. p \in Under(n) /\ p \in DOMAIN nodes
  BY <1>1, <1>2, UnderIn DEF Under
<1>4. m \in Children(p)
  BY <1>2, <1>3, KidsGraph
<1>. QED  BY <1>3, <1>4 DEF Children, Sides

LEMMA UnderChild ==
    ASSUME Shape, NEW n \in DOMAIN nodes, NEW s \in Sides
    PROVE  /\ Under(nodes[n][s]) \subseteq Under(n)
           /\ nodes[n][s] # NULL => nodes[n][s] \in Under(n)
<1>1. CASE nodes[n][s] = NULL
  BY <1>1 DEF Under
<1>2. CASE nodes[n][s] # NULL
  <2>1. nodes[n][s] \in DOMAIN nodes
    BY <1>2 DEF Shape
  <2>2. Under(nodes[n][s]) \subseteq Under(n)
    BY UnderStep DEF Sides
  <2>. QED  BY <2>1, <2>2, UnderSelf
<1>. QED  BY <1>1, <1>2

LEMMA UnderAcyclic ==
    ASSUME Shape, Acyclic(Kids), NEW n \in DOMAIN nodes, NEW s \in Sides
    PROVE  n \notin Under(nodes[n][s])
<1>1. CASE nodes[n][s] = NULL
  BY <1>1 DEF Under
<1>2. CASE nodes[n][s] # NULL
  <2>1. nodes[n][s] \in Kids[n]
    BY <1>2, KidsGraph DEF Children, Sides
  <2>. QED  BY <2>1, <1>2, KidsGraph DEF Under, Acyclic
<1>. QED  BY <1>1, <1>2

\* Where every field holds, of two nodes above a third one is above the other.
LEMMA UnderFork ==
    ASSUME Shape, Hung, pc # "unlink", NEW a \in DOMAIN nodes, NEW b \in DOMAIN nodes,
           NEW x \in Under(a), x \in Under(b)
    PROVE  a \in Under(b) \/ b \in Under(a)
<1>1. /\ a # NULL /\ x \in Reach(Kids, a)
      /\ b # NULL /\ x \in Reach(Kids, b)
  BY DEF Under
<1>2. \A p, q \in DOMAIN Kids : \A c \in Kids[p] : c \in Kids[q] => p = q
  <2> SUFFICES ASSUME NEW p \in DOMAIN nodes, NEW q \in DOMAIN nodes,
                      NEW c \in Children(p), c \in Children(q)
               PROVE  p = q
    BY KidsGraph
  <2>1. c \in DOMAIN nodes
    BY KidsGraph DEF IsGraph
  <2>2. (\E s \in Sides : Hangs(c, p, s)) /\ (\E s \in Sides : Hangs(c, q, s))
    BY DEF Children, Hangs, Sides
  <2>. QED  BY <2>1, <2>2 DEF Hung
<1>. QED  BY <1>1, <1>2, KidsGraph, ReachFork DEF Under

-----------------------------------------------------------------------------
(* Steps that leave the fields as they are. *)

LEMMA SameKids ==
    ASSUME DOMAIN nodes' = DOMAIN nodes,
           \A n \in DOMAIN nodes : nodes'[n].left = nodes[n].left /\ nodes'[n].right = nodes[n].right
    PROVE  /\ Kids' = Kids
           /\ \A n : Under(n)' = Under(n)
<1>1. Kids' = Kids
  BY DEF Kids, Children
<1>. QED  BY <1>1 DEF Under

LEMMA InitIInv == Init => IInv
<1> SUFFICES ASSUME Init PROVE IInv
  OBVIOUS
<1>1. DOMAIN nodes = {} /\ root = NULL /\ pc = "idle" /\ slot = RootSlot /\ held = NULL
  BY DEF Init
<1>2. nodes \in [{} -> Field]
  BY DEF Init
<1>3. Shape
  BY <1>1, <1>2, FS_EmptySet DEF Shape
<1>4. Acyclic(Kids)
  BY <1>1 DEF Kids, Acyclic
<1>. QED  BY <1>1, <1>3, <1>4 DEF IInv, Calls, Hung, Whole, InTree, Under, Sorted, Distinct, Putting,
                               Seeking, Merging, Unlinking

\* Nothing happens to the tree between the calls and while they search.
LEMMA StillTree ==
    ASSUME IInv, pc \in {"idle", "search"}, pc' \in {"idle", "search"}, UNCHANGED <<nodes, root>>
    PROVE  /\ \A n : Under(n)' = Under(n)
           /\ InTree' = InTree /\ InTree = DOMAIN nodes
           /\ Shape' /\ Hung' /\ Acyclic(Kids)' /\ Whole' /\ Sorted' /\ Distinct'
<1>1. Kids' = Kids /\ \A n : Under(n)' = Under(n)
  BY SameKids
<1>2. Gone = NULL /\ Gone' = NULL /\ InTree' = InTree /\ InTree = DOMAIN nodes
  BY DEF Gone, InTree
<1>3. \A n, p, s : Hangs(n, p, s)' <=> Hangs(n, p, s)
  BY DEF Hangs
<1>4. Shape'
  BY <1>2 DEF IInv, Shape
<1>5. Hung'
  BY <1>3 DEF IInv, Hung, Loose
<1>6. Acyclic(Kids)' /\ Whole'
  BY <1>1, <1>2 DEF IInv, Whole, Acyclic
<1>7. Sorted' /\ Distinct'
  BY <1>1, <1>2 DEF IInv, Sorted, Distinct, KeyAt
<1>. QED  BY <1>1, <1>2, <1>4, <1>5, <1>6, <1>7

\* A call that returns with the tree as it was.
LEMMA ReturnIInv ==
    ASSUME IInv, pc \in {"idle", "search"}, NEW result, Done(result), UNCHANGED <<nodes, root>>
    PROVE  IInv'
<1>1. pc' = "idle" /\ slot' = RootSlot /\ held' = NULL
  BY DEF Done
<1>. QED  BY <1>1, StillTree DEF IInv, Calls, Putting, Seeking, Merging, Unlinking

LEMMA CallIInv ==
    ASSUME IInv, NEW k \in Key, NEW name \in {"get", "remove", "delete"}, Call(name, k)
    PROVE  IInv'
<1>1. pc = "idle" /\ pc' = "search" /\ op' = <<name, k>> /\ UNCHANGED <<nodes, root, slot, held>>
  BY DEF Call
<1>2. slot' = RootSlot /\ Cur' = root
  BY <1>1 DEF IInv, Calls, Cur
<1>3. Seeking'
  BY <1>1, <1>2, StillTree DEF IInv, Whole, Seeking
<1>4. Calls'
  BY <1>1, <1>2 DEF IInv, Calls
<1>. QED  BY <1>1, <1>3, <1>4, StillTree DEF IInv, Putting, Merging, Unlinking

\* Where the call is when it searches.
LEMMA CurIs ==
    ASSUME IInv, pc # "put"
    PROVE  Cur \in DOMAIN nodes \cup {NULL}
<1>1. CASE slot = RootSlot
  BY <1>1 DEF Cur, IInv, Shape
<1>2. CASE slot # RootSlot
  BY <1>2 DEF Cur, IInv, Shape, Calls
<1>. QED  BY <1>1, <1>2

LEMMA SearchDownIInv ==
    ASSUME Fits, IInv, SearchDown
    PROVE  IInv'
<1>1. /\ pc = "search" /\ pc' = "search" /\ UNCHANGED <<nodes, root, held, op>>
      /\ slot' = <<Cur, Side(Cur, op[2])>>
      /\ cmp(KeyAt(Cur), op[2]) # 0
      /\ Cur \in DOMAIN nodes
  BY CurIs DEF SearchDown, Searching, Match
<1>2. /\ \A n : Under(n)' = Under(n)
      /\ InTree' = InTree /\ InTree = DOMAIN nodes
      /\ Shape' /\ Hung' /\ Acyclic(Kids)' /\ Whole' /\ Sorted' /\ Distinct'
  BY <1>1, StillTree
<1>3. /\ slot' \in (DOMAIN nodes) \X Sides
      /\ Cur' = nodes[Cur][Side(Cur, op[2])]
  <2>1. Cur # NULL /\ Side(Cur, op[2]) \in Sides
    BY <1>1, NullIsNoNode DEF IInv, Side, Sides
  <2>2. slot' # RootSlot
    BY <1>1, <2>1 DEF RootSlot
  <2>. QED  BY <1>1, <2>1, <2>2 DEF Cur
<1>4. op[2] \in Key
  BY <1>1 DEF IInv, Calls
<1>5. Seeking'
  <2> SUFFICES ASSUME NEW n \in DOMAIN nodes, KeyAt(n) = op[2]
               PROVE  n \in Under(nodes[Cur][Side(Cur, op[2])])
    BY <1>1, <1>2, <1>3 DEF Seeking, KeyAt
  <2>1. n \in Under(Cur)
    BY <1>1, <1>2 DEF IInv, Seeking
  <2>2. n # Cur
    BY <1>1, <1>4, SideIs DEF IInv
  <2>3. n \in Under(nodes[Cur].left) \/ n \in Under(nodes[Cur].right)
    BY <1>1, <2>1, <2>2, UnderStep DEF IInv
  <2>4. KeyAt(n) \in Int /\ KeyAt(Cur) \in Int
    BY <1>1, KeyAtType DEF IInv
  <2>5. CASE n \in Under(nodes[Cur].left)
    <3>1. KeyAt(Cur) < op[2]
      BY <1>1, <1>2, <2>5 DEF IInv, Sorted
    <3>. QED  BY <1>1, <1>4, <2>5, <3>1, SideIs DEF IInv
  <2>6. CASE n \in Under(nodes[Cur].right)
    <3>1. ~(KeyAt(Cur) < op[2])
      BY <1>1, <1>2, <2>4, <2>6 DEF IInv, Sorted
    <3>. QED  BY <1>1, <1>4, <2>6, <3>1, SideIs DEF IInv
  <2>. QED  BY <2>3, <2>5, <2>6
<1>6. Calls'
  BY <1>1, <1>3 DEF IInv, Calls
<1>. QED  BY <1>1, <1>2, <1>5, <1>6 DEF IInv, Putting, Merging, Unlinking

-----------------------------------------------------------------------------
(* Puts. *)

LEMMA FreshNode ==
    ASSUME DOMAIN nodes \subseteq Node, Node # DOMAIN nodes, NEW p
    PROVE  Fresh(p) \in Node \ DOMAIN nodes
<1>1. \E n : n \in Node \ DOMAIN nodes
  OBVIOUS
<1>2. (CHOOSE n \in Node \ DOMAIN nodes : TRUE) \in Node \ DOMAIN nodes
  BY <1>1
<1>. QED  BY <1>2 DEF Fresh

LEMMA AllocNode ==
    ASSUME Shape, Acyclic(Kids), NEW n \in Node \ DOMAIN nodes,
           NEW p \in Ptr, NEW v \in Val, Alloc(n, p, v)
    PROVE  /\ DOMAIN nodes' = DOMAIN nodes \cup {n}
           /\ \A m \in DOMAIN nodes : nodes'[m] = nodes[m]
           /\ nodes'[n].left = NULL /\ nodes'[n].right = NULL
           /\ nodes'[n].key = p /\ nodes'[n].val = v
           /\ IsFiniteSet(DOMAIN nodes') /\ nodes' \in [DOMAIN nodes' -> Field]
           /\ \A m \in DOMAIN nodes \cup {NULL} : Under(m)' = Under(m)
           /\ Under(n)' = {n}
           /\ Acyclic(Kids)'
<1> DEFINE new_node == [left |-> NULL, right |-> NULL, key |-> p, val |-> v]
<1>1. new_node \in Field
  BY DEF Field
<1>2. /\ DOMAIN nodes' = DOMAIN nodes \cup {n}
      /\ \A m \in DOMAIN nodes : nodes'[m] = nodes[m]
      /\ nodes'[n] = new_node
  BY DEF Alloc
<1>3. nodes' \in [DOMAIN nodes' -> Field]
  <2>1. \A m \in DOMAIN nodes' : nodes'[m] \in Field
    <3> HIDE DEF new_node
    <3>. QED  BY <1>1, <1>2 DEF Shape
  <2>2. nodes' = [m \in DOMAIN nodes' |-> nodes'[m]]
    BY DEF Alloc
  <2> HIDE DEF new_node
  <2>. QED  BY <2>1, <2>2
<1>4. IsFiniteSet(DOMAIN nodes')
  BY <1>2, FS_AddElement DEF Shape
<1>5. /\ DOMAIN Kids' = DOMAIN nodes \cup {n}
      /\ \A m \in DOMAIN nodes : Kids'[m] = Kids[m]
      /\ Kids'[n] = {}
  BY <1>2 DEF Kids, Children
<1>6. /\ IsGraph(Kids')
      /\ \A m \in DOMAIN nodes : Reach(Kids', m) = Reach(Kids, m)
  BY <1>5, KidsGraph, ReachNewNode
<1>7. Reach(Kids', n) = {n}
  BY <1>5, <1>6, ReachStep
<1>8. n # NULL
  BY NullAssumption
<1>9. Acyclic(Kids)'
  <2> SUFFICES ASSUME NEW m \in DOMAIN Kids', NEW c \in Kids'[m] PROVE m \notin Reach(Kids', c)
    BY DEF Acyclic
  <2>1. m \in DOMAIN nodes /\ c \in Kids[m] /\ c \in DOMAIN nodes
    BY <1>5, KidsGraph DEF IsGraph
  <2>. QED  BY <2>1, <1>6, KidsGraph DEF Acyclic
<1>10. (\A m \in DOMAIN nodes \cup {NULL} : Under(m)' = Under(m)) /\ Under(n)' = {n}
  BY <1>6, <1>7, <1>8 DEF Under
<1>. QED  BY <1>2, <1>3, <1>4, <1>9, <1>10

LEMMA PutRootIInv ==
    ASSUME IInv, NEW p \in Ptr, NEW v \in Val, PutRoot(p, v)
    PROVE  IInv'
<1>1. /\ pc = "idle" /\ pc' = "idle" /\ root = NULL /\ root' = Fresh(p) /\ slot' = RootSlot /\ held' = NULL
      /\ Node # DOMAIN nodes /\ Alloc(Fresh(p), p, v)
  BY DEF PutRoot, MayPut, Done
<1>2. DOMAIN nodes = {}
  BY <1>1 DEF IInv, Whole, Under, InTree
<1>3. PICK n \in Node \ DOMAIN nodes : n = Fresh(p)
  BY <1>1, FreshNode DEF IInv, Shape
<1>4. /\ DOMAIN nodes' = {n}
      /\ nodes'[n].left = NULL /\ nodes'[n].right = NULL
      /\ nodes'[n].key = p /\ nodes'[n].val = v
      /\ IsFiniteSet(DOMAIN nodes') /\ nodes' \in [DOMAIN nodes' -> Field]
      /\ Under(n)' = {n}
      /\ Acyclic(Kids)'
  BY <1>1, <1>2, <1>3, AllocNode DEF IInv
<1>5. n # NULL /\ v # NULL
  BY <1>3, NullAssumption
<1>6. Gone' = NULL /\ InTree' = {n}
  BY <1>1, <1>4 DEF Gone, InTree
<1>7. \A s \in Sides : nodes'[n][s] = NULL
  BY <1>4 DEF Sides
<1>8. Shape'
  BY <1>1, <1>3, <1>4, <1>5, <1>6, <1>7 DEF Shape
<1>9. Calls'
  BY <1>1 DEF Calls
<1>10. Hung'
  BY <1>1, <1>3, <1>4, <1>5, <1>7 DEF Hung, Hangs, Loose
<1>11. Whole'
  BY <1>1, <1>3, <1>4, <1>6 DEF Whole
<1>12. Sorted' /\ Distinct'
  BY <1>4, <1>6 DEF Sorted, Distinct, Under
<1>. QED  BY <1>1, <1>4, <1>8, <1>9, <1>10, <1>11, <1>12
          DEF IInv, Putting, Seeking, Merging, Unlinking

LEMMA PutIInv ==
    ASSUME IInv, NEW p \in Ptr, NEW v \in Val, Put(p, v)
    PROVE  IInv'
<1>1. /\ pc = "idle" /\ pc' = "put" /\ root # NULL /\ at' = root /\ new' = Fresh(p)
      /\ op' = <<"put", KeyOf[p], v>>
      /\ UNCHANGED <<root, slot, held>>
      /\ Node # DOMAIN nodes /\ Alloc(Fresh(p), p, v)
  BY DEF Put, MayPut
<1>2. PICK n \in Node \ DOMAIN nodes : n = Fresh(p)
  BY <1>1, FreshNode DEF IInv, Shape
<1>3. /\ DOMAIN nodes' = DOMAIN nodes \cup {n}
      /\ \A m \in DOMAIN nodes : nodes'[m] = nodes[m]
      /\ nodes'[n].left = NULL /\ nodes'[n].right = NULL
      /\ nodes'[n].key = p /\ nodes'[n].val = v
      /\ IsFiniteSet(DOMAIN nodes') /\ nodes' \in [DOMAIN nodes' -> Field]
      /\ \A m \in DOMAIN nodes \cup {NULL} : Under(m)' = Under(m)
      /\ Under(n)' = {n}
      /\ Acyclic(Kids)'
  BY <1>1, <1>2, AllocNode DEF IInv
<1>4. n # NULL /\ v # NULL /\ n \notin DOMAIN nodes
  BY <1>2, NullAssumption
<1>5. /\ Gone = NULL /\ Gone' = NULL
      /\ InTree = DOMAIN nodes /\ InTree' = DOMAIN nodes
  BY <1>1, <1>2, <1>3, <1>4 DEF Gone, InTree
<1>6. \A s \in Sides : nodes'[n][s] = NULL
  BY <1>3 DEF Sides
<1>7. root \in DOMAIN nodes /\ \A m \in DOMAIN nodes : nodes[m].val # NULL
  BY <1>1, <1>5, NullIsNoNode DEF IInv, Shape
<1>8. \A m \in DOMAIN nodes : \A s \in Sides :
          nodes'[m][s] = nodes[m][s] /\ nodes[m][s] \in DOMAIN nodes \cup {NULL}
  BY <1>3 DEF IInv, Shape
<1>9. Shape'
  <2>1. \A m \in DOMAIN nodes' : nodes'[m].val = NULL <=> m = Gone'
    BY <1>3, <1>4, <1>5, <1>7, NullIsNoNode DEF IInv
  <2>2. \A m \in DOMAIN nodes' : \A s \in Sides : nodes'[m][s] \in DOMAIN nodes' \cup {NULL}
    BY <1>3, <1>6, <1>8
  <2>3. DOMAIN nodes' \subseteq Node
    BY <1>2, <1>3 DEF IInv, Shape
  <2>. QED  BY <1>1, <1>3, <1>7, <2>1, <2>2, <2>3 DEF Shape
<1>10. Calls'
  BY <1>1, <1>2, <1>3, <1>4, <1>7 DEF IInv, Calls, KeyAt
<1>11. Hung'
  <2>1. \A m \in DOMAIN nodes, q \in DOMAIN nodes', s \in Sides :
            Hangs(m, q, s)' => q \in DOMAIN nodes /\ Hangs(m, q, s)
    BY <1>1, <1>3, <1>4, <1>6, <1>8, NullIsNoNode DEF IInv, Hangs
  <2>2. \A q \in DOMAIN nodes', s \in Sides : ~Hangs(n, q, s)'
    BY <1>3, <1>4, <1>6, <1>8 DEF Hangs
  <2>3. \A m, q, r \in DOMAIN nodes' : \A s, t \in Sides :
            Hangs(m, q, s)' /\ Hangs(m, r, t)' => q = r /\ s = t
    BY <2>1, <2>2, <1>3 DEF IInv, Hung
  <2>4. Loose(root)'
    BY <2>1, <1>1, <1>7 DEF IInv, Hung, Loose
  <2>5. Loose(new)'
    BY <2>2, <1>1, <1>2 DEF Loose
  <2>6. Children(new)' = {}
    BY <1>1, <1>2, <1>3 DEF Children
  <2>. QED  BY <1>1, <2>3, <2>4, <2>5, <2>6 DEF Hung
<1>12. Whole'
  BY <1>1, <1>3, <1>5, <1>7 DEF IInv, Whole
<1>13. \A m \in DOMAIN nodes :
           KeyAt(m)' = KeyAt(m) /\ nodes'[m].left = nodes[m].left /\ nodes'[m].right = nodes[m].right
  BY <1>3 DEF KeyAt
<1>14. \A m \in DOMAIN nodes : /\ nodes[m].left \in DOMAIN nodes \cup {NULL}
                               /\ nodes[m].right \in DOMAIN nodes \cup {NULL}
  BY DEF IInv, Shape, Sides
<1>15. Sorted'
  <2> SUFFICES ASSUME NEW m \in DOMAIN nodes
               PROVE  /\ \A d \in Under(nodes[m].left) : KeyAt(m) < KeyAt(d)'
                      /\ \A d \in Under(nodes[m].right) : KeyAt(d)' < KeyAt(m)
    BY <1>3, <1>5, <1>13, <1>14 DEF Sorted
  <2>. QED  BY <1>1, <1>5, <1>13, UnderIn DEF IInv, Sorted
<1>16. Distinct'
  BY <1>5, <1>13 DEF IInv, Distinct
<1>17. Putting'
  <2>1. \A m \in DOMAIN nodes : m \in Under(root)'
    BY <1>1, <1>3, <1>5, <1>7 DEF IInv, Whole
  <2>2. ASSUME NEW m \in DOMAIN nodes, NEW s \in Sides, root \in Under(nodes[m][s]) PROVE FALSE
    <3>1. nodes[m][s] # NULL
      BY <2>2 DEF Under
    <3>2. nodes[m][s] \in DOMAIN nodes
      BY <3>1, <1>8
    <3>3. nodes[m][s] # root
      BY <1>1, <1>7 DEF IInv, Hung, Loose, Hangs
    <3>4. PICK q \in Under(nodes[m][s]) : \E t \in Sides : nodes[q][t] = root
      BY <2>2, <3>2, <3>3, UnderLast DEF IInv
    <3>. QED  BY <3>4, <1>1, <1>7, UnderIn DEF IInv, Hung, Loose, Hangs
  <2>3. \A m \in DOMAIN nodes : root \notin Under(nodes[m].left) /\ root \notin Under(nodes[m].right)
    BY <2>2 DEF Sides
  <2>. QED  BY <1>1, <1>2, <1>3, <1>5, <1>13, <1>14, <2>1, <2>3 DEF Putting
<1>. QED  BY <1>1, <1>3, <1>9, <1>10, <1>11, <1>12, <1>15, <1>16, <1>17
          DEF IInv, Seeking, Merging, Unlinking

-----------------------------------------------------------------------------
(* node_put: the way down. *)

LEMMA PutFacts ==
    ASSUME IInv, pc = "put"
    PROVE  /\ new \in DOMAIN nodes /\ at \in DOMAIN nodes \ {new}
           /\ InTree = DOMAIN nodes \ {new} /\ at \in InTree
           /\ Gone = NULL /\ slot = RootSlot /\ held = NULL
           /\ \A s \in Sides : nodes[new][s] = NULL
           /\ nodes[new].left = NULL /\ nodes[new].right = NULL
           /\ Under(new) = {new} /\ at \notin Under(new)
           /\ Loose(new)
<1>1. /\ new \in DOMAIN nodes /\ at \in DOMAIN nodes \ {new} /\ slot = RootSlot /\ held = NULL
      /\ Loose(new) /\ Children(new) = {}
  BY DEF IInv, Calls, Hung
<1>2. InTree = DOMAIN nodes \ {new} /\ Gone = NULL
  BY DEF InTree, Gone
<1>3. nodes[new].left = NULL /\ nodes[new].right = NULL
  BY <1>1 DEF Children
<1>4. Under(new) = {new}
  BY <1>1, <1>3, UnderStep DEF IInv, Under
<1>. QED  BY <1>1, <1>2, <1>3, <1>4 DEF Sides

LEMMA MergeFacts ==
    ASSUME Fits, IInv, pc = "merge", NEW g, g = Gone
    PROVE  /\ g \in DOMAIN nodes /\ new \in DOMAIN nodes /\ at \in DOMAIN nodes
           /\ InTree = DOMAIN nodes /\ g = Cur
           /\ nodes[g].left \in DOMAIN nodes /\ nodes[g].right = new
           /\ at \in Under(nodes[g].left) /\ at # g
           /\ \A m \in Under(nodes[g].left) : KeyAt(g) < KeyAt(m)
           /\ \A m \in Under(new) : KeyAt(m) < KeyAt(g)
           /\ at \notin Under(new)
           /\ \A n \in Under(nodes[g].left) : at \notin Under(nodes[n].left)
           /\ KeyAt(at) # KeyAt(new) /\ Way = "right"
<1>1. g = Cur /\ g \in DOMAIN nodes /\ InTree = DOMAIN nodes
  BY DEF Gone, IInv, Calls, InTree
<1>2. /\ new = nodes[g].right /\ new # NULL
      /\ at \in Under(nodes[g].left)
      /\ \A n \in Under(nodes[g].left) : at \notin Under(nodes[n].left)
  BY DEF IInv, Merging
<1>3. nodes[g].left \in DOMAIN nodes /\ new \in DOMAIN nodes /\ at \in DOMAIN nodes
  BY <1>1, <1>2, UnderIn DEF IInv, Shape, Sides, Under
<1>4. /\ \A m \in Under(nodes[g].left) : KeyAt(g) < KeyAt(m)
      /\ \A m \in Under(new) : KeyAt(m) < KeyAt(g)
  BY <1>1, <1>2 DEF IInv, Sorted
<1>5. /\ new \in Under(new) /\ KeyAt(at) \in Int /\ KeyAt(g) \in Int
      /\ KeyAt(new) \in Int /\ KeyAt(new) \in Key
  BY <1>1, <1>3, UnderSelf, KeyAtType DEF IInv
<1>6. KeyAt(g) < KeyAt(at) /\ KeyAt(new) < KeyAt(g)
  BY <1>2, <1>4, <1>5
<1>7. at # g /\ at \notin Under(new)
  BY <1>4, <1>5, <1>6
<1>8. KeyAt(at) # KeyAt(new) /\ ~(KeyAt(at) < KeyAt(new))
  BY <1>5, <1>6
<1>9. Way = "right"
  BY <1>3, <1>5, <1>8, SideIs DEF IInv, Way
<1>. QED  BY <1>1, <1>2, <1>3, <1>4, <1>7, <1>8, <1>9

\* A child that is under a field is in the field, or its parent is under it.
LEMMA ParentUnder ==
    ASSUME IInv, pc # "unlink", NEW p \in DOMAIN nodes, NEW s \in Sides, nodes[p][s] # NULL,
           NEW x \in DOMAIN nodes \cup {NULL}, nodes[p][s] \in Under(x)
    PROVE  x = nodes[p][s] \/ p \in Under(x)
<1> SUFFICES ASSUME x # nodes[p][s] PROVE p \in Under(x)
  OBVIOUS
<1>1. x \in DOMAIN nodes /\ nodes[p][s] \in DOMAIN nodes
  BY DEF Under, IInv, Shape
<1>2. PICK q \in Under(x) : \E t \in Sides : nodes[q][t] = nodes[p][s]
  BY <1>1, UnderLast DEF IInv
<1>3. q \in DOMAIN nodes
  BY <1>2, UnderIn DEF IInv
<1>. QED  BY <1>1, <1>2, <1>3 DEF IInv, Hung, Hangs

LEMMA SameField ==
    ASSUME IInv, pc # "unlink", NEW p \in DOMAIN nodes, NEW s \in Sides, nodes[p][s] # NULL,
           NEW q \in DOMAIN nodes, NEW t \in Sides, nodes[q][t] = nodes[p][s]
    PROVE  p = q /\ s = t
BY DEF IInv, Shape, Hung, Hangs

LEMMA PutDownIInv ==
    ASSUME Fits, IInv, PutDown
    PROVE  IInv'
<1>1. /\ pc \in {"put", "merge"} /\ cmp(KeyAt(at), KeyAt(new)) # 0
      /\ nodes[at][Way] # NULL /\ at' = nodes[at][Way]
      /\ UNCHANGED <<pc, nodes, root, new, slot, op, held>>
  BY DEF PutDown, Placing
<1>2. Kids' = Kids /\ \A n : Under(n)' = Under(n)
  BY <1>1, SameKids
<1>3. at \in DOMAIN nodes /\ new \in DOMAIN nodes
  BY <1>1, PutFacts, MergeFacts
<1>4. KeyAt(new) \in Key /\ KeyAt(new) \in Int /\ KeyAt(at) \in Int
  BY <1>3, KeyAtType DEF IInv
<1>5. /\ KeyAt(at) # KeyAt(new)
      /\ KeyAt(at) < KeyAt(new) => Way = "left"
      /\ ~(KeyAt(at) < KeyAt(new)) => Way = "right"
  BY <1>1, <1>3, <1>4, SideIs DEF IInv, Way
<1>6. Way \in Sides /\ (Way = "left" => KeyAt(at) < KeyAt(new)) /\ (Way = "right" => KeyAt(new) < KeyAt(at))
  BY <1>4, <1>5 DEF Sides
<1>7. PICK s \in Sides : s = Way
  BY <1>6
<1>8. at' \in DOMAIN nodes
  BY <1>1, <1>3, <1>7 DEF IInv, Shape
<1>9. Gone' = Gone /\ Cur' = Cur /\ InTree' = InTree
  BY <1>1 DEF Gone, Cur, InTree
<1>10. /\ Shape' /\ Hung' /\ Acyclic(Kids)' /\ Whole' /\ Sorted' /\ Distinct' /\ Unlinking'
  <2>1. Shape'
    BY <1>1, <1>9 DEF IInv, Shape
  <2>2. Hung'
    BY <1>1, <1>9 DEF IInv, Hung, Hangs, Loose, Children
  <2>3. Acyclic(Kids)' /\ Whole'
    BY <1>1, <1>2, <1>9 DEF IInv, Whole, Acyclic
  <2>4. Sorted' /\ Distinct'
    BY <1>1, <1>2, <1>9 DEF IInv, Sorted, Distinct, KeyAt
  <2>5. Unlinking'
    BY <1>1 DEF Unlinking
  <2>. QED  BY <2>1, <2>2, <2>3, <2>4, <2>5
<1>11. Calls'
  <2>1. pc = "put" => at' # new
    BY <1>1, <1>3, <1>7, PutFacts DEF Loose, Hangs
  <2>. QED  BY <1>1, <1>8, <1>9, <2>1 DEF IInv, Calls, KeyAt
<1>12. ASSUME NEW n \in DOMAIN nodes, NEW t \in Sides, at' \in Under(nodes[n][t])
       PROVE  (n = at /\ t = Way) \/ at \in Under(nodes[n][t])
  <2>1. nodes[n][t] \in DOMAIN nodes \cup {NULL}
    BY DEF IInv, Shape
  <2>2. nodes[n][t] = nodes[at][s] \/ at \in Under(nodes[n][t])
    BY <1>1, <1>3, <1>7, <1>12, <2>1, ParentUnder
  <2>. QED  BY <2>2, <1>1, <1>3, <1>7, SameField
<1>13. Putting'
  <2> SUFFICES ASSUME pc = "put", NEW n \in InTree
               PROVE  /\ KeyAt(n) = KeyAt(new) => n \in Under(at)'
                      /\ at' \in Under(nodes[n].left) => KeyAt(n) < KeyAt(new)
                      /\ at' \in Under(nodes[n].right) => KeyAt(new) < KeyAt(n)
    BY <1>1, <1>2, <1>9 DEF Putting, KeyAt
  <2>1. n \in DOMAIN nodes /\ at \in InTree
    BY PutFacts
  <2>2. ASSUME KeyAt(n) = KeyAt(new) PROVE n \in Under(at)'
    <3>1. n \in Under(at) /\ n # at
      BY <2>2, <1>5 DEF IInv, Putting
    <3>2. n \in Under(nodes[at].left) \/ n \in Under(nodes[at].right)
      BY <3>1, <1>3, UnderStep DEF IInv
    <3>3. n \in Under(nodes[at][s])
      BY <3>2, <2>1, <2>2, <1>4, <1>6, <1>7 DEF IInv, Sorted, Sides
    <3>4. Under(at)' = Under(nodes[at][s])
      BY <1>1, <1>2, <1>7
    <3>. QED  BY <3>3, <3>4
  <2>3. at' \in Under(nodes[n].left) => KeyAt(n) < KeyAt(new)
    BY <1>6, <1>12, <2>1 DEF IInv, Putting, Sides
  <2>4. at' \in Under(nodes[n].right) => KeyAt(new) < KeyAt(n)
    BY <1>6, <1>12, <2>1 DEF IInv, Putting, Sides
  <2>. QED  BY <2>2, <2>3, <2>4
<1>14. Merging'
  <2> SUFFICES ASSUME pc = "merge" PROVE Merging'
    BY <1>1 DEF Merging
  <2>1. PICK g : g = Gone
    OBVIOUS
  <2>2. g \in DOMAIN nodes /\ at \in Under(nodes[g].left) /\ Way = "right" /\ nodes[g].left \in DOMAIN nodes
    BY <2>1, MergeFacts
  <2>3. at' \in Under(nodes[g].left)
    <3>1. at' \in Under(at)
      BY <1>1, <1>3, <1>7, UnderChild DEF IInv
    <3>. QED  BY <3>1, <2>2, UnderTrans DEF IInv
  <2>4. ASSUME NEW n \in Under(nodes[g].left), at' \in Under(nodes[n].left) PROVE FALSE
    <3>1. n \in DOMAIN nodes
      BY UnderIn DEF IInv
    <3>2. at \in Under(nodes[n].left)
      BY <3>1, <2>2, <2>4, <1>12 DEF Sides
    <3>. QED  BY <3>2, <2>1, MergeFacts
  <2>5. new = nodes[g].right /\ new # NULL
    BY <2>1 DEF IInv, Merging
  <2>. QED  BY <1>1, <1>2, <1>9, <2>1, <2>3, <2>4, <2>5 DEF Merging
<1>15. Seeking'
  BY <1>1 DEF Seeking
<1>. QED  BY <1>10, <1>11, <1>13, <1>14, <1>15 DEF IInv

-----------------------------------------------------------------------------
(* node_put: the end. *)

LEMMA AttachNode ==
    ASSUME IInv, at \in DOMAIN nodes, new \in DOMAIN nodes, at \notin Under(new),
           NEW s \in Sides, nodes[at][s] = NULL, nodes' = [nodes EXCEPT ![at][s] = new]
    PROVE  /\ DOMAIN nodes' = DOMAIN nodes
           /\ nodes' \in [DOMAIN nodes' -> Field]
           /\ \A n \in DOMAIN nodes : nodes'[n].key = nodes[n].key /\ nodes'[n].val = nodes[n].val
           /\ \A n \in DOMAIN nodes : \A t \in Sides :
                 nodes'[n][t] = IF n = at /\ t = s THEN new ELSE nodes[n][t]
           /\ \A n \in DOMAIN nodes \cup {NULL} :
                 Under(n)' = Under(n) \cup IF at \in Under(n) THEN Under(new) ELSE {}
           /\ Acyclic(Kids)'
<1>1. DOMAIN nodes' = DOMAIN nodes /\ nodes' \in [DOMAIN nodes' -> Field]
  BY DEF IInv, Shape, Field, Sides
<1>2. \A n \in DOMAIN nodes : nodes'[n].key = nodes[n].key /\ nodes'[n].val = nodes[n].val
  BY DEF IInv, Shape, Field, Sides
<1>3. \A n \in DOMAIN nodes : \A t \in Sides :
          nodes'[n][t] = IF n = at /\ t = s THEN new ELSE nodes[n][t]
  BY DEF IInv, Shape, Field, Sides
<1>4. DOMAIN Kids' = DOMAIN Kids /\ DOMAIN Kids = DOMAIN nodes
  BY <1>1 DEF Kids
<1>5. new # NULL
  BY NullIsNoNode DEF IInv
<1>6. Kids'[at] = Kids[at] \cup {new} /\ \A n \in DOMAIN Kids \ {at} : Kids'[n] = Kids[n]
  <2>1. \A n \in DOMAIN nodes : Kids'[n] = {nodes'[n].left, nodes'[n].right} \ {NULL}
    BY <1>1 DEF Kids, Children
  <2>2. \A n \in DOMAIN nodes : Kids[n] = {nodes[n].left, nodes[n].right} \ {NULL}
    BY DEF Kids, Children
  <2>3. \A n \in DOMAIN nodes : /\ nodes'[n].left = IF n = at /\ s = "left" THEN new ELSE nodes[n].left
                                /\ nodes'[n].right = IF n = at /\ s = "right" THEN new ELSE nodes[n].right
    BY <1>3 DEF Sides
  <2>4. \A n \in DOMAIN Kids \ {at} : Kids'[n] = Kids[n]
    BY <1>4, <2>1, <2>2, <2>3
  <2>5. CASE s = "left"
    <3>1. Kids'[at] = {new, nodes[at].right} \ {NULL} /\ Kids[at] = {NULL, nodes[at].right} \ {NULL}
      BY <2>1, <2>2, <2>3, <2>5
    <3>. QED  BY <3>1, <2>4, <1>5
  <2>6. CASE s = "right"
    <3>1. Kids'[at] = {new, nodes[at].left} \ {NULL} /\ Kids[at] = {NULL, nodes[at].left} \ {NULL}
      BY <2>1, <2>2, <2>3, <2>6
    <3>. QED  BY <3>1, <2>4, <1>5
  <2>. QED  BY <2>5, <2>6 DEF Sides
<1>7. /\ IsGraph(Kids)
      /\ IsGraph(Kids')
      /\ \A n \in DOMAIN nodes :
             Reach(Kids', n) = Reach(Kids, n) \cup IF at \in Reach(Kids, n) THEN Reach(Kids, new) ELSE {}
  BY <1>4, <1>6, KidsGraph, ReachNewChild DEF IInv
<1>8. \A n \in DOMAIN nodes \cup {NULL} :
          Under(n)' = Under(n) \cup IF at \in Under(n) THEN Under(new) ELSE {}
  BY <1>5, <1>7 DEF Under
<1>9. at \notin Reach(Kids, new)
  BY <1>5 DEF Under
<1>10. Acyclic(Kids)'
  <2> SUFFICES ASSUME NEW n \in DOMAIN nodes, NEW c \in Kids'[n], n \in Reach(Kids', c) PROVE FALSE
    BY <1>4 DEF Acyclic
  <2>1. CASE c \in Kids[n]
    <3>1. c \in DOMAIN nodes /\ n \notin Reach(Kids, c)
      BY <2>1, <1>4, <1>7 DEF IInv, Acyclic, IsGraph
    <3>2. at \in Reach(Kids, c) /\ n \in Reach(Kids, new)
      BY <3>1, <1>7
    <3>3. c \in Reach(Kids, new)
      BY <3>2, <2>1, <1>7, ReachClosed DEF Closed
    <3>. QED  BY <3>2, <3>3, <1>7, <1>9, ReachTrans
  <2>2. CASE c \notin Kids[n]
    BY <2>2, <1>4, <1>6, <1>7, <1>9
  <2>. QED  BY <2>1, <2>2
<1>. QED  BY <1>1, <1>2, <1>3, <1>8, <1>10

LEMMA AttachNewIInv ==
    ASSUME Fits, IInv, Attach, pc = "put"
    PROVE  IInv'
<1>1. /\ cmp(KeyAt(at), KeyAt(new)) # 0 /\ nodes[at][Way] = NULL
      /\ nodes' = [nodes EXCEPT ![at][Way] = new]
      /\ pc' = "idle" /\ slot' = RootSlot /\ held' = NULL /\ root' = root
  BY DEF Attach, Placed, Done
<1>2. /\ new \in DOMAIN nodes /\ at \in DOMAIN nodes \ {new}
      /\ InTree = DOMAIN nodes \ {new} /\ at \in InTree /\ Gone = NULL
      /\ nodes[new].left = NULL /\ nodes[new].right = NULL
      /\ Under(new) = {new} /\ at \notin Under(new) /\ Loose(new)
  BY PutFacts
<1>3. KeyAt(new) \in Key /\ KeyAt(new) \in Int /\ KeyAt(at) \in Int
  BY <1>2, KeyAtType DEF IInv
<1>4. PICK s \in Sides : s = Way /\ (IF s = "left" THEN KeyAt(at) < KeyAt(new) ELSE KeyAt(new) < KeyAt(at))
  <2>1. /\ KeyAt(at) # KeyAt(new)
        /\ KeyAt(at) < KeyAt(new) => Way = "left"
        /\ ~(KeyAt(at) < KeyAt(new)) => Way = "right"
    BY <1>1, <1>2, <1>3, SideIs DEF IInv, Way
  <2>. QED  BY <1>3, <2>1 DEF Sides
<1>5. /\ DOMAIN nodes' = DOMAIN nodes
      /\ nodes' \in [DOMAIN nodes' -> Field]
      /\ \A n \in DOMAIN nodes : nodes'[n].key = nodes[n].key /\ nodes'[n].val = nodes[n].val
      /\ \A n \in DOMAIN nodes : \A t \in Sides :
            nodes'[n][t] = IF n = at /\ t = s THEN new ELSE nodes[n][t]
      /\ \A n \in DOMAIN nodes \cup {NULL} :
            Under(n)' = Under(n) \cup IF at \in Under(n) THEN {new} ELSE {}
      /\ Acyclic(Kids)'
  BY <1>1, <1>2, <1>4, AttachNode
<1>6. Gone' = NULL /\ InTree' = DOMAIN nodes /\ \A n \in DOMAIN nodes : KeyAt(n)' = KeyAt(n)
  BY <1>1, <1>5 DEF Gone, InTree, KeyAt
<1>7. root \in DOMAIN nodes /\ root # new
  BY <1>2, UnderIn, NullIsNoNode DEF IInv, Shape, Whole, Under
<1>8. Shape'
  BY <1>1, <1>2, <1>5, <1>6 DEF IInv, Shape
<1>9. Calls'
  BY <1>1 DEF Calls
<1>10. Hung'
  <2>1. \A m, q \in DOMAIN nodes, t \in Sides :
            Hangs(m, q, t)' => (m = new /\ q = at /\ t = s) \/ Hangs(m, q, t)
    BY <1>1, <1>5 DEF Hangs
  <2>2. \A q \in DOMAIN nodes, t \in Sides : ~Hangs(new, q, t)
    BY <1>2 DEF Loose
  <2>3. \A m, q, r \in DOMAIN nodes' : \A t, u \in Sides :
            Hangs(m, q, t)' /\ Hangs(m, r, u)' => q = r /\ t = u
    <3> SUFFICES ASSUME NEW m \in DOMAIN nodes, NEW q \in DOMAIN nodes, NEW r \in DOMAIN nodes,
                        NEW t \in Sides, NEW u \in Sides, Hangs(m, q, t)', Hangs(m, r, u)'
                 PROVE  q = r /\ t = u
      BY <1>5
    <3>1. CASE m = new
      BY <3>1, <2>1, <2>2
    <3>2. CASE m # new
      BY <3>2, <2>1 DEF IInv, Hung
    <3>. QED  BY <3>1, <3>2
  <2>4. Loose(root)'
    <3>1. root # NULL /\ Loose(root)
      BY <1>7, NullIsNoNode DEF IInv, Hung
    <3>. QED  BY <3>1, <2>1, <1>1, <1>5, <1>7 DEF Loose
  <2>. QED  BY <1>1, <2>3, <2>4 DEF Hung
<1>11. Whole'
  <2>1. Under(root)' = Under(root) \cup {new}
    BY <1>1, <1>2, <1>5, <1>7 DEF IInv, Whole
  <2>. QED  BY <1>2, <1>6, <2>1 DEF IInv, Whole
<1>12. Sorted'
  <2> SUFFICES ASSUME NEW n \in DOMAIN nodes
               PROVE  /\ \A m \in Under(nodes[n].left)' : KeyAt(n) < KeyAt(m)'
                      /\ \A m \in Under(nodes[n].right)' : KeyAt(m)' < KeyAt(n)
    BY <1>6 DEF Sorted
  <2>1. PICK b \in DOMAIN nodes : b = new /\ Under(b)' = {b}
    BY <1>2, <1>5
  <2>2. nodes[n].left \in DOMAIN nodes \cup {NULL} /\ nodes[n].right \in DOMAIN nodes \cup {NULL}
    BY DEF IInv, Shape, Sides
  <2>3. \A m \in Under(nodes[n].left) \cup Under(nodes[n].right) : KeyAt(m)' = KeyAt(m)
    BY <1>6, UnderIn DEF IInv
  <2>4. CASE n = new
    <3>1. nodes'[n].left = NULL /\ nodes'[n].right = NULL
      BY <2>4, <1>2, <1>5 DEF Sides
    <3>. QED  BY <3>1 DEF Under
  <2>5. CASE n # new
    <3>1. /\ \A m \in Under(nodes[n].left) : KeyAt(n) < KeyAt(m)
          /\ \A m \in Under(nodes[n].right) : KeyAt(m) < KeyAt(n)
      BY <2>5, <1>2 DEF IInv, Sorted
    <3>2. /\ at \in Under(nodes[n].left) => KeyAt(n) < KeyAt(new)
          /\ at \in Under(nodes[n].right) => KeyAt(new) < KeyAt(n)
      BY <2>5, <1>2 DEF IInv, Putting
    <3>3. ASSUME NEW m \in Under(nodes[n].left)' PROVE KeyAt(n) < KeyAt(m)'
      <4>1. CASE n = at /\ s = "left"
        <5>1. nodes'[n].left = b
          BY <4>1, <2>1, <1>5 DEF Sides
        <5>2. m = new
          BY <3>3, <5>1, <2>1
        <5>. QED  BY <5>2, <4>1, <1>2, <1>4, <1>6
      <4>2. CASE ~(n = at /\ s = "left")
        <5>1. nodes'[n].left = nodes[n].left
          BY <4>2, <1>5 DEF Sides
        <5>2. m \in Under(nodes[n].left) \/ (m = new /\ at \in Under(nodes[n].left))
          BY <3>3, <5>1, <2>2, <1>5
        <5>. QED  BY <5>2, <3>1, <3>2, <2>3, <1>2, <1>6
      <4>. QED  BY <4>1, <4>2
    <3>4. ASSUME NEW m \in Under(nodes[n].right)' PROVE KeyAt(m)' < KeyAt(n)
      <4>1. CASE n = at /\ s = "right"
        <5>1. nodes'[n].right = b
          BY <4>1, <2>1, <1>5 DEF Sides
        <5>2. m = new
          BY <3>4, <5>1, <2>1
        <5>. QED  BY <5>2, <4>1, <1>2, <1>4, <1>6
      <4>2. CASE ~(n = at /\ s = "right")
        <5>1. nodes'[n].right = nodes[n].right
          BY <4>2, <1>5 DEF Sides
        <5>2. m \in Under(nodes[n].right) \/ (m = new /\ at \in Under(nodes[n].right))
          BY <3>4, <5>1, <2>2, <1>5
        <5>. QED  BY <5>2, <3>1, <3>2, <2>3, <1>2, <1>6
      <4>. QED  BY <4>1, <4>2
    <3>. QED  BY <3>3, <3>4
  <2>. QED  BY <2>4, <2>5
<1>13. Distinct'
  <2>1. ASSUME NEW n \in InTree, KeyAt(n) = KeyAt(new) PROVE FALSE
    <3>1. n \in Under(at) /\ n # at /\ n \in DOMAIN nodes
      BY <2>1, <1>2, <1>3, <1>4 DEF IInv, Putting
    <3>2. n \in Under(nodes[at].left) \/ n \in Under(nodes[at].right)
      BY <3>1, <1>2, UnderStep DEF IInv
    <3>3. /\ n \in Under(nodes[at].left) => KeyAt(at) < KeyAt(n)
          /\ n \in Under(nodes[at].right) => KeyAt(n) < KeyAt(at)
      BY <1>2 DEF IInv, Sorted
    <3>4. n \notin Under(nodes[at][s])
      BY <1>1, <1>4 DEF Under
    <3>. QED  BY <2>1, <3>2, <3>3, <3>4, <1>3, <1>4 DEF Sides
  <2>. QED  BY <2>1, <1>2, <1>6 DEF IInv, Distinct
<1>. QED  BY <1>1, <1>5, <1>8, <1>9, <1>10, <1>11, <1>12, <1>13
          DEF IInv, Putting, Seeking, Merging, Unlinking

LEMMA AttachMergeIInv ==
    ASSUME Fits, IInv, Attach, pc = "merge"
    PROVE  IInv'
<1>1. /\ nodes[at][Way] = NULL
      /\ nodes' = [nodes EXCEPT ![at][Way] = new]
      /\ pc' = "unlink" /\ UNCHANGED <<root, at, new, slot, op, held>>
  BY DEF Attach, Placed
<1>2. PICK g : g = Gone
  OBVIOUS
<1>3. /\ g \in DOMAIN nodes /\ new \in DOMAIN nodes /\ at \in DOMAIN nodes
      /\ InTree = DOMAIN nodes /\ g = Cur
      /\ nodes[g].left \in DOMAIN nodes /\ nodes[g].right = new
      /\ at \in Under(nodes[g].left) /\ at # g
      /\ \A m \in Under(nodes[g].left) : KeyAt(g) < KeyAt(m)
      /\ \A m \in Under(new) : KeyAt(m) < KeyAt(g)
      /\ at \notin Under(new)
      /\ \A n \in Under(nodes[g].left) : at \notin Under(nodes[n].left)
      /\ Way = "right"
  BY <1>2, MergeFacts
<1>4. /\ DOMAIN nodes' = DOMAIN nodes
      /\ nodes' \in [DOMAIN nodes' -> Field]
      /\ \A n \in DOMAIN nodes : nodes'[n].key = nodes[n].key /\ nodes'[n].val = nodes[n].val
      /\ \A n \in DOMAIN nodes : \A t \in Sides :
            nodes'[n][t] = IF n = at /\ t = "right" THEN new ELSE nodes[n][t]
      /\ \A n \in DOMAIN nodes \cup {NULL} :
            Under(n)' = Under(n) \cup IF at \in Under(n) THEN Under(new) ELSE {}
      /\ Acyclic(Kids)'
  BY <1>1, <1>3, AttachNode DEF Sides
<1>5. g # NULL /\ new # NULL
  BY <1>3, NullIsNoNode DEF IInv
<1>6. Cur' = g
  <2>1. CASE slot = RootSlot
    BY <2>1, <1>1, <1>3 DEF Cur
  <2>2. CASE slot # RootSlot
    <3>1. slot \in (DOMAIN nodes) \X Sides
      BY <2>2 DEF IInv, Calls
    <3>2. nodes[slot[1]][slot[2]] = g
      BY <2>2, <1>3 DEF Cur
    <3>3. ~(slot[1] = at /\ slot[2] = "right")
      BY <3>2, <1>1, <1>3, <1>5
    <3>4. nodes'[slot[1]][slot[2]] = g
      BY <3>1, <3>2, <3>3, <1>4
    <3>. QED  BY <2>2, <3>4, <1>1 DEF Cur
  <2>. QED  BY <2>1, <2>2
<1>7. Gone' = g /\ InTree' = DOMAIN nodes /\ \A n \in DOMAIN nodes : KeyAt(n)' = KeyAt(n)
  BY <1>1, <1>4, <1>6 DEF Gone, InTree, KeyAt
<1>8. nodes'[g].left = nodes[g].left /\ nodes'[g].right = new
  BY <1>3, <1>4 DEF Sides
<1>9. nodes[g].left # new
  BY <1>3, <1>5, SameField DEF Sides
<1>10. Shape'
  <2>1. \A n \in DOMAIN nodes' : nodes'[n].val = NULL <=> n = Gone'
    BY <1>2, <1>4, <1>7 DEF IInv, Shape
  <2>2. \A n \in DOMAIN nodes' : \A t \in Sides : nodes'[n][t] \in DOMAIN nodes' \cup {NULL}
    BY <1>3, <1>4 DEF IInv, Shape
  <2>. QED  BY <1>1, <1>4, <2>1, <2>2 DEF IInv, Shape
<1>11. Calls'
  BY <1>1, <1>3, <1>4, <1>6, <1>7 DEF IInv, Calls
<1>12. \A m, q \in DOMAIN nodes, t \in Sides :
           Hangs(m, q, t)' => q # g /\ ((m = new /\ q = at /\ t = "right") \/ Hangs(m, q, t))
  BY <1>1, <1>4, <1>7 DEF Hangs
<1>13. Hangs(new, g, "right") /\ Hangs(nodes[g].left, g, "left")
  BY <1>3 DEF Hangs
<1>14. Hung'
  <2>1. \A m, q, r \in DOMAIN nodes' : \A t, u \in Sides :
            Hangs(m, q, t)' /\ Hangs(m, r, u)' => q = r /\ t = u
    <3> SUFFICES ASSUME NEW m \in DOMAIN nodes, NEW q \in DOMAIN nodes, NEW r \in DOMAIN nodes,
                        NEW t \in Sides, NEW u \in Sides, Hangs(m, q, t)', Hangs(m, r, u)'
                 PROVE  q = r /\ t = u
      BY <1>4
    <3>1. CASE m = new
      <4>1. \A p \in DOMAIN nodes, v \in Sides : Hangs(m, p, v) => p = g
        BY <3>1, <1>3, <1>13 DEF IInv, Hung, Sides
      <4>. QED  BY <4>1, <1>12
    <3>2. CASE m # new
      BY <3>2, <1>12 DEF IInv, Hung
    <3>. QED  BY <3>1, <3>2
  <2>2. root # NULL => Loose(root)'
    <3>1. ASSUME root # NULL PROVE root # new
      BY <3>1, <1>3, <1>13 DEF IInv, Hung, Loose, Sides
    <3>2. ASSUME root # NULL PROVE root \in DOMAIN nodes /\ Loose(root)
      BY <3>2 DEF IInv, Hung, Shape
    <3>. QED  BY <3>1, <3>2, <1>1, <1>4, <1>12 DEF Loose
  <2>. QED  BY <1>1, <2>1, <2>2 DEF Hung
<1>15. Whole'
  <2>1. root \in DOMAIN nodes \cup {NULL}
    BY DEF IInv, Shape
  <2>2. Under(root) = DOMAIN nodes
    BY <1>3 DEF IInv, Whole
  <2>3. Under(root)' = Under(root) \cup Under(new)
    BY <1>1, <1>3, <1>4, <2>1, <2>2
  <2>4. Under(new) \subseteq DOMAIN nodes
    BY UnderIn DEF IInv
  <2>. QED  BY <1>7, <2>2, <2>3, <2>4 DEF Whole
<1>16. ASSUME NEW n \in DOMAIN nodes, n # g, n \notin Under(nodes[g].left),
              NEW t \in Sides, at \in Under(nodes[n][t])
       PROVE  Under(new) \subseteq Under(nodes[n][t])
  <2>1. nodes[n][t] \in DOMAIN nodes
    BY <1>16 DEF IInv, Shape, Under
  <2>2. at \in Under(g)
    BY <1>3, UnderStep DEF IInv
  <2>3. n \notin Under(new)
    <3>1. at \in Under(n)
      BY <1>16, UnderChild DEF IInv
    <3>. QED  BY <3>1, <1>3, UnderTrans DEF IInv
  <2>4. n \notin Under(g)
    BY <2>3, <1>3, <1>16, UnderStep DEF IInv
  <2>5. g \in Under(nodes[n][t])
    <3>1. g \in Under(nodes[n][t]) \/ nodes[n][t] \in Under(g)
      BY <1>3, <1>16, <2>1, <2>2, UnderFork DEF IInv
    <3>2. ASSUME nodes[n][t] \in Under(g) PROVE nodes[n][t] = g
      BY <3>2, <2>1, <2>4, <1>3, ParentUnder, NullIsNoNode DEF IInv
    <3>3. nodes[n][t] \in Under(nodes[n][t])
      BY <2>1, UnderSelf DEF IInv
    <3>. QED  BY <3>1, <3>2, <3>3
  <2>6. Under(new) \subseteq Under(g)
    BY <1>3, UnderStep DEF IInv
  <2>7. Under(g) \subseteq Under(nodes[n][t])
    BY <2>5, UnderTrans DEF IInv
  <2>. QED  BY <2>6, <2>7
<1>17. Sorted'
  <2> SUFFICES ASSUME NEW n \in DOMAIN nodes, n # g
               PROVE  /\ \A m \in Under(nodes[n].left)' : KeyAt(n) < KeyAt(m)'
                      /\ \A m \in Under(nodes[n].right)' : KeyAt(m)' < KeyAt(n)
    BY <1>1, <1>7 DEF Sorted
  <2>1. nodes[n].left \in DOMAIN nodes \cup {NULL} /\ nodes[n].right \in DOMAIN nodes \cup {NULL}
    BY DEF IInv, Shape, Sides
  <2>2. \A m \in Under(nodes[n].left) \cup Under(nodes[n].right) \cup Under(new) :
            m \in DOMAIN nodes /\ KeyAt(m)' = KeyAt(m)
    BY <1>7, UnderIn DEF IInv
  <2>3. /\ \A m \in Under(nodes[n].left) : KeyAt(n) < KeyAt(m)
        /\ \A m \in Under(nodes[n].right) : KeyAt(m) < KeyAt(n)
    BY <1>3 DEF IInv, Sorted
  <2>4. \A m \in DOMAIN nodes : KeyAt(m) \in Int
    BY KeyAtType DEF IInv
  <2>5. ASSUME NEW m \in Under(nodes[n].left)' PROVE KeyAt(n) < KeyAt(m)'
    <3>1. nodes'[n].left = nodes[n].left
      BY <1>4 DEF Sides
    <3>2. m \in Under(nodes[n].left) \/ (m \in Under(new) /\ at \in Under(nodes[n].left))
      BY <2>5, <3>1, <2>1, <1>4
    <3>3. m \in Under(nodes[n].left)
      <4>1. at \in Under(nodes[n].left) => n \notin Under(nodes[g].left)
        BY <1>3
      <4>. QED  BY <3>2, <4>1, <1>16 DEF Sides
    <3>. QED  BY <3>3, <2>2, <2>3
  <2>6. ASSUME NEW m \in Under(nodes[n].right)' PROVE KeyAt(m)' < KeyAt(n)
    <3>1. m \in Under(nodes[n].right) \/ (m \in Under(new) /\ (n = at \/ at \in Under(nodes[n].right)))
      <4>1. CASE n = at
        <5>1. PICK b \in DOMAIN nodes : b = new
          BY <1>3
        <5>2. Under(b)' = Under(b)
          <6>1. at \notin Under(b)
            BY <5>1, <1>3
          <6>. QED  BY <6>1, <1>4
        <5>3. nodes'[n].right = b
          BY <4>1, <5>1, <1>4 DEF Sides
        <5>. QED  BY <2>6, <4>1, <5>1, <5>2, <5>3
      <4>2. CASE n # at
        <5>1. nodes'[n].right = nodes[n].right
          BY <4>2, <1>4 DEF Sides
        <5>. QED  BY <2>6, <5>1, <2>1, <1>4
      <4>. QED  BY <4>1, <4>2
    <3>2. CASE m \in Under(nodes[n].right)
      BY <3>2, <2>2, <2>3
    <3>3. CASE m \in Under(new) /\ n \in Under(nodes[g].left)
      <4>1. KeyAt(m) < KeyAt(g) /\ KeyAt(g) < KeyAt(n)
        BY <3>3, <1>3
      <4>. QED  BY <4>1, <3>3, <2>2, <2>4, <1>3
    <3>4. CASE m \notin Under(nodes[n].right) /\ n \notin Under(nodes[g].left)
      <4>1. at \in Under(nodes[n].right) /\ m \in Under(new)
        BY <3>1, <3>4, <1>3
      <4>. QED  BY <4>1, <3>4, <1>16, <2>2, <2>3 DEF Sides
    <3>. QED  BY <3>1, <3>2, <3>3, <3>4
  <2>. QED  BY <2>5, <2>6
<1>18. Distinct'
  BY <1>3, <1>7 DEF IInv, Distinct
<1>19. Unlinking'
  <2>1. Child' = nodes[g].left
    BY <1>3, <1>7, <1>8, NullIsNoNode DEF Child, IInv
  <2>2. Loose(nodes[g].left)'
    <3> SUFFICES ASSUME NEW q \in DOMAIN nodes, NEW t \in Sides, nodes'[q][t] = nodes[g].left, q # g
                 PROVE  FALSE
      BY <1>1, <1>4, <1>7, <1>8 DEF Loose, Hangs
    <3>1. nodes[q][t] = nodes[g].left
      BY <1>4, <1>9
    <3>. QED  BY <3>1, <1>3, SameField, NullIsNoNode DEF IInv, Sides
  <2>3. Under(g) = {g} \cup Under(nodes[g].left) \cup Under(new)
    BY <1>3, UnderStep DEF IInv
  <2>4. Under(nodes[g].left)' = Under(nodes[g].left) \cup Under(new)
    <3>1. \A n \in DOMAIN nodes : n = nodes[g].left => Under(n)' = Under(nodes[g].left) \cup Under(new)
      BY <1>3, <1>4
    <3>. QED  BY <3>1, <1>3, <1>8
  <2>5. Under(g)' = {g} \cup Under(nodes[g].left) \cup Under(new)
    BY <2>3, <1>3, <1>4
  <2>6. Under(Gone)' = {g} \cup Under(Child)'
    <3>1. Under(Gone)' = Under(g)'
      BY <1>7
    <3>2. Under(Child)' = Under(nodes[g].left) \cup Under(new)
      <4>1. Under(Child)' = Under(nodes[g].left)'
        BY <2>1, <1>8
      <4>. QED  BY <4>1, <2>4
    <3>. QED  BY <3>1, <3>2, <2>5
  <2>7. Loose(Child)'
    BY <2>1, <2>2, <1>8
  <2>. QED  BY <2>6, <2>7, <1>7 DEF Unlinking
<1>. QED  BY <1>1, <1>4, <1>10, <1>11, <1>14, <1>15, <1>17, <1>18, <1>19
          DEF IInv, Putting, Seeking, Merging

LEMMA ReplaceNode ==
    ASSUME IInv, pc = "put", Replace
    PROVE  /\ DOMAIN nodes' = InTree
           /\ nodes' \in [DOMAIN nodes' -> Field]
           /\ nodes'[at].key = nodes[new].key /\ nodes'[at].val = nodes[new].val
           /\ \A n \in InTree \ {at} : nodes'[n] = nodes[n]
           /\ \A n \in InTree : \A s \in Sides : nodes'[n][s] = nodes[n][s]
           /\ \A n \in InTree : nodes'[n].left = nodes[n].left /\ nodes'[n].right = nodes[n].right
<1>1. /\ nodes' = [Without(new) EXCEPT ![at].key = nodes[new].key, ![at].val = nodes[new].val]
      /\ new \in DOMAIN nodes /\ at \in DOMAIN nodes \ {new} /\ InTree = DOMAIN nodes \ {new}
  BY PutFacts DEF Replace
<1> DEFINE W == Without(new)
<1>2. DOMAIN W = DOMAIN nodes \ {new} /\ \A n \in DOMAIN W : W[n] = nodes[n] /\ W[n] \in Field
  BY DEF Without, IInv, Shape
<1>3. nodes' = [W EXCEPT ![at].key = nodes[new].key, ![at].val = nodes[new].val]
  BY <1>1
<1>4. W \in [DOMAIN W -> Field]
  BY <1>2 DEF Without
<1>5. nodes[new].key \in Ptr /\ nodes[new].val \in Val \cup {NULL}
  BY <1>1 DEF IInv, Shape, Field
<1> HIDE DEF W
<1>6. DOMAIN nodes' = DOMAIN W
  BY <1>3, <1>4
<1>7. /\ nodes'[at].key = nodes[new].key /\ nodes'[at].val = nodes[new].val
      /\ nodes'[at].left = W[at].left /\ nodes'[at].right = W[at].right
      /\ nodes'[at] \in Field
  <2>1. at \in DOMAIN W /\ W[at] \in Field
    BY <1>1, <1>2
  <2>2. nodes'[at] = [W[at] EXCEPT !.key = nodes[new].key, !.val = nodes[new].val]
    BY <1>3, <1>4, <2>1
  <2>. QED  BY <1>5, <2>1, <2>2 DEF Field
<1>8. \A n \in DOMAIN W \ {at} : nodes'[n] = W[n]
  BY <1>1, <1>3, <1>4
<1>9. nodes' \in [DOMAIN nodes' -> Field]
  BY <1>2, <1>3, <1>4, <1>6, <1>7, <1>8
<1>10. \A n \in InTree : nodes'[n].left = nodes[n].left /\ nodes'[n].right = nodes[n].right
  BY <1>1, <1>2, <1>7, <1>8
<1>11. \A n \in InTree : \A s \in Sides : nodes'[n][s] = nodes[n][s]
  BY <1>10 DEF Sides
<1>12. DOMAIN nodes' = InTree /\ DOMAIN W = InTree /\ at \in InTree
  <2>1. InTree = DOMAIN nodes \ {new} /\ at \in DOMAIN nodes \ {new}
    BY <1>1
  <2>. QED  BY <1>2, <1>6, <2>1
<1>13. \A n \in InTree \ {at} : nodes'[n] = nodes[n]
  BY <1>2, <1>8, <1>12
<1>14. nodes'[at].key = nodes[new].key /\ nodes'[at].val = nodes[new].val
  BY <1>7
<1>. QED  BY <1>9, <1>10, <1>11, <1>12, <1>13, <1>14

LEMMA ReplaceIInv ==
    ASSUME Fits, IInv, Replace
    PROVE  IInv'
<1>1. /\ pc \in {"put", "merge"} /\ cmp(KeyAt(at), KeyAt(new)) = 0 /\ root' = root
      /\ pc = "put" => pc' = "idle" /\ slot' = RootSlot /\ held' = NULL
  BY DEF Replace, Placing, Placed, Done
<1>2. at \in DOMAIN nodes /\ new \in DOMAIN nodes
  BY <1>1, PutFacts, MergeFacts
<1>3. KeyAt(at) = KeyAt(new)
  BY <1>1, <1>2, KeyAtType, SideIs DEF IInv
<1>4. pc = "put"
  BY <1>1, <1>3, MergeFacts
<1>5. /\ new \in DOMAIN nodes /\ at \in InTree
      /\ InTree = DOMAIN nodes \ {new} /\ Gone = NULL
      /\ nodes[new].left = NULL /\ nodes[new].right = NULL
      /\ Loose(new)
  BY <1>4, PutFacts
<1>6. /\ DOMAIN nodes' = InTree
      /\ nodes' \in [DOMAIN nodes' -> Field]
      /\ nodes'[at].key = nodes[new].key /\ nodes'[at].val = nodes[new].val
      /\ \A n \in InTree \ {at} : nodes'[n] = nodes[n]
      /\ \A n \in InTree : \A s \in Sides : nodes'[n][s] = nodes[n][s]
      /\ \A n \in InTree : nodes'[n].left = nodes[n].left /\ nodes'[n].right = nodes[n].right
  BY <1>4, ReplaceNode
<1>7. \A n \in InTree : KeyAt(n)' = KeyAt(n)
  BY <1>3, <1>6 DEF KeyAt
<1>8. Gone' = NULL /\ InTree' = InTree
  BY <1>1, <1>4, <1>6 DEF Gone, InTree
<1>9. \A n \in InTree, s \in Sides : nodes[n][s] \in InTree \cup {NULL}
  BY <1>4, <1>5 DEF IInv, Shape, Loose, Hangs
<1>10. /\ DOMAIN Kids' = InTree
       /\ \A n \in InTree : Kids'[n] = Kids[n]
       /\ DOMAIN Kids = DOMAIN nodes /\ Kids[new] = {}
  BY <1>5, <1>6 DEF Kids, Children
<1>11. IsGraph(Kids')
  <2>1. \A n \in InTree : Kids'[n] = {nodes[n].left, nodes[n].right} \ {NULL}
    BY <1>5, <1>10 DEF Kids, Children
  <2>. QED  BY <1>9, <1>10, <2>1 DEF IsGraph, Sides
<1>12. \A n \in InTree : Reach(Kids, n) = Reach(Kids', n)
  <2>1. new \notin InTree /\ DOMAIN nodes = InTree \cup {new}
    BY <1>5
  <2>. QED  BY <2>1, <1>10, <1>11, ReachNewNode
<1>13. \A n \in InTree \cup {NULL} : Under(n)' = Under(n)
  BY <1>12 DEF Under
<1>14. root \in InTree \cup {NULL}
  BY <1>5, UnderSelf DEF IInv, Shape, Whole
<1>15. Shape'
  <2>1. nodes[new].val # NULL
    BY <1>5, NullIsNoNode DEF IInv, Shape
  <2>2. \A n \in InTree : nodes'[n].val # NULL
    BY <1>5, <1>6, <2>1, NullIsNoNode DEF IInv, Shape
  <2>3. IsFiniteSet(DOMAIN nodes') /\ DOMAIN nodes' \subseteq Node
    BY <1>5, <1>6, FS_Subset DEF IInv, Shape
  <2>4. NULL \notin InTree
    BY <1>5, NullIsNoNode DEF IInv
  <2>. QED  BY <1>1, <1>4, <1>6, <1>8, <1>9, <1>14, <2>2, <2>3, <2>4 DEF Shape
<1>16. Calls'
  BY <1>1, <1>4 DEF Calls
<1>17. Hung'
  <2>1. \A m, q \in InTree, s \in Sides : Hangs(m, q, s)' <=> Hangs(m, q, s)
    BY <1>1, <1>4, <1>6 DEF Hangs
  <2>2. root # NULL => Loose(root)'
    BY <1>1, <1>5, <1>6, <1>14, <2>1 DEF IInv, Hung, Loose
  <2>. QED  BY <1>1, <1>4, <1>5, <1>6, <2>1, <2>2 DEF IInv, Hung
<1>18. Acyclic(Kids)'
  <2> SUFFICES ASSUME NEW n \in InTree, NEW c \in Kids[n] PROVE n \notin Reach(Kids', c)
    BY <1>10 DEF Acyclic
  <2>1. c \in InTree
    BY <1>10, <1>11 DEF IsGraph
  <2>. QED  BY <2>1, <1>5, <1>10, <1>12 DEF IInv, Acyclic
<1>19. Whole'
  BY <1>1, <1>8, <1>13, <1>14 DEF IInv, Whole
<1>20. Sorted'
  <2> SUFFICES ASSUME NEW n \in InTree
               PROVE  /\ \A m \in Under(nodes[n].left)' : KeyAt(n) < KeyAt(m)'
                      /\ \A m \in Under(nodes[n].right)' : KeyAt(m)' < KeyAt(n)
    BY <1>7, <1>8 DEF Sorted
  <2>1. nodes[n].left \in InTree \cup {NULL} /\ nodes[n].right \in InTree \cup {NULL}
    BY <1>9 DEF Sides
  <2>2. Under(nodes[n].left)' = Under(nodes[n].left) /\ Under(nodes[n].right)' = Under(nodes[n].right)
    BY <1>6, <1>13, <2>1
  <2>3. Under(nodes[n].left)' \subseteq InTree /\ Under(nodes[n].right)' \subseteq InTree
    BY <1>6, <1>10, <2>1, ReachIn DEF Under
  <2>4. /\ \A m \in Under(nodes[n].left) : KeyAt(n) < KeyAt(m)
        /\ \A m \in Under(nodes[n].right) : KeyAt(m) < KeyAt(n)
    BY <1>4 DEF IInv, Sorted
  <2>. QED  BY <2>2, <2>3, <2>4, <1>7
<1>21. Distinct'
  BY <1>7, <1>8 DEF IInv, Distinct
<1>. QED  BY <1>1, <1>4, <1>15, <1>16, <1>17, <1>18, <1>19, <1>20, <1>21
          DEF IInv, Putting, Seeking, Merging, Unlinking

-----------------------------------------------------------------------------
(* node_remove. *)

LEMMA RemoveHitIInv ==
    ASSUME Fits, IInv, RemoveHit
    PROVE  IInv'
<1>1. /\ pc = "search" /\ Cur # NULL /\ cmp(KeyAt(Cur), op[2]) = 0 /\ op[1] # "get"
      /\ held' = nodes[Cur].val
      /\ nodes' = [nodes EXCEPT ![Cur].val = NULL]
      /\ UNCHANGED <<root, slot, op>>
  BY DEF RemoveHit, Searching, Match
<1>2. PICK g \in DOMAIN nodes : g = Cur
  BY <1>1, CurIs
<1>3. IF nodes[g].left # NULL /\ nodes[g].right # NULL
      THEN pc' = "merge" /\ at' = nodes[g].left /\ new' = nodes[g].right
      ELSE pc' = "unlink"
  BY <1>2 DEF RemoveHit
<1>4. /\ DOMAIN nodes' = DOMAIN nodes
      /\ nodes' \in [DOMAIN nodes' -> Field]
      /\ \A n \in DOMAIN nodes : nodes'[n].left = nodes[n].left /\ nodes'[n].right = nodes[n].right
      /\ \A n \in DOMAIN nodes : nodes'[n].key = nodes[n].key
      /\ \A n \in DOMAIN nodes : nodes'[n].val = IF n = g THEN NULL ELSE nodes[n].val
  BY <1>1, <1>2 DEF IInv, Shape, Field
<1>5. Kids' = Kids /\ \A n : Under(n)' = Under(n)
  BY <1>4, SameKids
<1>6. \A n \in DOMAIN nodes, s \in Sides : nodes'[n][s] = nodes[n][s]
  BY <1>4 DEF Sides
<1>7. Cur' = g
  <2>1. CASE slot = RootSlot
    BY <2>1, <1>1, <1>2 DEF Cur
  <2>2. CASE slot # RootSlot
    <3>1. slot \in (DOMAIN nodes) \X Sides
      BY <2>2 DEF IInv, Calls
    <3>2. nodes'[slot[1]][slot[2]] = nodes[slot[1]][slot[2]]
      BY <3>1, <1>6
    <3>. QED  BY <2>2, <3>2, <1>1, <1>2 DEF Cur
  <2>. QED  BY <2>1, <2>2
<1>8. /\ Gone = NULL /\ Gone' = g
      /\ InTree = DOMAIN nodes /\ InTree' = DOMAIN nodes
      /\ \A n \in DOMAIN nodes : KeyAt(n)' = KeyAt(n)
  BY <1>1, <1>3, <1>4, <1>7 DEF Gone, InTree, KeyAt
<1>9. g # NULL /\ \A n \in DOMAIN nodes : nodes[n].val # NULL
  BY <1>1, <1>2, <1>8, NullIsNoNode DEF IInv, Shape
<1>10. Shape'
  BY <1>1, <1>3, <1>4, <1>6, <1>8, <1>9 DEF IInv, Shape
<1>11. Calls'
  <2>1. op \in {"get", "remove", "delete"} \X Key
    BY <1>1 DEF IInv, Calls
  <2>2. op \in {"remove", "delete"} \X Key /\ op[2] \in Key
    BY <2>1, <1>1
  <2>3. KeyAt(g) = op[2]
    BY <2>2, <1>1, <1>2, SideIs DEF IInv
  <2>4. held' \in Val /\ held' # NULL
    BY <1>1, <1>2, <1>9 DEF IInv, Shape, Field
  <2>5. KeyAt(Cur)' = op[2]
    BY <1>7, <1>8, <2>3
  <2>. QED  BY <1>1, <1>3, <1>4, <1>7, <2>2, <2>4, <2>5 DEF IInv, Calls
<1>12. \A n, q \in DOMAIN nodes, s \in Sides :
           Hangs(n, q, s)' => Hangs(n, q, s) /\ ~(pc' = "unlink" /\ q = g)
  BY <1>1, <1>6, <1>8 DEF Hangs
<1>13. Hung'
  <2>1. root # NULL => Loose(root)'
    <3>1. ASSUME root # NULL PROVE root \in DOMAIN nodes /\ Loose(root)
      BY <3>1 DEF IInv, Hung, Shape
    <3>. QED  BY <3>1, <1>1, <1>4, <1>12 DEF Loose
  <2>. QED  BY <2>1, <1>1, <1>3, <1>4, <1>12 DEF IInv, Hung
<1>14. Acyclic(Kids)' /\ Whole'
  BY <1>1, <1>5, <1>8 DEF IInv, Whole, Acyclic
<1>15. Sorted' /\ Distinct'
  <2>1. \A n \in DOMAIN nodes : /\ Under(nodes[n].left)' = Under(nodes[n].left)
                                /\ Under(nodes[n].right)' = Under(nodes[n].right)
    BY <1>4, <1>5
  <2>2. \A n \in DOMAIN nodes : /\ \A m \in Under(nodes[n].left) : KeyAt(n) < KeyAt(m)
                                /\ \A m \in Under(nodes[n].right) : KeyAt(m) < KeyAt(n)
    BY <1>1, <1>8 DEF IInv, Sorted
  <2>3. \A n : Under(n) \subseteq DOMAIN nodes
    BY UnderIn DEF IInv
  <2>4. Sorted'
    BY <1>8, <2>1, <2>2, <2>3 DEF Sorted
  <2>. QED  BY <2>4, <1>8 DEF IInv, Distinct
<1>16. Merging'
  <2> SUFFICES ASSUME pc' = "merge" PROVE Merging'
    BY DEF Merging
  <2>1. nodes[g].left # NULL /\ nodes[g].right # NULL /\ at' = nodes[g].left /\ new' = nodes[g].right
    BY <1>3
  <2>2. nodes[g].left \in DOMAIN nodes
    BY <2>1 DEF IInv, Shape, Sides
  <2>3. \A n \in Under(nodes[g].left) : nodes[g].left \notin Under(nodes[n].left)
    <3> SUFFICES ASSUME NEW n \in Under(nodes[g].left), nodes[g].left \in Under(nodes[n].left)
                 PROVE  FALSE
      OBVIOUS
    <3>1. n \in DOMAIN nodes
      BY UnderIn DEF IInv
    <3>2. n \in Under(nodes[n].left)
      BY UnderTrans DEF IInv
    <3>. QED  BY <3>1, <3>2, UnderAcyclic DEF IInv, Sides
  <2>4. nodes[g].left \in Under(nodes[g].left)
    BY <2>2, UnderSelf DEF IInv
  <2>. QED  BY <1>4, <1>5, <1>8, <2>1, <2>2, <2>3, <2>4, UnderIn DEF IInv, Merging
<1>17. Unlinking'
  <2> SUFFICES ASSUME pc' = "unlink" PROVE Unlinking'
    BY DEF Unlinking
  <2>1. nodes[g].left = NULL \/ nodes[g].right = NULL
    BY <1>3
  <2>2. PICK s \in Sides : Child' = nodes[g][s]
    BY <1>4, <1>8 DEF Child, Sides
  <2>3. Under(g) = {g} \cup Under(nodes[g][s])
    <3>1. Under(g) = {g} \cup Under(nodes[g].left) \cup Under(nodes[g].right)
      BY UnderStep DEF IInv
    <3>2. Child' = IF nodes[g].left # NULL THEN nodes[g].left ELSE nodes[g].right
      BY <1>4, <1>8 DEF Child
    <3>. QED  BY <3>1, <3>2, <2>1, <2>2 DEF Under
  <2>4. Under(Gone)' = {g} \cup Under(Child)'
    BY <1>5, <1>8, <2>2, <2>3
  <2>5. ASSUME nodes[g][s] # NULL, NEW q \in DOMAIN nodes, NEW t \in Sides PROVE ~Hangs(nodes[g][s], q, t)'
    <3>1. nodes'[q][t] = nodes[g][s] => q = g
      BY <2>5, <1>1, <1>6, SameField
    <3>. QED  BY <3>1, <1>1, <1>4, <1>6, <1>8 DEF Hangs
  <2>6. Child' # NULL => Loose(Child)'
    BY <2>2, <2>5, <1>4, <1>6 DEF Loose
  <2>. QED  BY <2>4, <2>6, <1>8 DEF Unlinking
<1>. QED  BY <1>3, <1>10, <1>11, <1>13, <1>14, <1>15, <1>16, <1>17 DEF IInv, Putting, Seeking

LEMMA UnlinkFacts ==
    ASSUME IInv, pc = "unlink", NEW g, g = Gone
    PROVE  /\ g \in DOMAIN nodes /\ g = Cur /\ InTree = DOMAIN nodes
           /\ Child \in (DOMAIN nodes \ {g}) \cup {NULL}
           /\ g \notin Under(Child)
           /\ Child # NULL => Child \in Kids[g] /\ Loose(Child)
           /\ Under(g) = {g} \cup Under(Child)
           /\ \A s \in Sides : nodes[g][s] # g
           /\ \A p, q \in DOMAIN nodes, s, t \in Sides :
                 nodes[p][s] = g /\ nodes[q][t] = g => p = q /\ s = t
           /\ root = g => \A p \in DOMAIN nodes, s \in Sides : nodes[p][s] # g
<1>1. g = Cur /\ g \in DOMAIN nodes /\ InTree = DOMAIN nodes
  BY DEF Gone, IInv, Calls, InTree
<1>2. Under(g) = {g} \cup Under(Child) /\ (Child # NULL => Loose(Child))
  BY DEF IInv, Unlinking
<1>3. ASSUME NEW s \in Sides PROVE nodes[g][s] # g
  <2>1. g \in Under(g) /\ g \notin Under(nodes[g][s])
    BY <1>1, UnderSelf, UnderAcyclic DEF IInv
  <2>. QED  BY <2>1
<1>4. PICK s \in Sides : Child = nodes[g][s]
  BY DEF Child, Sides
<1>5. Child \in (DOMAIN nodes \ {g}) \cup {NULL} /\ g \notin Under(Child)
  BY <1>1, <1>3, <1>4, UnderAcyclic DEF IInv, Shape
<1>6. Child # NULL => Child \in Kids[g]
  BY <1>1, <1>4, KidsGraph DEF IInv, Children, Sides
<1>7. \A p \in DOMAIN nodes, t \in Sides : nodes[p][t] = g => Hangs(g, p, t)
  BY <1>3 DEF Hangs
<1>8. \A p, q \in DOMAIN nodes, t, u \in Sides : nodes[p][t] = g /\ nodes[q][u] = g => p = q /\ t = u
  BY <1>1, <1>7 DEF IInv, Hung
<1>9. root = g => \A p \in DOMAIN nodes, t \in Sides : nodes[p][t] # g
  BY <1>1, <1>7, NullIsNoNode DEF IInv, Hung, Loose
<1>. QED  BY <1>1, <1>2, <1>3, <1>5, <1>6, <1>8, <1>9

LEMMA UnlinkNode ==
    ASSUME IInv, Unlink, NEW g \in DOMAIN nodes, g = Gone
    PROVE  /\ pc = "unlink" /\ pc' = "idle" /\ slot' = RootSlot /\ held' = NULL
           /\ DOMAIN nodes' = DOMAIN nodes \ {g}
           /\ nodes' \in [DOMAIN nodes' -> Field]
           /\ \A n \in DOMAIN nodes \ {g} : nodes'[n].key = nodes[n].key /\ nodes'[n].val = nodes[n].val
           /\ \A n \in DOMAIN nodes \ {g} : \A s \in Sides :
                 nodes'[n][s] = IF nodes[n][s] = g THEN Child ELSE nodes[n][s]
           /\ root' = IF root = g THEN Child ELSE root
<1>1. /\ pc = "unlink" /\ pc' = "idle" /\ slot' = RootSlot /\ held' = NULL
      /\ IF slot = RootSlot
         THEN root' = Child /\ nodes' = Without(g)
         ELSE nodes' = [Without(g) EXCEPT ![slot[1]][slot[2]] = Child] /\ root' = root
  BY DEF Unlink, Done, Child, Gone
<1>2. /\ g = Cur
      /\ Child \in (DOMAIN nodes \ {g}) \cup {NULL}
      /\ \A s \in Sides : nodes[g][s] # g
      /\ \A p, q \in DOMAIN nodes, s, t \in Sides :
            nodes[p][s] = g /\ nodes[q][t] = g => p = q /\ s = t
      /\ root = g => \A p \in DOMAIN nodes, s \in Sides : nodes[p][s] # g
  BY <1>1, UnlinkFacts
<1> DEFINE W == Without(g)
<1>3. /\ DOMAIN W = DOMAIN nodes \ {g} /\ W \in [DOMAIN W -> Field]
      /\ \A n \in DOMAIN W : W[n] = nodes[n]
  BY DEF Without, IInv, Shape
<1>4. Child \in Node \cup {NULL}
  BY <1>2 DEF IInv, Shape
<1>5. CASE slot = RootSlot
  <2>1. root = g /\ root' = Child /\ nodes' = W
    BY <1>1, <1>2, <1>5 DEF Cur
  <2> HIDE DEF W
  <2>2. \A n \in DOMAIN nodes \ {g} : nodes'[n] = nodes[n]
    BY <2>1, <1>3
  <2>3. \A n \in DOMAIN nodes, s \in Sides : nodes[n][s] # g
    BY <2>1, <1>2
  <2>. QED  BY <1>1, <1>3, <2>1, <2>2, <2>3
<1>6. CASE slot # RootSlot
  <2>1. PICK p \in DOMAIN nodes, s \in Sides : slot = <<p, s>>
    BY <1>6 DEF IInv, Calls
  <2>2. nodes[p][s] = g
    BY <2>1, <1>2, <1>6 DEF Cur
  <2>3. p \in DOMAIN W /\ root # g /\ root' = root
    BY <2>2, <1>1, <1>2, <1>3, <1>6
  <2>4. nodes' = [W EXCEPT ![p][s] = Child]
    BY <2>1, <1>1, <1>6
  <2> HIDE DEF W
  <2>5. DOMAIN nodes' = DOMAIN W
    BY <2>4, <1>3
  <2>6. \A n \in DOMAIN W \ {p} : nodes'[n] = nodes[n]
    BY <2>4, <1>3
  <2>7. nodes'[p] = [nodes[p] EXCEPT ![s] = Child]
    BY <2>3, <2>4, <1>3
  <2>8. nodes[p] \in Field
    BY DEF IInv, Shape
  <2>9. /\ nodes'[p] \in Field
        /\ nodes'[p].key = nodes[p].key /\ nodes'[p].val = nodes[p].val
        /\ \A t \in Sides : nodes'[p][t] = IF t = s THEN Child ELSE nodes[p][t]
    BY <2>7, <2>8, <1>4 DEF Field, Sides
  <2>10. nodes' \in [DOMAIN nodes' -> Field]
    <3>1. nodes' = [n \in DOMAIN W |-> nodes'[n]]
      BY <2>4
    <3>2. \A n \in DOMAIN W : nodes'[n] \in Field
      BY <2>6, <2>9, <1>3
    <3>. QED  BY <3>1, <3>2, <2>5
  <2>11. \A n \in DOMAIN nodes \ {g} : nodes'[n].key = nodes[n].key /\ nodes'[n].val = nodes[n].val
    BY <2>6, <2>9, <1>3
  <2>12. \A n \in DOMAIN nodes \ {g} : \A t \in Sides :
            nodes'[n][t] = IF nodes[n][t] = g THEN Child ELSE nodes[n][t]
    BY <2>2, <2>6, <2>9, <1>2, <1>3
  <2>. QED  BY <1>1, <1>3, <2>3, <2>5, <2>10, <2>11, <2>12
<1>. QED  BY <1>5, <1>6

LEMMA UnlinkIInv ==
    ASSUME IInv, Unlink
    PROVE  IInv'
<1>1. PICK g \in DOMAIN nodes : g = Gone
  BY UnlinkFacts DEF Unlink
<1>2. PICK child : child = Child
  OBVIOUS
<1>3. /\ pc = "unlink" /\ pc' = "idle" /\ slot' = RootSlot /\ held' = NULL
      /\ DOMAIN nodes' = DOMAIN nodes \ {g}
      /\ nodes' \in [DOMAIN nodes' -> Field]
      /\ \A n \in DOMAIN nodes \ {g} : nodes'[n].key = nodes[n].key /\ nodes'[n].val = nodes[n].val
      /\ \A n \in DOMAIN nodes \ {g} : \A s \in Sides :
            nodes'[n][s] = IF nodes[n][s] = g THEN child ELSE nodes[n][s]
      /\ root' = IF root = g THEN child ELSE root
  <2>1. /\ \A n \in DOMAIN nodes \ {g} : \A s \in Sides :
              nodes'[n][s] = IF nodes[n][s] = g THEN Child ELSE nodes[n][s]
        /\ root' = IF root = g THEN Child ELSE root
    BY <1>1, UnlinkNode
  <2>. QED  BY <2>1, <1>1, <1>2, UnlinkNode
<1>4. /\ InTree = DOMAIN nodes
      /\ child \in (DOMAIN nodes \ {g}) \cup {NULL}
      /\ g \notin Under(child)
      /\ child # NULL => child \in Kids[g] /\ Loose(child)
      /\ Under(g) = {g} \cup Under(child)
      /\ \A p, q \in DOMAIN nodes, s, t \in Sides :
            nodes[p][s] = g /\ nodes[q][t] = g => p = q /\ s = t
      /\ root = g => \A p \in DOMAIN nodes, s \in Sides : nodes[p][s] # g
  BY <1>1, <1>2, <1>3, UnlinkFacts
<1>5. g # NULL
  BY <1>4, NullIsNoNode DEF IInv
<1>6. Gone' = NULL /\ InTree' = DOMAIN nodes \ {g} /\ \A n \in DOMAIN nodes \ {g} : KeyAt(n)' = KeyAt(n)
  BY <1>3 DEF Gone, InTree, KeyAt
<1> DEFINE C == {child} \ {NULL}
<1>7. \A n \in DOMAIN nodes \ {g} : Kids'[n] = (Kids[n] \ {g}) \cup IF g \in Kids[n] THEN C ELSE {}
  <2> SUFFICES ASSUME NEW n \in DOMAIN nodes \ {g}
               PROVE  Kids'[n] = (Kids[n] \ {g}) \cup IF g \in Kids[n] THEN C ELSE {}
    OBVIOUS
  <2>1. Kids'[n] = {nodes'[n].left, nodes'[n].right} \ {NULL}
    BY <1>3 DEF Kids, Children
  <2>2. Kids[n] = {nodes[n].left, nodes[n].right} \ {NULL}
    BY DEF Kids, Children
  <2>3. /\ nodes'[n].left = IF nodes[n].left = g THEN child ELSE nodes[n].left
        /\ nodes'[n].right = IF nodes[n].right = g THEN child ELSE nodes[n].right
    BY <1>3 DEF Sides
  <2>. QED  BY <2>1, <2>2, <2>3, <1>5
<1>8. DOMAIN Kids' = DOMAIN nodes \ {g} /\ DOMAIN Kids = DOMAIN nodes /\ IsGraph(Kids)
  BY <1>3, KidsGraph DEF Kids, IInv
<1>9. Reach(Kids, g) = {g} \cup UNION {Reach(Kids, c) : c \in C}
  BY <1>4, <1>5 DEF Under
<1>10. /\ IsGraph(Kids')
       /\ \A n \in DOMAIN nodes \ {g} : Reach(Kids', n) = Reach(Kids, n) \ {g}
  <2>1. \A c \in Kids[g] : g \notin Reach(Kids, c)
    BY <1>4, <1>8 DEF IInv, Acyclic
  <2>2. C \in SUBSET Kids[g]
    BY <1>4
  <2> HIDE DEF C
  <2>. QED  BY <2>1, <2>2, <1>4, <1>7, <1>8, <1>9, ReachWithout
<1>11. \A n \in (DOMAIN nodes \ {g}) \cup {NULL} : Under(n)' = Under(n) \ {g}
  BY <1>10 DEF Under
<1>12. Shape'
  <2>1. \A n \in DOMAIN nodes' : nodes'[n].val # NULL
    BY <1>1, <1>3 DEF IInv, Shape
  <2>2. \A n \in DOMAIN nodes' : \A s \in Sides : nodes'[n][s] \in DOMAIN nodes' \cup {NULL}
    BY <1>3, <1>4 DEF IInv, Shape
  <2>3. IsFiniteSet(DOMAIN nodes')
    BY <1>3, FS_Subset DEF IInv, Shape
  <2>4. root' \in DOMAIN nodes' \cup {NULL}
    BY <1>3, <1>4 DEF IInv, Shape
  <2>5. NULL \notin DOMAIN nodes'
    BY <1>3, NullIsNoNode DEF IInv
  <2>. QED  BY <1>3, <1>6, <2>1, <2>2, <2>3, <2>4, <2>5 DEF IInv, Shape
<1>13. Calls'
  BY <1>3 DEF Calls
<1>14. ASSUME NEW m \in DOMAIN nodes', NEW p \in DOMAIN nodes', NEW s \in Sides, nodes'[p][s] = m
       PROVE  IF m = child THEN nodes[p][s] = g ELSE Hangs(m, p, s)
  <2>1. m # NULL /\ p \in DOMAIN nodes /\ p # g
    BY <1>3, NullIsNoNode DEF IInv
  <2>2. nodes[p][s] = m => Hangs(m, p, s)
    BY <2>1, <1>1 DEF Hangs
  <2>3. m = child => ~Hangs(m, p, s)
    BY <2>1, <1>4 DEF Loose
  <2>. QED  BY <1>3, <1>14, <2>1, <2>2, <2>3
<1>15. Hung'
  <2>1. \A m, p, q \in DOMAIN nodes' : \A s, t \in Sides :
            nodes'[p][s] = m /\ nodes'[q][t] = m => p = q /\ s = t
    <3> SUFFICES ASSUME NEW m \in DOMAIN nodes', NEW p \in DOMAIN nodes', NEW q \in DOMAIN nodes',
                        NEW s \in Sides, NEW t \in Sides, nodes'[p][s] = m, nodes'[q][t] = m
                 PROVE  p = q /\ s = t
      OBVIOUS
    <3>1. m \in DOMAIN nodes /\ p \in DOMAIN nodes /\ q \in DOMAIN nodes
      BY <1>3
    <3>2. CASE m = child
      <4>1. nodes[p][s] = g /\ nodes[q][t] = g
        BY <3>2, <1>14
      <4>. QED  BY <4>1, <3>1, <1>4
    <3>3. CASE m # child
      <4>1. Hangs(m, p, s) /\ Hangs(m, q, t)
        BY <3>3, <1>14
      <4>. QED  BY <4>1, <3>1 DEF IInv, Hung
    <3>. QED  BY <3>2, <3>3
  <2>2. ASSUME root' # NULL, NEW p \in DOMAIN nodes', NEW s \in Sides, nodes'[p][s] = root'
        PROVE  FALSE
    <3>1. p \in DOMAIN nodes /\ root' \in DOMAIN nodes'
      BY <1>3, <1>12, <2>2 DEF Shape
    <3>2. CASE root = g
      <4>1. root' = child
        BY <3>2, <1>3
      <4>2. nodes[p][s] = g
        BY <4>1, <3>1, <1>14, <2>2
      <4>. QED  BY <4>2, <3>1, <3>2, <1>4
    <3>3. CASE root # g
      <4>1. root' = root /\ root \in DOMAIN nodes /\ Loose(root)
        BY <3>1, <3>3, <1>3, <2>2 DEF IInv, Hung
      <4>2. root # child
        BY <4>1, <1>4 DEF IInv, Whole
      <4>3. Hangs(root, p, s)
        BY <4>1, <4>2, <3>1, <1>14, <2>2
      <4>. QED  BY <4>1, <4>3, <3>1 DEF Loose
    <3>. QED  BY <3>2, <3>3
  <2>. QED  BY <2>1, <2>2, <1>3 DEF Hung, Hangs, Loose
<1>16. Acyclic(Kids)'
  <2> SUFFICES ASSUME NEW n \in DOMAIN nodes \ {g}, NEW c \in Kids'[n], n \in Reach(Kids', c) PROVE FALSE
    BY <1>8 DEF Acyclic
  <2>1. c \in DOMAIN nodes \ {g}
    BY <1>8, <1>10 DEF IsGraph
  <2>2. n \in Reach(Kids, c)
    BY <2>1, <1>10
  <2>3. c \notin Kids[n]
    BY <2>2, <1>8 DEF IInv, Acyclic
  <2>4. g \in Kids[n] /\ c \in C
    BY <2>3, <1>7
  <2>5. n \in Reach(Kids, g)
    BY <2>2, <2>4, <1>9
  <2>. QED  BY <2>4, <2>5, <1>8 DEF IInv, Acyclic
<1>17. Whole'
  <2>1. Under(root) = DOMAIN nodes
    BY <1>4 DEF IInv, Whole
  <2>2. CASE root = g
    <3>1. Under(child) = DOMAIN nodes \ {g}
      BY <2>1, <2>2, <1>4
    <3>2. Under(child)' = Under(child) \ {g}
      BY <1>4, <1>11
    <3>3. Under(root)' = Under(child)'
      BY <2>2, <1>3
    <3>. QED  BY <3>1, <3>2, <3>3, <1>6 DEF Whole
  <2>3. CASE root # g
    <3>1. root' = root /\ root \in (DOMAIN nodes \ {g}) \cup {NULL}
      BY <2>3, <1>3 DEF IInv, Shape
    <3>2. Under(root)' = Under(root) \ {g}
      BY <3>1, <1>11
    <3>. QED  BY <2>1, <3>2, <1>6 DEF Whole
  <2>. QED  BY <2>2, <2>3
<1>18. Sorted'
  <2> SUFFICES ASSUME NEW n \in DOMAIN nodes \ {g}
               PROVE  /\ \A m \in Under(nodes[n].left)' : KeyAt(n) < KeyAt(m)'
                      /\ \A m \in Under(nodes[n].right)' : KeyAt(m)' < KeyAt(n)
    BY <1>6 DEF Sorted
  <2>1. /\ \A m \in Under(nodes[n].left) : KeyAt(n) < KeyAt(m)
        /\ \A m \in Under(nodes[n].right) : KeyAt(m) < KeyAt(n)
    BY <1>1, <1>4 DEF IInv, Sorted
  <2>2. ASSUME NEW s \in Sides PROVE Under(nodes[n][s])' \subseteq Under(nodes[n][s]) \ {g}
    <3>1. nodes[n][s] \in DOMAIN nodes \cup {NULL}
      BY DEF IInv, Shape
    <3>2. CASE nodes[n][s] = g
      <4>1. nodes'[n][s] = child
        BY <3>2, <1>3
      <4>2. Under(nodes[n][s])' = Under(child)'
        BY <4>1
      <4>3. Under(child)' = Under(child) \ {g}
        BY <1>4, <1>11
      <4>. QED  BY <4>2, <4>3, <3>2, <1>4
    <3>3. CASE nodes[n][s] # g
      <4>1. nodes'[n][s] = nodes[n][s]
        BY <3>3, <1>3
      <4>. QED  BY <4>1, <3>1, <3>3, <1>11
    <3>. QED  BY <3>2, <3>3
  <2>3. \A s \in Sides : Under(nodes[n][s]) \subseteq DOMAIN nodes
    BY UnderIn DEF IInv
  <2>4. /\ Under(nodes[n].left)' \subseteq Under(nodes[n].left) \cap (DOMAIN nodes \ {g})
        /\ Under(nodes[n].right)' \subseteq Under(nodes[n].right) \cap (DOMAIN nodes \ {g})
    BY <2>2, <2>3 DEF Sides
  <2>. QED  BY <2>1, <2>4, <1>6
<1>19. Distinct'
  BY <1>4, <1>6 DEF IInv, Distinct
<1>. QED  BY <1>3, <1>12, <1>13, <1>15, <1>16, <1>17, <1>18, <1>19
          DEF IInv, Putting, Seeking, Merging, Unlinking

-----------------------------------------------------------------------------
(* a_bintree_axe, and all steps. *)

LEMMA AxeIInv ==
    ASSUME IInv, Axe
    PROVE  IInv'
<1>1. /\ pc = "idle" /\ pc' = "idle" /\ root' = NULL /\ slot' = RootSlot /\ held' = NULL
      /\ nodes' = [n \in DOMAIN nodes \ Below(root) |-> nodes[n]]
  BY DEF Axe, Done
<1>2. Below(root) = DOMAIN nodes
  BY <1>1, InvBelow DEF IInv, Shape, Whole, InTree
<1>3. DOMAIN nodes' = {} /\ nodes' \in [{} -> Field]
  BY <1>1, <1>2
<1>4. Shape'
  BY <1>1, <1>3, FS_EmptySet DEF Shape
<1>5. Acyclic(Kids)'
  BY <1>3 DEF Kids, Acyclic
<1>. QED  BY <1>1, <1>3, <1>4, <1>5 DEF IInv, Calls, Hung, Whole, InTree, Under, Sorted, Distinct,
                                        Putting, Seeking, Merging, Unlinking

LEMMA NextIInv ==
    ASSUME Fits, IInv, [Next]_vars
    PROVE  IInv'
<1>1. CASE UNCHANGED vars
  <2>1. Kids' = Kids /\ \A n : Under(n)' = Under(n)
    BY <1>1, SameKids DEF vars
  <2>2. Cur' = Cur /\ Gone' = Gone /\ InTree' = InTree /\ \A n : KeyAt(n)' = KeyAt(n)
    BY <1>1 DEF vars, Cur, Gone, InTree, KeyAt
  <2>3. Shape' /\ Calls'
    BY <1>1, <2>2 DEF vars, IInv, Shape, Calls, KeyAt
  <2>4. Hung'
    BY <1>1, <2>2 DEF vars, IInv, Hung, Hangs, Loose, Children
  <2>5. Acyclic(Kids)' /\ Whole' /\ Sorted' /\ Distinct'
    BY <1>1, <2>1, <2>2 DEF vars, IInv, Acyclic, Whole, Sorted, Distinct
  <2>6. Putting' /\ Seeking'
    BY <1>1, <2>1, <2>2 DEF vars, IInv, Putting, Seeking, KeyAt
  <2>7. Merging' /\ Unlinking'
    BY <1>1, <2>1, <2>2 DEF vars, IInv, Merging, Unlinking, Child, Loose, Hangs
  <2>. QED  BY <2>3, <2>4, <2>5, <2>6, <2>7 DEF IInv
<1>2. ASSUME NEW p \in Ptr, NEW v \in Val, PutRoot(p, v) PROVE IInv'
  BY <1>2, PutRootIInv
<1>3. ASSUME NEW p \in Ptr, NEW v \in Val, Put(p, v) PROVE IInv'
  BY <1>3, PutIInv
<1>4. ASSUME NEW p \in Ptr, NEW v \in Val, PutFail(p, v) PROVE IInv'
  <2>1. pc = "idle" /\ Done(<<"failed put">>) /\ UNCHANGED <<nodes, root>>
    BY <1>4 DEF PutFail, MayPut
  <2>. QED  BY <2>1, ReturnIInv
<1>5. CASE PutDown
  BY <1>5, PutDownIInv
<1>6. CASE Attach
  <2>1. pc = "put" \/ pc = "merge"
    BY <1>6 DEF Attach, Placing
  <2>. QED  BY <1>6, <2>1, AttachNewIInv, AttachMergeIInv
<1>7. CASE Replace
  BY <1>7, ReplaceIInv
<1>8. ASSUME NEW k \in Key, NEW name \in {"get", "remove", "delete"}, Call(name, k) PROVE IInv'
  BY <1>8, CallIInv
<1>9. CASE SearchDown
  BY <1>9, SearchDownIInv
<1>10. CASE Miss
  <2>1. pc = "search" /\ Done(Result(NULL)) /\ UNCHANGED <<nodes, root>>
    BY <1>10 DEF Miss
  <2>. QED  BY <2>1, ReturnIInv
<1>11. CASE GetHit
  <2>1. pc = "search" /\ Done(Result(nodes[Cur].val)) /\ UNCHANGED <<nodes, root>>
    BY <1>11 DEF GetHit, Searching
  <2>. QED  BY <2>1, ReturnIInv
<1>12. CASE RemoveHit
  BY <1>12, RemoveHitIInv
<1>13. CASE Unlink
  BY <1>13, UnlinkIInv
<1>14. CASE Axe
  BY <1>14, AxeIInv
<1>. QED  BY <1>1, <1>2, <1>3, <1>4, <1>5, <1>6, <1>7, <1>8, <1>9, <1>10, <1>11, <1>12, <1>13, <1>14 DEF Next

LEMMA IInvHolds ==
    ASSUME Fits
    PROVE  Spec => []IInv
<1>1. ASSUME IInv, [Next]_vars PROVE IInv'
  BY <1>1, NextIInv
<1>. QED  BY <1>1, InitIInv, PTL DEF Spec

LEMMA IInvTree ==
    ASSUME IInv
    PROVE  SearchTree
<1>1. TypeOK
  <2>1. Placing => at \in DOMAIN nodes /\ new \in DOMAIN nodes
    <3>1. pc = "merge" => at \in DOMAIN nodes
      BY UnderIn DEF IInv, Merging
    <3>2. pc = "merge" => new \in DOMAIN nodes
      BY DEF IInv, Merging, Shape, Calls, Gone, Sides
    <3>. QED  BY <3>1, <3>2, PutFacts DEF Placing
  <2>2. slot = RootSlot \/ slot \in (DOMAIN nodes) \X {"left", "right"}
    BY DEF IInv, Calls, Sides
  <2>. QED  BY <2>1, <2>2 DEF IInv, Shape, TypeOK
<1>2. OneTree
  <2>1. Below(root) = InTree
    BY InvBelow DEF IInv, Shape, Whole
  <2>2. \A n : \A e \in Parents(n) : /\ e \in (DOMAIN nodes) \X Sides /\ e = <<e[1], e[2]>>
                                     /\ Hangs(n, e[1], e[2])
    BY DEF Parents, Hangs, Sides
  <2>3. ASSUME NEW n \in InTree, NEW e \in Parents(n), NEW d \in Parents(n) PROVE e = d
    <3>1. n \in DOMAIN nodes
      BY DEF InTree
    <3>2. e[1] = d[1] /\ e[2] = d[2]
      BY <3>1, <2>2 DEF IInv, Hung
    <3>. QED  BY <3>2, <2>2
  <2>4. root # NULL => Parents(root) = {}
    BY <2>2 DEF IInv, Hung, Loose
  <2>. QED  BY <2>1, <2>3, <2>4 DEF OneTree
<1>3. Ordered
  <2>1. \A n \in InTree : /\ nodes[n].left \in DOMAIN nodes \cup {NULL}
                          /\ nodes[n].right \in DOMAIN nodes \cup {NULL}
    BY DEF IInv, Shape, InTree, Sides
  <2>2. \A n \in InTree : /\ Below(nodes[n].left) = Under(nodes[n].left)
                          /\ Below(nodes[n].right) = Under(nodes[n].right)
    BY <2>1, InvBelow
  <2>. QED  BY <2>2 DEF IInv, Sorted, Ordered
<1>. QED  BY <1>1, <1>2, <1>3 DEF SearchTree

\* In a/bintree.c the nodes that are allocated are one tree, with the greater
\* keys to the left and the smaller ones to the right, when an int holds the
\* differences of the keys: also in the middle of a merge of two subtrees.
THEOREM SearchTreeHolds ==
    ASSUME Fits
    PROVE  Spec => []SearchTree
<1>1. IInv => SearchTree
  BY IInvTree
<1>. QED  BY <1>1, IInvHolds, PTL

-----------------------------------------------------------------------------
(* Ownership. *)

\* No two nodes have the same key or the same value, and none has the one that
\* node_remove holds.
Apart == frees =>
    /\ \A m, n \in DOMAIN nodes : nodes[m].key = nodes[n].key => m = n
    /\ \A m, n \in DOMAIN nodes : nodes[m].val = nodes[n].val => m = n
    /\ held # NULL => \A n \in DOMAIN nodes : nodes[n].val # held

OInv == Apart /\ Ownership

Pointers == {nodes[n].key : n \in DOMAIN nodes} \cup {nodes[n].val : n \in DOMAIN nodes} \cup {held}

LEMMA OwnershipIs ==
    Ownership <=> ~fault /\ (frees => owned = Pointers \ {NULL})
BY DEF Ownership, Pointers

LEMMA PointerTypes ==
    ASSUME IInv
    PROVE  /\ \A n \in DOMAIN nodes : /\ nodes[n].key \in Ptr /\ nodes[n].key \notin Val
                                      /\ nodes[n].key # NULL /\ nodes[n].key # held
                                      /\ nodes[n].val \in Val \cup {NULL} /\ nodes[n].val \notin Ptr
           /\ held \in Val \cup {NULL} /\ held \notin Ptr
BY NullAssumption DEF IInv, Shape, Calls, Field

\* Freeing what the tree owns is no fault.
LEMMA FreeOwned ==
    ASSUME NEW S, Free(S), ~fault, frees => S \subseteq owned \cup {NULL}
    PROVE  ~fault' /\ owned' = owned \ S
BY DEF Free

LEMMA SameOwner ==
    ASSUME OInv, DOMAIN nodes' = DOMAIN nodes, UNCHANGED <<frees, held, owned, fault>>,
           \A n \in DOMAIN nodes : nodes'[n].key = nodes[n].key /\ nodes'[n].val = nodes[n].val
    PROVE  OInv'
<1>1. Pointers' = Pointers
  BY DEF Pointers
<1>2. Ownership'
  <2>1. ~fault /\ (frees => owned = Pointers \ {NULL})
    BY OwnershipIs DEF OInv
  <2>2. ~fault' /\ (frees' => owned' = Pointers' \ {NULL})
    BY <1>1, <2>1
  <2>. QED  BY <2>2 DEF Ownership, Pointers
<1>3. Apart'
  BY DEF OInv, Apart
<1>. QED  BY <1>2, <1>3 DEF OInv

LEMMA InitOInv == Init => OInv
BY DEF Init, OInv, Apart, Ownership

LEMMA GiveOInv ==
    ASSUME IInv, OInv, pc = "idle", NEW p \in Ptr, NEW v \in Val, MayPut(p, v),
           NEW n \in Node \ DOMAIN nodes, Alloc(n, p, v), Give(p, v), held' = NULL,
           UNCHANGED <<frees, fault>>
    PROVE  OInv'
<1>1. /\ DOMAIN nodes' = DOMAIN nodes \cup {n}
      /\ \A m \in DOMAIN nodes : nodes'[m] = nodes[m]
      /\ nodes'[n].key = p /\ nodes'[n].val = v
  BY AllocNode DEF IInv
<1>2. held = NULL /\ p \notin owned /\ v \notin owned /\ p # NULL /\ v # NULL
  BY NullAssumption DEF IInv, Calls, MayPut
<1>3. ~fault /\ (frees => owned = Pointers \ {NULL})
  BY OwnershipIs DEF OInv
<1>4. Pointers' = Pointers \cup {p, v}
  <2>1. {nodes'[m].key : m \in DOMAIN nodes'} = {nodes[m].key : m \in DOMAIN nodes} \cup {p}
    BY <1>1
  <2>2. {nodes'[m].val : m \in DOMAIN nodes'} = {nodes[m].val : m \in DOMAIN nodes} \cup {v}
    BY <1>1
  <2>. QED  BY <2>1, <2>2, <1>2 DEF Pointers
<1>5. Ownership'
  <2>1. frees => owned' = Pointers' \ {NULL}
    BY <1>2, <1>3, <1>4 DEF Give
  <2>2. ~fault' /\ (frees' => owned' = Pointers' \ {NULL})
    BY <1>3, <2>1
  <2>. QED  BY <2>2 DEF Ownership, Pointers
<1>6. Apart'
  <2> SUFFICES ASSUME frees PROVE Apart'
    BY DEF Apart
  <2>1. \A m \in DOMAIN nodes : nodes[m].key # p /\ nodes[m].val # v
    BY <1>2, <1>3, PointerTypes DEF Pointers
  <2>. QED  BY <2>1, <1>1, <1>2 DEF OInv, Apart
<1>. QED  BY <1>5, <1>6 DEF OInv

LEMMA ReplaceOInv ==
    ASSUME Fits, IInv, OInv, Replace
    PROVE  OInv'
<1>1. /\ pc \in {"put", "merge"} /\ cmp(KeyAt(at), KeyAt(new)) = 0
      /\ Free({nodes[at].key, nodes[at].val}) /\ frees' = frees
      /\ pc = "put" => held' = NULL
  BY DEF Replace, Placing, Placed, Done
<1>2. pc = "put"
  <2>1. at \in DOMAIN nodes /\ new \in DOMAIN nodes
    BY <1>1, PutFacts, MergeFacts
  <2>2. KeyAt(at) = KeyAt(new)
    BY <1>1, <2>1, KeyAtType, SideIs DEF IInv
  <2>. QED  BY <1>1, <2>2, MergeFacts
<1>3. new \in DOMAIN nodes /\ at \in InTree /\ InTree = DOMAIN nodes \ {new} /\ Gone = NULL /\ held = NULL
  BY <1>2, PutFacts
<1>4. /\ DOMAIN nodes' = InTree
      /\ nodes'[at].key = nodes[new].key /\ nodes'[at].val = nodes[new].val
      /\ \A n \in InTree \ {at} : nodes'[n] = nodes[n]
  BY <1>2, ReplaceNode
<1>5. ~fault /\ (frees => owned = Pointers \ {NULL})
  BY OwnershipIs DEF OInv
<1>6. ~fault' /\ owned' = owned \ {nodes[at].key, nodes[at].val}
  <2>1. {nodes[at].key, nodes[at].val} \subseteq Pointers
    BY <1>3 DEF Pointers
  <2>2. frees => {nodes[at].key, nodes[at].val} \subseteq owned \cup {NULL}
    BY <1>5, <2>1
  <2>. QED  BY <1>1, <1>5, <2>2, FreeOwned
<1>7. ASSUME frees PROVE Pointers' \ {NULL} = Pointers \ {nodes[at].key, nodes[at].val, NULL}
  <2>1. /\ \A m, n \in DOMAIN nodes : nodes[m].key = nodes[n].key => m = n
        /\ \A m, n \in DOMAIN nodes : nodes[m].val = nodes[n].val => m = n
    BY <1>7 DEF OInv, Apart
  <2>2. {nodes'[n].key : n \in DOMAIN nodes'} = {nodes[n].key : n \in DOMAIN nodes} \ {nodes[at].key}
    BY <1>3, <1>4, <2>1
  <2>3. {nodes'[n].val : n \in DOMAIN nodes'} = {nodes[n].val : n \in DOMAIN nodes} \ {nodes[at].val}
    BY <1>3, <1>4, <2>1
  <2>4. \A n \in DOMAIN nodes : nodes[n].key # nodes[at].val /\ nodes[n].val # nodes[at].key
    BY <1>3, PointerTypes
  <2>. QED  BY <1>1, <1>2, <1>3, <2>2, <2>3, <2>4 DEF Pointers
<1>8. Ownership'
  <2>1. frees => owned' = Pointers' \ {NULL}
    BY <1>5, <1>6, <1>7
  <2>2. ~fault' /\ (frees' => owned' = Pointers' \ {NULL})
    BY <1>1, <1>6, <2>1
  <2>. QED  BY <2>2 DEF Ownership, Pointers
<1>9. Apart'
  BY <1>1, <1>2, <1>3, <1>4 DEF OInv, Apart
<1>. QED  BY <1>8, <1>9 DEF OInv

LEMMA RemoveHitOInv ==
    ASSUME IInv, OInv, RemoveHit
    PROVE  OInv'
<1>1. /\ pc = "search" /\ Cur # NULL
      /\ held' = nodes[Cur].val
      /\ nodes' = [nodes EXCEPT ![Cur].val = NULL]
      /\ UNCHANGED <<frees, owned, fault>>
  BY DEF RemoveHit, Searching
<1>2. PICK g \in DOMAIN nodes : g = Cur
  BY <1>1, CurIs
<1>3. /\ DOMAIN nodes' = DOMAIN nodes
      /\ \A n \in DOMAIN nodes : nodes'[n].key = nodes[n].key
      /\ \A n \in DOMAIN nodes : nodes'[n].val = IF n = g THEN NULL ELSE nodes[n].val
  BY <1>1, <1>2 DEF IInv, Shape, Field
<1>4. held = NULL /\ held' = nodes[g].val /\ \A n \in DOMAIN nodes : nodes[n].val # NULL
  <2>1. Gone = NULL
    BY <1>1 DEF Gone
  <2>. QED  BY <1>1, <1>2, <2>1, NullIsNoNode DEF IInv, Shape, Calls
<1>5. Pointers' \ {NULL} = Pointers \ {NULL}
  <2>1. {nodes'[n].key : n \in DOMAIN nodes'} = {nodes[n].key : n \in DOMAIN nodes}
    BY <1>3
  <2>2. {nodes'[n].val : n \in DOMAIN nodes'} \cup {held'} = {nodes[n].val : n \in DOMAIN nodes} \cup {NULL}
    BY <1>3, <1>4
  <2>. QED  BY <2>1, <2>2, <1>4 DEF Pointers
<1>6. Ownership'
  <2>1. ~fault /\ (frees => owned = Pointers \ {NULL})
    BY OwnershipIs DEF OInv
  <2>2. ~fault' /\ (frees' => owned' = Pointers' \ {NULL})
    BY <1>1, <1>5, <2>1
  <2>. QED  BY <2>2 DEF Ownership, Pointers
<1>7. Apart'
  BY <1>1, <1>3, <1>4 DEF OInv, Apart
<1>. QED  BY <1>6, <1>7 DEF OInv

LEMMA UnlinkOInv ==
    ASSUME IInv, OInv, Unlink
    PROVE  OInv'
<1>1. PICK g \in DOMAIN nodes : g = Gone
  BY UnlinkFacts DEF Unlink
<1>2. /\ pc = "unlink" /\ held' = NULL
      /\ DOMAIN nodes' = DOMAIN nodes \ {g}
      /\ \A n \in DOMAIN nodes \ {g} : nodes'[n].key = nodes[n].key /\ nodes'[n].val = nodes[n].val
  BY <1>1, UnlinkNode
<1>3. g = Cur /\ FreeGone /\ frees' = frees
  BY <1>1, <1>2 DEF Gone, Unlink
<1>4. nodes[g].val = NULL /\ held \in Val /\ held # NULL
  BY <1>1, <1>2 DEF IInv, Shape, Calls
<1>5. ~fault /\ (frees => owned = Pointers \ {NULL})
  BY OwnershipIs DEF OInv
<1>6. frees => {nodes[g].key, nodes[g].val, held} \subseteq owned \cup {NULL}
  <2>1. {nodes[g].key, nodes[g].val, held} \subseteq Pointers
    BY DEF Pointers
  <2>. QED  BY <1>5, <2>1
<1>7. ~fault' /\ owned' = owned \ {nodes[g].key, nodes[g].val, held}
  <2>1. CASE op[1] = "delete"
    <3>1. Free({nodes[g].key, nodes[g].val, held})
      BY <2>1, <1>3 DEF FreeGone
    <3>. QED  BY <3>1, <1>5, <1>6, FreeOwned
  <2>2. CASE op[1] # "delete"
    <3>1. /\ fault' = (fault \/ (frees /\ ~({nodes[g].key, nodes[g].val} \subseteq owned \cup {NULL})))
          /\ owned' = owned \ {nodes[g].key, nodes[g].val, held}
      BY <2>2, <1>3 DEF FreeGone
    <3>2. frees => {nodes[g].key, nodes[g].val} \subseteq owned \cup {NULL}
      BY <1>6
    <3>. QED  BY <3>1, <3>2, <1>5
  <2>. QED  BY <2>1, <2>2
<1>8. ASSUME frees PROVE Pointers' \ {NULL} = Pointers \ {nodes[g].key, held, NULL}
  <2>1. /\ \A m, n \in DOMAIN nodes : nodes[m].key = nodes[n].key => m = n
        /\ \A n \in DOMAIN nodes : nodes[n].val # held
    BY <1>4, <1>8 DEF OInv, Apart
  <2>2. {nodes'[n].key : n \in DOMAIN nodes'} = {nodes[n].key : n \in DOMAIN nodes} \ {nodes[g].key}
    BY <1>2, <2>1
  <2>3. {nodes'[n].val : n \in DOMAIN nodes'} \ {NULL} = {nodes[n].val : n \in DOMAIN nodes} \ {NULL}
    BY <1>2, <1>4
  <2>4. \A n \in DOMAIN nodes : nodes[n].val # nodes[g].key /\ nodes[n].key # held
    BY PointerTypes
  <2>5. \A x : x \in Pointers' \ {NULL} <=>
            /\ x # NULL
            /\ \/ x \in {nodes[n].key : n \in DOMAIN nodes} \ {nodes[g].key}
               \/ x \in {nodes[n].val : n \in DOMAIN nodes}
    BY <1>2, <2>2, <2>3 DEF Pointers
  <2>6. \A x : x \in Pointers \ {nodes[g].key, held, NULL} <=>
            /\ x # NULL
            /\ \/ x \in {nodes[n].key : n \in DOMAIN nodes} \ {nodes[g].key}
               \/ x \in {nodes[n].val : n \in DOMAIN nodes}
    BY <2>1, <2>4 DEF Pointers
  <2>. QED  BY <2>5, <2>6
<1>9. Ownership'
  <2>1. frees => owned' = Pointers' \ {NULL}
    BY <1>4, <1>5, <1>7, <1>8
  <2>2. ~fault' /\ (frees' => owned' = Pointers' \ {NULL})
    BY <1>3, <1>7, <2>1
  <2>. QED  BY <2>2 DEF Ownership, Pointers
<1>10. Apart'
  BY <1>2, <1>3 DEF OInv, Apart
<1>. QED  BY <1>9, <1>10 DEF OInv

LEMMA AxeOInv ==
    ASSUME IInv, OInv, Axe
    PROVE  OInv'
<1>1. /\ pc = "idle" /\ frees' = frees /\ held' = NULL
      /\ nodes' = [n \in DOMAIN nodes \ Below(root) |-> nodes[n]]
      /\ Free({nodes[n].key : n \in Below(root)} \cup {nodes[n].val : n \in Below(root)})
  BY DEF Axe, Done
<1>2. Below(root) = DOMAIN nodes
  BY <1>1, InvBelow DEF IInv, Shape, Whole, InTree
<1> DEFINE S == {nodes[n].key : n \in DOMAIN nodes} \cup {nodes[n].val : n \in DOMAIN nodes}
<1>3. held = NULL /\ Pointers = S \cup {NULL}
  BY <1>1 DEF IInv, Calls, Pointers
<1>4. ~fault /\ (frees => owned = Pointers \ {NULL})
  BY OwnershipIs DEF OInv
<1>5. DOMAIN nodes' = {}
  BY <1>1, <1>2
<1>6. Free(S)
  BY <1>1, <1>2
<1>7. Pointers' = {NULL}
  BY <1>1, <1>5 DEF Pointers
<1> HIDE DEF S
<1>8. ~fault' /\ owned' = owned \ S
  <2>1. frees => S \subseteq owned \cup {NULL}
    BY <1>3, <1>4
  <2>. QED  BY <2>1, <1>4, <1>6, FreeOwned
<1>9. Ownership'
  <2>1. ~fault' /\ (frees' => owned' = Pointers' \ {NULL})
    BY <1>1, <1>3, <1>4, <1>7, <1>8
  <2>. QED  BY <2>1 DEF Ownership, Pointers
<1>10. Apart'
  BY <1>1, <1>5 DEF Apart
<1>. QED  BY <1>9, <1>10 DEF OInv

LEMMA NextOInv ==
    ASSUME Fits, IInv, OInv, [Next]_vars
    PROVE  OInv'
<1>1. CASE UNCHANGED vars
  BY <1>1, SameOwner DEF vars
<1>2. ASSUME NEW p \in Ptr, NEW v \in Val, PutRoot(p, v) PROVE OInv'
  <2>1. PICK n \in Node \ DOMAIN nodes : n = Fresh(p)
    BY <1>2, FreshNode DEF PutRoot, IInv, Shape
  <2>2. /\ pc = "idle" /\ MayPut(p, v) /\ Alloc(n, p, v) /\ Give(p, v) /\ held' = NULL
        /\ UNCHANGED <<frees, fault>>
    BY <1>2, <2>1 DEF PutRoot, MayPut, Done
  <2>. QED  BY <2>2, GiveOInv
<1>3. ASSUME NEW p \in Ptr, NEW v \in Val, Put(p, v) PROVE OInv'
  <2>1. PICK n \in Node \ DOMAIN nodes : n = Fresh(p)
    BY <1>3, FreshNode DEF Put, IInv, Shape
  <2>2. /\ pc = "idle" /\ MayPut(p, v) /\ Alloc(n, p, v) /\ Give(p, v) /\ held' = NULL
        /\ UNCHANGED <<frees, fault>>
    BY <1>3, <2>1 DEF Put, MayPut, IInv, Calls
  <2>. QED  BY <2>2, GiveOInv
<1>4. ASSUME NEW p \in Ptr, NEW v \in Val, PutFail(p, v) PROVE OInv'
  BY <1>4, SameOwner DEF PutFail, MayPut, Done, IInv, Calls
<1>5. CASE PutDown
  BY <1>5, SameOwner DEF PutDown
<1>6. CASE Attach
  <2>1. at \in DOMAIN nodes /\ new \in DOMAIN nodes /\ at \notin Under(new)
    BY <1>6, PutFacts, MergeFacts DEF Attach, Placing
  <2>2. PICK s \in Sides : s = Way
    BY DEF Way, Side, Sides
  <2>3. nodes[at][s] = NULL /\ nodes' = [nodes EXCEPT ![at][s] = new] /\ UNCHANGED <<frees, owned, fault>>
    BY <1>6, <2>2 DEF Attach
  <2>4. /\ DOMAIN nodes' = DOMAIN nodes
        /\ \A n \in DOMAIN nodes : nodes'[n].key = nodes[n].key /\ nodes'[n].val = nodes[n].val
    BY <2>1, <2>3, AttachNode
  <2>5. held' = held
    BY <1>6 DEF Attach, Placed, Done, IInv, Calls
  <2>. QED  BY <2>3, <2>4, <2>5, SameOwner
<1>7. CASE Replace
  BY <1>7, ReplaceOInv
<1>8. ASSUME NEW k \in Key, NEW name \in {"get", "remove", "delete"}, Call(name, k) PROVE OInv'
  BY <1>8, SameOwner DEF Call
<1>9. CASE SearchDown
  BY <1>9, SameOwner DEF SearchDown
<1>10. CASE Miss
  <2>1. held = NULL /\ held' = NULL /\ UNCHANGED <<frees, nodes, owned, fault>>
    BY <1>10 DEF Miss, Done, IInv, Calls
  <2>. QED  BY <2>1, SameOwner
<1>11. CASE GetHit
  <2>1. held = NULL /\ held' = NULL /\ UNCHANGED <<frees, nodes, owned, fault>>
    BY <1>11 DEF GetHit, Searching, Done, IInv, Calls
  <2>. QED  BY <2>1, SameOwner
<1>12. CASE RemoveHit
  BY <1>12, RemoveHitOInv
<1>13. CASE Unlink
  BY <1>13, UnlinkOInv
<1>14. CASE Axe
  BY <1>14, AxeOInv
<1>. QED  BY <1>1, <1>2, <1>3, <1>4, <1>5, <1>6, <1>7, <1>8, <1>9, <1>10, <1>11, <1>12, <1>13, <1>14 DEF Next

\* In a/bintree.c a tree with destructors owns what is in its nodes, and what
\* a_bintree_remove is about to give back: nothing leaks, nothing is freed
\* twice, and no pointer is freed that the tree was not given.
THEOREM OwnershipHolds ==
    ASSUME Fits
    PROVE  Spec => []Ownership
<1>1. ASSUME IInv, OInv, [Next]_vars PROVE OInv'
  BY <1>1, NextOInv
<1>2. OInv => Ownership
  BY DEF OInv
<1>. QED  BY <1>1, <1>2, InitOInv, IInvHolds, PTL DEF Spec

\* node_put replaces a node by one with the same key only.
THEOREM ReplacesSameHolds ==
    ASSUME Fits
    PROVE  Spec => ReplacesSame
<1>1. ASSUME IInv, [Next]_vars PROVE [Replace => KeyAt(at) = KeyAt(new)]_vars
  <2> SUFFICES ASSUME Replace PROVE KeyAt(at) = KeyAt(new)
    OBVIOUS
  <2>1. /\ pc \in {"put", "merge"} /\ cmp(KeyAt(at), KeyAt(new)) = 0
    BY DEF Replace, Placing
  <2>2. at \in DOMAIN nodes /\ new \in DOMAIN nodes
    BY <1>1, <2>1, PutFacts, MergeFacts
  <2>. QED  BY <1>1, <2>1, <2>2, KeyAtType, SideIs DEF IInv
<1>. QED  BY <1>1, IInvHolds, PTL DEF Spec, ReplacesSame

-----------------------------------------------------------------------------
(* The dictionary. *)

Holds(n) == IF n = Gone THEN held ELSE nodes[n].val

LEMMA ValueIs ==
    ASSUME Distinct
    PROVE  /\ \A n \in InTree : Value(KeyAt(n)) = Holds(n)
           /\ \A k : (\A n \in InTree : KeyAt(n) # k) => Value(k) = NULL
<1>1. ASSUME NEW n \in InTree PROVE Value(KeyAt(n)) = Holds(n)
  <2> DEFINE m == CHOOSE d \in InTree : KeyAt(d) = KeyAt(n)
  <2>1. m \in InTree /\ KeyAt(m) = KeyAt(n)
    OBVIOUS
  <2>2. m = n
    BY <2>1 DEF Distinct
  <2>3. Value(KeyAt(n)) = IF m = Gone THEN held ELSE nodes[m].val
    BY DEF Value
  <2> HIDE DEF m
  <2>. QED  BY <2>2, <2>3 DEF Holds
<1>. QED  BY <1>1 DEF Value

\* The same of the next state.
LEMMA ValueIsNext ==
    ASSUME Distinct'
    PROVE  /\ \A n \in InTree' : \A k : KeyAt(n)' = k => Value(k)' = Holds(n)'
           /\ \A k : (\A n \in InTree' : KeyAt(n)' # k) => Value(k)' = NULL
<1>1. ASSUME NEW n \in InTree', NEW k, KeyAt(n)' = k PROVE Value(k)' = Holds(n)'
  <2>1. PICK m : m = CHOOSE d \in InTree' : KeyAt(d)' = k
    OBVIOUS
  <2>2. m \in InTree' /\ KeyAt(m)' = k
    BY <1>1, <2>1
  <2>3. m = n
    BY <1>1, <2>2 DEF Distinct
  <2>4. Value(k)' = IF m = Gone' THEN held' ELSE nodes'[m].val
    BY <1>1, <2>1 DEF Value
  <2>. QED  BY <2>3, <2>4 DEF Holds
<1>. QED  BY <1>1 DEF Value

Dct == [k \in Key |-> Value(k)]

LEMMA DctPut ==
    ASSUME NEW x \in Key, NEW v, \A k \in Key : Value(k)' = IF k = x THEN v ELSE Value(k)
    PROVE  Dct' = [Dct EXCEPT ![x] = v]
BY DEF Dct

LEMMA DctSame ==
    ASSUME \A k \in Key : Value(k)' = Value(k)
    PROVE  Dct' = Dct
BY DEF Dct

\* The same nodes with the same keys and values.
LEMMA SameValues ==
    ASSUME IInv, Distinct', InTree' = InTree,
           \A n \in InTree : KeyAt(n)' = KeyAt(n) /\ Holds(n)' = Holds(n)
    PROVE  Dct' = Dct
<1>1. ASSUME NEW k \in Key PROVE Value(k)' = Value(k)
  <2>1. CASE \E n \in InTree : KeyAt(n) = k
    BY <2>1, ValueIs, ValueIsNext DEF IInv
  <2>2. CASE ~\E n \in InTree : KeyAt(n) = k
    BY <2>2, ValueIs, ValueIsNext DEF IInv
  <2>. QED  BY <2>1, <2>2
<1>. QED  BY <1>1, DctSame

\* What the dictionary's operations are of Dct.
LEMMA DictionaryIs ==
    /\ Dictionary!Init <=> Dct = [k \in Key |-> NULL] /\ done = <<"init">>
    /\ \A k \in Key, v \in Val : Dct' = [Dct EXCEPT ![k] = v] /\ done' = <<"put", k, v>> => Dictionary!Next
    /\ Dct' = Dct /\ done' = <<"failed put">> => Dictionary!Next
    /\ \A k \in Key : Dct' = Dct /\ done' = <<"get", k, Dct[k]>> => Dictionary!Next
    /\ \A k \in Key : Dct' = [Dct EXCEPT ![k] = NULL] /\ done' = <<"remove", k, Dct[k]>> => Dictionary!Next
    /\ \A k \in Key : Dct' = [Dct EXCEPT ![k] = NULL] /\ done' = <<"delete", k>> => Dictionary!Next
    /\ Dct' = [k \in Key |-> NULL] /\ done' = <<"clean">> => Dictionary!Next
    /\ UNCHANGED Dictionary!vars <=> Dct' = Dct /\ done' = done
BY DEF Dct, Dictionary!Init, Dictionary!Next, Dictionary!Put, Dictionary!PutFail, Dictionary!Get,
       Dictionary!Remove, Dictionary!Delete, Dictionary!Clean, Dictionary!vars

DctNext == Dictionary!Next \/ UNCHANGED Dictionary!vars

LEMMA PutRootDct ==
    ASSUME IInv, IInv', NEW p \in Ptr, NEW v \in Val, PutRoot(p, v)
    PROVE  DctNext
<1>1. /\ pc = "idle" /\ pc' = "idle" /\ root = NULL /\ done' = <<"put", KeyOf[p], v>>
      /\ Node # DOMAIN nodes /\ Alloc(Fresh(p), p, v)
  BY DEF PutRoot, MayPut, Done
<1>2. DOMAIN nodes = {} /\ InTree = {}
  BY <1>1 DEF IInv, Whole, Under, InTree
<1>3. PICK n \in Node \ DOMAIN nodes : n = Fresh(p)
  BY <1>1, FreshNode DEF IInv, Shape
<1>4. DOMAIN nodes' = {n} /\ nodes'[n].key = p /\ nodes'[n].val = v
  BY <1>1, <1>2, <1>3, AllocNode DEF IInv
<1>5. InTree' = {n} /\ KeyAt(n)' = KeyOf[p] /\ Holds(n)' = v
  BY <1>1, <1>3, <1>4, NullAssumption DEF InTree, KeyAt, Holds, Gone
<1>6. KeyOf[p] \in Key
  BY KeyAssumption
<1>7. \A k \in Key : Value(k)' = IF k = KeyOf[p] THEN v ELSE Value(k)
  BY <1>2, <1>5, ValueIs, ValueIsNext DEF IInv
<1>. QED  BY <1>1, <1>6, <1>7, DctPut, DictionaryIs DEF DctNext

LEMMA PutDct ==
    ASSUME IInv, IInv', NEW p \in Ptr, NEW v \in Val, Put(p, v)
    PROVE  DctNext
<1>1. /\ pc = "idle" /\ pc' = "put" /\ new' = Fresh(p) /\ done' = done
      /\ Node # DOMAIN nodes /\ Alloc(Fresh(p), p, v)
  BY DEF Put, MayPut
<1>2. PICK n \in Node \ DOMAIN nodes : n = Fresh(p)
  BY <1>1, FreshNode DEF IInv, Shape
<1>3. DOMAIN nodes' = DOMAIN nodes \cup {n} /\ \A m \in DOMAIN nodes : nodes'[m] = nodes[m]
  BY <1>1, <1>2, AllocNode DEF IInv
<1>4. InTree = DOMAIN nodes /\ InTree' = DOMAIN nodes /\ Gone = NULL /\ Gone' = NULL
  BY <1>1, <1>2, <1>3 DEF InTree, Gone
<1>5. \A m \in InTree : KeyAt(m)' = KeyAt(m) /\ Holds(m)' = Holds(m)
  BY <1>3, <1>4, NullIsNoNode DEF KeyAt, Holds, IInv
<1>. QED  BY <1>1, <1>4, <1>5, SameValues, DictionaryIs DEF DctNext, IInv

LEMMA AttachDct ==
    ASSUME Fits, IInv, IInv', Attach
    PROVE  DctNext
<1>1. at \in DOMAIN nodes /\ new \in DOMAIN nodes /\ at \notin Under(new)
  BY PutFacts, MergeFacts DEF Attach, Placing
<1>2. PICK s \in Sides : s = Way
  BY DEF Way, Side, Sides
<1>3. nodes[at][s] = NULL /\ nodes' = [nodes EXCEPT ![at][s] = new] /\ UNCHANGED root
  BY <1>2 DEF Attach
<1>4. /\ DOMAIN nodes' = DOMAIN nodes
      /\ \A n \in DOMAIN nodes : nodes'[n].key = nodes[n].key /\ nodes'[n].val = nodes[n].val
  BY <1>1, <1>3, AttachNode
<1>5. \A n \in DOMAIN nodes : KeyAt(n)' = KeyAt(n)
  BY <1>4 DEF KeyAt
<1>6. CASE pc = "put"
  <2>1. /\ InTree = DOMAIN nodes \ {new} /\ Gone = NULL
        /\ op = <<"put", KeyAt(new), nodes[new].val>>
    BY <1>6, PutFacts DEF IInv, Calls
  <2>2. pc' = "idle" /\ done' = op
    BY <1>6 DEF Attach, Placed, Done
  <2>3. InTree' = DOMAIN nodes /\ Gone' = NULL
    BY <1>4, <2>2 DEF InTree, Gone
  <2>4. PICK b \in DOMAIN nodes, k \in Key, v \in Val : b = new /\ k = KeyAt(b) /\ v = nodes[b].val
    BY <1>1, <2>1, KeyAtType, NullIsNoNode DEF IInv, Shape, Field
  <2>5. \A n \in InTree : n # b /\ Holds(n) = nodes[n].val /\ Holds(n)' = nodes[n].val
    BY <1>4, <2>1, <2>3, <2>4, NullIsNoNode DEF Holds, IInv
  <2>6. Holds(b)' = v /\ KeyAt(b)' = k
    BY <1>4, <1>5, <2>3, <2>4, NullIsNoNode DEF Holds, IInv
  <2>7. \A j \in Key : Value(j)' = IF j = k THEN v ELSE Value(j)
    <3> SUFFICES ASSUME NEW j \in Key PROVE Value(j)' = IF j = k THEN v ELSE Value(j)
      OBVIOUS
    <3>1. CASE j = k
      BY <3>1, <2>3, <2>6, ValueIsNext DEF IInv
    <3>2. CASE j # k /\ \E n \in InTree : KeyAt(n) = j
      <4>1. PICK n \in InTree : KeyAt(n) = j
        BY <3>2
      <4>2. n \in InTree' /\ KeyAt(n)' = j
        BY <4>1, <1>5, <2>1, <2>3
      <4>3. Value(j)' = Holds(n)' /\ Value(j) = Holds(n)
        BY <4>1, <4>2, ValueIs, ValueIsNext DEF IInv
      <4>. QED  BY <3>2, <4>3, <2>5
    <3>3. CASE j # k /\ ~\E n \in InTree : KeyAt(n) = j
      <4>1. \A n \in InTree' : KeyAt(n)' # j
        BY <3>3, <1>5, <2>1, <2>3, <2>4
      <4>2. Value(j)' = NULL /\ Value(j) = NULL
        BY <3>3, <4>1, ValueIs, ValueIsNext DEF IInv
      <4>. QED  BY <3>3, <4>2
    <3>. QED  BY <3>1, <3>2, <3>3
  <2>8. done' = <<"put", k, v>>
    BY <2>1, <2>2, <2>4
  <2>. QED  BY <2>7, <2>8, DctPut, DictionaryIs DEF DctNext
<1>7. CASE pc = "merge"
  <2>1. pc' = "unlink" /\ UNCHANGED <<slot, held, done>>
    BY <1>7 DEF Attach, Placed
  <2>2. InTree = DOMAIN nodes /\ InTree' = DOMAIN nodes
    BY <1>4, <1>7, <2>1 DEF InTree
  <2>3. PICK g : g = Gone
    OBVIOUS
  <2>4. \A n \in DOMAIN nodes : /\ nodes[n].val = NULL <=> n = Gone
                                /\ nodes'[n].val = NULL <=> n = Gone'
    BY <1>4 DEF IInv, Shape
  <2>5. \A n \in InTree : Holds(n)' = Holds(n)
    BY <1>4, <2>1, <2>2, <2>4 DEF Holds
  <2>. QED  BY <1>5, <2>1, <2>2, <2>5, SameValues, DictionaryIs DEF DctNext, IInv
<1>. QED  BY <1>6, <1>7 DEF Attach, Placing

LEMMA ReplaceDct ==
    ASSUME Fits, IInv, IInv', Replace
    PROVE  DctNext
<1>1. /\ pc \in {"put", "merge"} /\ cmp(KeyAt(at), KeyAt(new)) = 0
      /\ pc = "put" => pc' = "idle" /\ done' = op
  BY DEF Replace, Placing, Placed, Done
<1>2. at \in DOMAIN nodes /\ new \in DOMAIN nodes
  BY <1>1, PutFacts, MergeFacts
<1>3. KeyAt(at) = KeyAt(new)
  BY <1>1, <1>2, KeyAtType, SideIs DEF IInv
<1>4. pc = "put"
  BY <1>1, <1>3, MergeFacts
<1>5. /\ at \in InTree /\ InTree = DOMAIN nodes \ {new} /\ Gone = NULL
      /\ op = <<"put", KeyAt(new), nodes[new].val>>
  BY <1>4, PutFacts DEF IInv, Calls
<1>6. /\ DOMAIN nodes' = InTree
      /\ nodes'[at].key = nodes[new].key /\ nodes'[at].val = nodes[new].val
      /\ \A n \in InTree \ {at} : nodes'[n] = nodes[n]
  BY <1>4, ReplaceNode
<1>7. InTree' = InTree /\ Gone' = NULL
  BY <1>1, <1>4, <1>6 DEF InTree, Gone
<1>8. PICK a \in InTree, k \in Key, v \in Val : a = at /\ k = KeyAt(a) /\ v = nodes[new].val
  BY <1>2, <1>5, KeyAtType, NullIsNoNode DEF IInv, Shape, Field
<1>9. \A n \in InTree : KeyAt(n)' = KeyAt(n) /\ Holds(n)' = IF n = a THEN v ELSE Holds(n)
  BY <1>3, <1>5, <1>6, <1>7, <1>8, NullIsNoNode DEF KeyAt, Holds, IInv
<1>10. \A j \in Key : Value(j)' = IF j = k THEN v ELSE Value(j)
  <2> SUFFICES ASSUME NEW j \in Key PROVE Value(j)' = IF j = k THEN v ELSE Value(j)
    OBVIOUS
  <2>1. CASE j = k
    BY <2>1, <1>7, <1>8, <1>9, ValueIsNext DEF IInv
  <2>2. CASE j # k /\ \E n \in InTree : KeyAt(n) = j
    <3>1. PICK n \in InTree : KeyAt(n) = j
      BY <2>2
    <3>2. n # a /\ n \in InTree' /\ KeyAt(n)' = j /\ Holds(n)' = Holds(n)
      BY <2>2, <3>1, <1>7, <1>8, <1>9
    <3>. QED  BY <2>2, <3>1, <3>2, ValueIs, ValueIsNext DEF IInv
  <2>3. CASE j # k /\ ~\E n \in InTree : KeyAt(n) = j
    <3>1. \A n \in InTree' : KeyAt(n)' # j
      BY <2>3, <1>7, <1>9
    <3>. QED  BY <2>3, <3>1, ValueIs, ValueIsNext DEF IInv
  <2>. QED  BY <2>1, <2>2, <2>3
<1>11. done' = <<"put", k, v>>
  BY <1>1, <1>3, <1>4, <1>5, <1>8
<1>. QED  BY <1>10, <1>11, DctPut, DictionaryIs DEF DctNext

LEMMA RemoveHitDct ==
    ASSUME Fits, IInv, IInv', RemoveHit
    PROVE  DctNext
<1>1. /\ pc = "search" /\ Cur # NULL /\ pc' \in {"merge", "unlink"}
      /\ held' = nodes[Cur].val
      /\ nodes' = [nodes EXCEPT ![Cur].val = NULL]
      /\ done' = done
  BY DEF RemoveHit, Searching
<1>2. PICK g \in DOMAIN nodes : g = Cur
  BY <1>1, CurIs
<1>3. /\ DOMAIN nodes' = DOMAIN nodes
      /\ \A n \in DOMAIN nodes : nodes'[n].key = nodes[n].key
      /\ \A n \in DOMAIN nodes : nodes'[n].val = IF n = g THEN NULL ELSE nodes[n].val
  BY <1>1, <1>2 DEF IInv, Shape, Field
<1>4. Gone = NULL /\ InTree = DOMAIN nodes /\ InTree' = DOMAIN nodes
  BY <1>1, <1>3 DEF Gone, InTree
<1>5. \A n \in DOMAIN nodes : nodes[n].val # NULL /\ (n = Gone' <=> n = g)
  BY <1>3, <1>4, NullIsNoNode DEF IInv, Shape
<1>6. \A n \in InTree : KeyAt(n)' = KeyAt(n) /\ Holds(n)' = Holds(n)
  BY <1>1, <1>2, <1>3, <1>4, <1>5, NullIsNoNode DEF IInv, KeyAt, Holds
<1>. QED  BY <1>1, <1>4, <1>6, SameValues, DictionaryIs DEF DctNext, IInv

\* A step that leaves the nodes as they are and is not in node_remove's end.
LEMMA QuietDct ==
    ASSUME IInv, IInv', pc \in {"idle", "search"}, pc' \in {"idle", "search"}, UNCHANGED nodes
    PROVE  Dct' = Dct
<1>1. Gone = NULL /\ Gone' = NULL /\ InTree' = InTree /\ InTree = DOMAIN nodes
  BY DEF Gone, InTree
<1>2. \A n \in InTree : KeyAt(n)' = KeyAt(n) /\ Holds(n)' = Holds(n)
  BY <1>1, NullIsNoNode DEF KeyAt, Holds, IInv
<1>. QED  BY <1>1, <1>2, SameValues DEF IInv

LEMMA AppendToTwo ==
    ASSUME NEW a, NEW b, NEW c
    PROVE  Append(<<a, b>>, c) = <<a, b, c>>
<1> DEFINE S == {a, b, c}
           s == Append(<<a, b>>, c)
           t == <<a, b, c>>
<1>1. t \in Seq(S) /\ Len(t) = 3
  OBVIOUS
<1>2. s \in Seq(S) /\ Len(s) = 3
  OBVIOUS
<1>3. \A i \in 1..3 : s[i] = t[i]
  OBVIOUS
<1> HIDE DEF s, t, S
<1>4. s = t
  BY <1>1, <1>2, <1>3, SeqEqual
<1>. QED  BY <1>4 DEF s, t

\* What a call returns, when it got v.
LEMMA ResultIs ==
    ASSUME IInv, pc \in {"search", "merge", "unlink"}, NEW v
    PROVE  /\ op[2] \in Key
           /\ op[1] \in {"get", "remove", "delete"}
           /\ op[1] = "get" => Result(v) = <<"get", op[2], v>>
           /\ op[1] = "remove" => Result(v) = <<"remove", op[2], v>>
           /\ op[1] = "delete" => Result(v) = <<"delete", op[2]>>
<1>1. op \in {"get", "remove", "delete"} \X Key
  BY DEF IInv, Calls
<1>2. PICK name \in {"get", "remove", "delete"}, k \in Key : op = <<name, k>>
  BY <1>1
<1>3. Append(op, v) = <<name, k, v>>
  BY <1>2, AppendToTwo
<1>. QED  BY <1>2, <1>3 DEF Result

LEMMA MissDct ==
    ASSUME IInv, IInv', Miss
    PROVE  DctNext
<1>1. pc = "search" /\ Cur = NULL /\ pc' = "idle" /\ done' = Result(NULL) /\ UNCHANGED nodes
  BY DEF Miss, Done
<1>2. Dct' = Dct
  BY <1>1, QuietDct
<1>3. PICK k \in Key : k = op[2]
  BY <1>1, ResultIs
<1>4. Value(k) = NULL
  <2>1. \A n \in InTree : KeyAt(n) # k
    BY <1>1, <1>3 DEF IInv, Seeking, Under
  <2>. QED  BY <2>1, ValueIs DEF IInv
<1>5. Dct[k] = NULL /\ Dct' = [Dct EXCEPT ![k] = NULL]
  BY <1>2, <1>4 DEF Dct
<1>6. \/ done' = <<"get", k, Dct[k]>>
      \/ done' = <<"remove", k, Dct[k]>>
      \/ done' = <<"delete", k>>
  BY <1>1, <1>3, <1>5, ResultIs
<1>. QED  BY <1>2, <1>5, <1>6, DictionaryIs DEF DctNext

LEMMA GetHitDct ==
    ASSUME Fits, IInv, IInv', GetHit
    PROVE  DctNext
<1>1. /\ pc = "search" /\ Cur # NULL /\ cmp(KeyAt(Cur), op[2]) = 0 /\ op[1] = "get"
      /\ pc' = "idle" /\ done' = Result(nodes[Cur].val) /\ UNCHANGED nodes
  BY DEF GetHit, Searching, Match, Done
<1>2. Dct' = Dct
  BY <1>1, QuietDct
<1>3. PICK g \in DOMAIN nodes, k \in Key : g = Cur /\ k = op[2]
  BY <1>1, CurIs, ResultIs
<1>4. KeyAt(g) = k
  BY <1>1, <1>3, SideIs DEF IInv
<1>5. g \in InTree /\ Holds(g) = nodes[g].val
  BY <1>1, <1>3, NullIsNoNode DEF InTree, Holds, Gone, IInv
<1>6. Dct[k] = nodes[g].val
  BY <1>4, <1>5, ValueIs DEF IInv, Dct
<1>7. done' = <<"get", k, Dct[k]>>
  BY <1>1, <1>3, <1>6, ResultIs
<1>. QED  BY <1>2, <1>7, DictionaryIs DEF DctNext

LEMMA UnlinkDct ==
    ASSUME IInv, IInv', Unlink
    PROVE  DctNext
<1>1. PICK g \in DOMAIN nodes : g = Gone
  BY UnlinkFacts DEF Unlink
<1>2. /\ pc = "unlink" /\ pc' = "idle" /\ DOMAIN nodes' = DOMAIN nodes \ {g}
      /\ \A n \in DOMAIN nodes \ {g} : nodes'[n].key = nodes[n].key /\ nodes'[n].val = nodes[n].val
  BY <1>1, UnlinkNode
<1>3. done' = Result(held)
  BY DEF Unlink, Done
<1>4. /\ InTree = DOMAIN nodes /\ InTree' = DOMAIN nodes \ {g} /\ Gone' = NULL
      /\ op[1] # "get" /\ KeyAt(g) = op[2]
  BY <1>1, <1>2 DEF InTree, Gone, IInv, Calls
<1>5. PICK k \in Key : k = op[2]
  BY <1>2, ResultIs
<1>6. Holds(g) = held /\ \A n \in InTree' : KeyAt(n)' = KeyAt(n) /\ Holds(n)' = Holds(n)
  BY <1>1, <1>2, <1>4, NullIsNoNode DEF Holds, KeyAt, IInv
<1>7. Value(k) = held
  BY <1>4, <1>5, <1>6, ValueIs DEF IInv
<1>8. \A j \in Key : Value(j)' = IF j = k THEN NULL ELSE Value(j)
  <2> SUFFICES ASSUME NEW j \in Key PROVE Value(j)' = IF j = k THEN NULL ELSE Value(j)
    OBVIOUS
  <2>1. CASE j = k
    <3>1. \A n \in InTree' : KeyAt(n)' # j
      BY <2>1, <1>4, <1>5, <1>6 DEF IInv, Distinct
    <3>. QED  BY <2>1, <3>1, ValueIsNext DEF IInv
  <2>2. CASE j # k /\ \E n \in InTree : KeyAt(n) = j
    <3>1. PICK n \in InTree : KeyAt(n) = j
      BY <2>2
    <3>2. n \in InTree' /\ KeyAt(n)' = j /\ Holds(n)' = Holds(n)
      BY <2>2, <3>1, <1>4, <1>5, <1>6
    <3>. QED  BY <2>2, <3>1, <3>2, ValueIs, ValueIsNext DEF IInv
  <2>3. CASE j # k /\ ~\E n \in InTree : KeyAt(n) = j
    <3>1. \A n \in InTree' : KeyAt(n)' # j
      BY <2>3, <1>4, <1>6
    <3>. QED  BY <2>3, <3>1, ValueIs, ValueIsNext DEF IInv
  <2>. QED  BY <2>1, <2>2, <2>3
<1>9. Dct' = [Dct EXCEPT ![k] = NULL] /\ Dct[k] = held
  BY <1>7, <1>8, DctPut DEF Dct
<1>10. done' = <<"remove", k, Dct[k]>> \/ done' = <<"delete", k>>
  BY <1>2, <1>3, <1>4, <1>5, <1>9, ResultIs
<1>. QED  BY <1>9, <1>10, DictionaryIs DEF DctNext

LEMMA AxeDct ==
    ASSUME IInv, IInv', Axe
    PROVE  DctNext
<1>1. /\ pc = "idle" /\ pc' = "idle" /\ done' = <<"clean">>
      /\ nodes' = [n \in DOMAIN nodes \ Below(root) |-> nodes[n]]
  BY DEF Axe, Done
<1>2. Below(root) = DOMAIN nodes
  BY <1>1, InvBelow DEF IInv, Shape, Whole, InTree
<1>3. InTree' = {}
  BY <1>1, <1>2 DEF InTree
<1>4. \A k \in Key : Value(k)' = NULL
  BY <1>3, ValueIsNext DEF IInv
<1>5. Dct' = [k \in Key |-> NULL]
  BY <1>4 DEF Dct
<1>. QED  BY <1>1, <1>5, DictionaryIs DEF DctNext

LEMMA NextDct ==
    ASSUME Fits, IInv, IInv', [Next]_vars
    PROVE  DctNext
<1>1. CASE UNCHANGED vars
  <2>1. InTree' = InTree /\ \A n \in InTree : KeyAt(n)' = KeyAt(n) /\ Holds(n)' = Holds(n)
    BY <1>1 DEF vars, InTree, KeyAt, Holds, Gone, Cur
  <2>2. Dct' = Dct /\ done' = done
    BY <1>1, <2>1, SameValues DEF IInv, vars
  <2>. QED  BY <2>2, DictionaryIs DEF DctNext
<1>2. ASSUME NEW p \in Ptr, NEW v \in Val, PutRoot(p, v) PROVE DctNext
  BY <1>2, PutRootDct
<1>3. ASSUME NEW p \in Ptr, NEW v \in Val, Put(p, v) PROVE DctNext
  BY <1>3, PutDct
<1>4. ASSUME NEW p \in Ptr, NEW v \in Val, PutFail(p, v) PROVE DctNext
  <2>1. pc = "idle" /\ pc' = "idle" /\ done' = <<"failed put">> /\ UNCHANGED nodes
    BY <1>4 DEF PutFail, MayPut, Done
  <2>. QED  BY <2>1, QuietDct, DictionaryIs DEF DctNext
<1>5. CASE PutDown
  <2>1. UNCHANGED <<pc, nodes, new, slot, root, held, done>>
    BY <1>5 DEF PutDown
  <2>2. InTree' = InTree /\ \A n \in InTree : KeyAt(n)' = KeyAt(n) /\ Holds(n)' = Holds(n)
    BY <2>1 DEF InTree, KeyAt, Holds, Gone, Cur
  <2>. QED  BY <2>1, <2>2, SameValues, DictionaryIs DEF DctNext, IInv
<1>6. CASE Attach
  BY <1>6, AttachDct
<1>7. CASE Replace
  BY <1>7, ReplaceDct
<1>8. ASSUME NEW k \in Key, NEW name \in {"get", "remove", "delete"}, Call(name, k) PROVE DctNext
  <2>1. pc = "idle" /\ pc' = "search" /\ UNCHANGED <<nodes, done>>
    BY <1>8 DEF Call
  <2>. QED  BY <2>1, QuietDct, DictionaryIs DEF DctNext
<1>9. CASE SearchDown
  <2>1. pc = "search" /\ pc' = "search" /\ UNCHANGED <<nodes, done>>
    BY <1>9 DEF SearchDown, Searching
  <2>. QED  BY <2>1, QuietDct, DictionaryIs DEF DctNext
<1>10. CASE Miss
  BY <1>10, MissDct
<1>11. CASE GetHit
  BY <1>11, GetHitDct
<1>12. CASE RemoveHit
  BY <1>12, RemoveHitDct
<1>13. CASE Unlink
  BY <1>13, UnlinkDct
<1>14. CASE Axe
  BY <1>14, AxeDct
<1>. QED  BY <1>1, <1>2, <1>3, <1>4, <1>5, <1>6, <1>7, <1>8, <1>9, <1>10, <1>11, <1>12, <1>13, <1>14 DEF Next

LEMMA InitDct == Init => Dictionary!Init
<1> SUFFICES ASSUME Init PROVE Dictionary!Init
  OBVIOUS
<1>1. DOMAIN nodes = {} /\ done = <<"init">> /\ pc = "idle"
  BY DEF Init
<1>2. InTree = {}
  BY <1>1 DEF InTree
<1>3. Dct = [k \in Key |-> NULL]
  BY <1>2 DEF Dct, Value
<1>. QED  BY <1>1, <1>3, DictionaryIs

\* Every behaviour of the search tree is one of a dictionary: what
\* a_bintree_get, a_bintree_remove and a_bintree_delete find is what the last
\* a_bintree_put of the key stored, through replacements and merges.
THEOREM Implements ==
    ASSUME Fits
    PROVE  Spec => RefinesDict
<1>1. ASSUME IInv, IInv', [Next]_vars PROVE [Dictionary!Next]_(Dictionary!vars)
  BY <1>1, NextDct DEF DctNext
<1>. QED  BY <1>1, InitDct, IInvHolds, PTL DEF Spec, RefinesDict, Dictionary!Spec
=============================================================================
