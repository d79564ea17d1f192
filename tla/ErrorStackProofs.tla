-------------------------- MODULE ErrorStackProofs --------------------------
(***************************************************************************)
(* Theorems about ErrorStack: an error stays an error, asking for it does  *)
(* not change the answer, and what is allocated can be freed, once, for    *)
(* every value of the constants.                                           *)
(***************************************************************************)
EXTENDS ErrorStack, TLAPS

\* The nodes are malloc's, so the static one is none of them.
NodesInv == DOMAIN nodes \subseteq Node

LEMMA PushKeeps ==
  ASSUME NodesInv, NEW error, NEW prev, Push(error, prev)
  PROVE  NodesInv' /\ global' \in Node
BY DEF NodesInv, Push

LEMMA KeptKeeps ==
  ASSUME NodesInv, NEW S, nodes' = Kept(S)
  PROVE  NodesInv'
BY DEF NodesInv, Kept

LEMMA PushFailKeepsNodes ==
  ASSUME NodesInv, NEW prev, PushFail(prev)
  PROVE  NodesInv' /\ global' = Static
<1>1. nodes' = Kept(Freed(prev)) /\ global' = Static
  BY DEF PushFail
<1> QED
  BY <1>1, KeptKeeps

LEMMA NodesAreMallocs == Spec => []NodesInv
<1>1. Init => NodesInv
  BY DEF Init, NodesInv
<1>2. NodesInv /\ [Next]_vars => NodesInv'
  <2> SUFFICES ASSUME NodesInv, [Next]_vars PROVE NodesInv'
    OBVIOUS
  <2>1. ASSUME NEW error, Raise(error) PROVE NodesInv'
    BY <2>1, PushKeeps, PushFailKeepsNodes DEF Raise
  <2>2. ASSUME NEW error, RaiseStart(error) PROVE NodesInv'
    BY <2>2, KeptKeeps DEF RaiseStart
  <2>3. CASE RaiseStack
    BY <2>3, PushKeeps, PushFailKeepsNodes DEF RaiseStack
  <2>4. CASE TakeOff
    BY <2>4 DEF TakeOff, NodesInv
  <2>5. CASE Wrap
    BY <2>5, PushKeeps, PushFailKeepsNodes DEF Wrap
  <2>6. CASE Clear
    BY <2>6, KeptKeeps DEF Clear
  <2>7. CASE FreeKept
    BY <2>7, KeptKeeps DEF FreeKept
  <2>8. CASE GetAlibCode
    <3>1. CASE UNCHANGED nodes
      BY <3>1 DEF NodesInv
    <3>2. CASE Push([mod |-> "alib", code |-> Other], global) \/ PushFail(global)
      BY <3>2, PushKeeps, PushFailKeepsNodes
    <3> QED
      BY <2>8, <3>1, <3>2 DEF GetAlibCode
  <2>9. CASE UNCHANGED vars
    BY <2>9 DEF vars, NodesInv
  <2> QED
    BY <2>1, <2>2, <2>3, <2>4, <2>5, <2>6, <2>7, <2>8, <2>9 DEF Next
<1> QED
  BY <1>1, <1>2, PTL DEF Spec

\* An error stays an error: until the stack is cleared or taken off, no failure
\* while another one is recorded makes it "success".
THEOREM ErrorRemains == Spec => ErrorStays
<1>1. NodesInv /\ [Next]_vars => [global # NULL /\ ~Clear /\ ~TakeOff => global' # NULL]_vars
  <2> SUFFICES ASSUME NodesInv, Next, global # NULL, ~Clear, ~TakeOff PROVE global' # NULL
    OBVIOUS
  <2>1. \A error, prev : Push(error, prev) \/ PushFail(prev) => global' # NULL
    BY PushKeeps, PushFailKeepsNodes, NodeAssumption
  <2>2. ASSUME NEW error, Raise(error) \/ RaiseStart(error) PROVE global' # NULL
    BY <2>1, <2>2 DEF Raise, RaiseStart
  <2>3. CASE RaiseStack
    BY <2>1, <2>3 DEF RaiseStack
  <2>4. CASE Wrap
    BY <2>1, <2>4 DEF Wrap
  <2>5. CASE FreeKept
    BY <2>5 DEF FreeKept
  <2>6. CASE GetAlibCode
    BY <2>1, <2>6 DEF GetAlibCode
  <2> QED
    BY <2>2, <2>3, <2>4, <2>5, <2>6 DEF Next
<1> QED
  BY <1>1, NodesAreMallocs, PTL DEF Spec, ErrorStays

\* Asking does not change the answer: a second a_error_get_alib_code returns what
\* the first did.
THEOREM AnswerRemains == Spec => AnswerStable
<1>1. NodesInv /\ [Next]_vars => [GetAlibCode => ret' = Answer /\ Answer' = Answer]_vars
  <2> SUFFICES ASSUME NodesInv, GetAlibCode PROVE ret' = Answer /\ Answer' = Answer
    OBVIOUS
  <2>1. CASE global = NULL /\ ret' = NULL /\ UNCHANGED <<nodes, global, fault>>
    BY <2>1 DEF Answer
  <2>2. CASE Top("alib") /\ ret' = nodes[global].code /\ UNCHANGED <<nodes, global, fault>>
    <3>1. global # NULL
      BY <2>2, NodeAssumption DEF Top, NodesInv
    <3> QED
      BY <2>2, <3>1 DEF Answer, Top
  <2>3. CASE /\ global # NULL /\ ~Top("alib") /\ ret' = Other
             /\ Push([mod |-> "alib", code |-> Other], global)
    <3>1. /\ global' \in Node /\ global' \in DOMAIN nodes'
          /\ nodes'[global'].mod = "alib" /\ nodes'[global'].code = Other
      BY <2>3 DEF Push
    <3>2. Answer' = Other
      BY <3>1, NodeAssumption DEF Answer, Top
    <3> QED
      BY <2>3, <3>2 DEF Answer
  <2>4. CASE global # NULL /\ ~Top("alib") /\ ret' = Other /\ PushFail(global)
    <3>1. global' = Static /\ NodesInv'
      BY <2>4, PushFailKeepsNodes
    <3>2. global' # NULL /\ global' \notin DOMAIN nodes'
      BY <3>1, NodeAssumption DEF NodesInv
    <3>3. Answer' = Other
      BY <3>2 DEF Answer, Top
    <3> QED
      BY <2>4, <3>3 DEF Answer
  <2> QED
    BY <2>1, <2>2, <2>3, <2>4 DEF GetAlibCode
<1> QED
  BY <1>1, NodesAreMallocs, PTL DEF Spec, AnswerStable

-----------------------------------------------------------------------------
(* Forests: K[n] is the set of the children of n, and a function like the    *)
(* one that Freed defines gives what is below each node.                     *)

IsGraph(K) == \A n \in DOMAIN K : K[n] \subseteq DOMAIN K
HasLast(K) == \A S \in SUBSET DOMAIN K : S # {} => \E n \in S : K[n] \cap S = {}
HasFirst(K) == \A S \in SUBSET DOMAIN K : S # {} => \E n \in S : \A p \in S : n \notin K[p]
OneParent(K) == \A p, q \in DOMAIN K : \A c \in K[p] : c \in K[q] => p = q

Below(K, f) == \A n \in DOMAIN K : f[n] = {n} \cup UNION {f[c] : c \in K[n]}

\* There is such a function: the smallest sets that are closed under the children.
Closed(K, S) == \A n \in S : K[n] \subseteq S
Reach(K, n) == {m \in DOMAIN K : \A S \in SUBSET DOMAIN K : n \in S /\ Closed(K, S) => m \in S}

LEMMA ReachIsBelow ==
  ASSUME NEW K, IsGraph(K), NEW n \in DOMAIN K
  PROVE  Reach(K, n) = {n} \cup UNION {Reach(K, c) : c \in K[n]}
<1> DEFINE B == {n} \cup UNION {Reach(K, c) : c \in K[n]}
<1>1. \A m \in DOMAIN K : m \in Reach(K, m) /\ Closed(K, Reach(K, m))
  BY DEF Reach, Closed, IsGraph
<1>2. \A m : \A S \in SUBSET DOMAIN K : m \in S /\ Closed(K, S) => Reach(K, m) \subseteq S
  BY DEF Reach
<1>3. \A m : Reach(K, m) \in SUBSET DOMAIN K
  BY DEF Reach
<1>4. B \subseteq Reach(K, n)
  <2> SUFFICES ASSUME NEW c \in K[n] PROVE Reach(K, c) \subseteq Reach(K, n)
    BY <1>1
  <2>1. c \in Reach(K, n)
    BY <1>1 DEF Closed
  <2> QED
    BY <2>1, <1>1, <1>2, <1>3
<1>5. Closed(K, B)
  <2> SUFFICES ASSUME NEW m \in B PROVE K[m] \subseteq B
    BY DEF Closed
  <2>1. CASE m = n
    BY <2>1, <1>1 DEF IsGraph
  <2>2. CASE m # n
    <3>1. PICK c \in K[n] : m \in Reach(K, c)
      BY <2>2
    <3>2. c \in DOMAIN K
      BY DEF IsGraph
    <3> QED
      BY <3>1, <3>2, <1>1 DEF Closed
  <2> QED
    BY <2>1, <2>2
<1>6. B \in SUBSET DOMAIN K /\ n \in B
  BY <1>3, <1>4
<1> HIDE DEF B
<1>7. Reach(K, n) = B
  BY <1>2, <1>4, <1>5, <1>6
<1> QED
  BY <1>7 DEF B

\* What is below a node is made of nodes, with all of their children.
LEMMA BelowClosed ==
  ASSUME NEW K, IsGraph(K), HasLast(K), NEW f, Below(K, f), NEW s \in DOMAIN K
  PROVE  s \in f[s] /\ f[s] \subseteq DOMAIN K /\ Closed(K, f[s])
<1> DEFINE Good(n) == f[n] \subseteq DOMAIN K /\ Closed(K, f[n])
           Bad == {n \in DOMAIN K : ~Good(n)}
<1>1. \A n \in DOMAIN K : n \in f[n]
  BY DEF Below
<1>2. Bad = {}
  <2> SUFFICES ASSUME Bad # {} PROVE FALSE
    OBVIOUS
  <2>1. PICK n \in Bad : K[n] \cap Bad = {}
    BY DEF HasLast
  <2>2. n \in DOMAIN K /\ f[n] = {n} \cup UNION {f[c] : c \in K[n]}
    BY DEF Below
  <2>3. \A c \in K[n] : c \in DOMAIN K /\ f[c] \subseteq DOMAIN K /\ Closed(K, f[c])
    BY <2>1, <2>2 DEF IsGraph
  <2>4. f[n] \subseteq DOMAIN K
    BY <2>2, <2>3
  <2>5. ASSUME NEW m \in f[n] PROVE K[m] \subseteq f[n]
    <3>1. CASE m = n
      BY <3>1, <2>2, <2>3, <1>1
    <3>2. CASE m # n
      <4>1. PICK c \in K[n] : m \in f[c]
        BY <3>2, <2>2
      <4>2. K[m] \subseteq f[c]
        BY <4>1, <2>3 DEF Closed
      <4> QED
        BY <4>2, <2>2
    <3> QED
      BY <3>1, <3>2
  <2> QED
    BY <2>4, <2>5 DEF Closed
<1> QED
  BY <1>1, <1>2

\* A node below another one has a parent there.
LEMMA BelowParent ==
  ASSUME NEW K, IsGraph(K), HasLast(K), NEW f, Below(K, f), NEW s \in DOMAIN K,
         NEW m \in f[s], m # s
  PROVE  \E p \in f[s] : m \in K[p]
<1> DEFINE Bad == {n \in DOMAIN K : \E x \in f[n] : x # n /\ \A p \in f[n] : x \notin K[p]}
<1>1. Bad = {}
  <2> SUFFICES ASSUME Bad # {} PROVE FALSE
    OBVIOUS
  <2>1. PICK n \in Bad : K[n] \cap Bad = {}
    BY DEF HasLast
  <2>2. PICK x \in f[n] : x # n /\ \A p \in f[n] : x \notin K[p]
    OBVIOUS
  <2>3. f[n] = {n} \cup UNION {f[c] : c \in K[n]}
    BY DEF Below
  <2>4. PICK c \in K[n] : x \in f[c]
    BY <2>2, <2>3
  <2>5. c \in DOMAIN K /\ c \notin Bad /\ x # c
    BY <2>1, <2>2, <2>3 DEF IsGraph
  <2> QED
    BY <2>2, <2>3, <2>4, <2>5
<1> QED
  BY <1>1

\* In a forest, nothing is below two children of a node.
LEMMA BelowApart ==
  ASSUME NEW K, IsGraph(K), HasLast(K), HasFirst(K), OneParent(K), NEW f, Below(K, f),
         NEW n \in DOMAIN K, NEW a \in K[n], NEW b \in K[n], a # b
  PROVE  f[a] \cap f[b] = {}
<1>1. a \in DOMAIN K /\ b \in DOMAIN K
  BY DEF IsGraph
<1>2. ASSUME NEW c \in K[n], n \in f[c] PROVE FALSE
  <2>1. c \in DOMAIN K
    BY DEF IsGraph
  <2>2. c \in f[c] /\ f[c] \subseteq DOMAIN K
    BY <2>1, BelowClosed
  <2>3. PICK x \in f[c] : \A p \in f[c] : x \notin K[p]
    BY <2>2 DEF HasFirst
  <2>4. x = c
    BY <2>1, <2>3, BelowParent
  <2> QED
    BY <1>2, <2>3, <2>4
<1>3. ASSUME NEW c \in K[n], NEW d \in K[n], c # d, c \in f[d] PROVE FALSE
  <2>1. d \in DOMAIN K
    BY DEF IsGraph
  <2>2. PICK p \in f[d] : c \in K[p]
    BY <1>3, <2>1, BelowParent
  <2>3. p \in DOMAIN K
    BY <2>1, BelowClosed
  <2>4. p = n
    BY <2>2, <2>3 DEF OneParent
  <2> QED
    BY <2>2, <2>4, <1>2
<1> SUFFICES ASSUME f[a] \cap f[b] # {} PROVE FALSE
  OBVIOUS
<1>4. f[a] \cap f[b] \in SUBSET DOMAIN K
  BY <1>1, BelowClosed
<1>5. PICK x \in f[a] \cap f[b] : \A p \in f[a] \cap f[b] : x \notin K[p]
  BY <1>4 DEF HasFirst
<1>6. x # a /\ x # b
  BY <1>3, <1>5
<1>7. PICK p \in f[a] : x \in K[p]
  BY <1>1, <1>5, <1>6, BelowParent
<1>8. PICK q \in f[b] : x \in K[q]
  BY <1>1, <1>5, <1>6, BelowParent
<1>9. p = q
  BY <1>1, <1>7, <1>8, BelowClosed DEF OneParent
<1> QED
  BY <1>5, <1>7, <1>8, <1>9

-----------------------------------------------------------------------------
(* The chains are a forest. *)

Owned(n) == Successors(n) \cap DOMAIN nodes
Owns == [n \in DOMAIN nodes |-> Owned(n)]
Roots == {global, kept} \cup lost

\* No pointer leads into freed memory.
NoDangling ==
    /\ Roots \cap Node \subseteq DOMAIN nodes
    /\ \A n \in DOMAIN nodes : Successors(n) \cap Node \subseteq DOMAIN nodes

\* The chains end, and begin.
Ends == HasLast(Owns)
Begins == HasFirst(Owns)

\* Each node has one owner: a node, or one of those who hold a stack.
OneOwner ==
    /\ OneParent(Owns)
    /\ \A r \in Roots \cap DOMAIN nodes : \A p \in DOMAIN nodes : r \notin Owned(p)
    /\ global \in DOMAIN nodes => global # kept /\ global \notin lost
    /\ kept \in DOMAIN nodes => kept \notin lost
    /\ \A n \in DOMAIN nodes : n \in Roots \/ \E p \in DOMAIN nodes : n \in Owned(p)

\* A node that owns the stack that it is on is from a(error) of the stack.
Twice(n) == nodes[n].mod = "stack" /\ nodes[n].code = nodes[n].ptr /\ nodes[n].code \in DOMAIN nodes
OwnsOnce == ~nests => \A n \in DOMAIN nodes : ~Twice(n)

Forest == NoDangling /\ Ends /\ Begins /\ OneOwner /\ OwnsOnce

ForestInv ==
    /\ NodesInv
    /\ fault => starts \/ nests
    /\ ~fault => Forest

LEMMA OwnsGraph == IsGraph(Owns) /\ DOMAIN Owns = DOMAIN nodes /\ \A n \in DOMAIN nodes : Owns[n] = Owned(n)
BY DEF IsGraph, Owns, Owned

\* What a_error_stack_free frees is what is below the node.
LEMMA FreedIsBelow ==
  \E f : Below(Owns, f) /\ \A s : Freed(s) = IF s \in DOMAIN nodes THEN f[s] ELSE {}
<1> DEFINE Like(g) == g = [n \in DOMAIN nodes |->
                              {n} \cup UNION {g[m] : m \in Successors(n) \cap DOMAIN nodes}]
           f == CHOOSE g : Like(g)
           r == [n \in DOMAIN nodes |-> Reach(Owns, n)]
<1>1. Like(r)
  <2> SUFFICES ASSUME NEW n \in DOMAIN nodes
               PROVE  r[n] = {n} \cup UNION {r[m] : m \in Successors(n) \cap DOMAIN nodes}
    OBVIOUS
  <2>1. Reach(Owns, n) = {n} \cup UNION {Reach(Owns, m) : m \in Owned(n)}
    BY OwnsGraph, ReachIsBelow
  <2>2. UNION {r[m] : m \in Owned(n)} = UNION {Reach(Owns, m) : m \in Owned(n)}
    BY DEF Owned
  <2>3. r[n] = Reach(Owns, n)
    OBVIOUS
  <2> HIDE DEF r
  <2> QED
    BY <2>1, <2>2, <2>3 DEF Owned
<1>2. Like(f)
  <2> HIDE DEF Like
  <2> QED
    BY <1>1
<1>3. Below(Owns, f)
  <2> HIDE DEF f
  <2> QED
    BY <1>2, OwnsGraph DEF Below, Owned
<1>4. \A s : Freed(s) = IF s \in DOMAIN nodes THEN f[s] ELSE {}
  BY DEF Freed
<1> HIDE DEF f
<1> QED
  BY <1>3, <1>4

LEMMA FreedTree ==
  ASSUME Forest, NEW s
  PROVE  /\ Freed(s) \subseteq DOMAIN nodes
         /\ s \in DOMAIN nodes => s \in Freed(s)
         /\ \A n \in Freed(s) : Owned(n) \subseteq Freed(s)
         /\ \A n \in Freed(s) : n # s => \E p \in Freed(s) : n \in Owned(p)
<1>1. PICK f : Below(Owns, f) /\ \A t : Freed(t) = IF t \in DOMAIN nodes THEN f[t] ELSE {}
  BY FreedIsBelow
<1>2. CASE s \notin DOMAIN nodes
  BY <1>1, <1>2
<1>3. CASE s \in DOMAIN nodes
  <2>1. Freed(s) = f[s]
    BY <1>1, <1>3
  <2>2. s \in f[s] /\ f[s] \subseteq DOMAIN nodes /\ Closed(Owns, f[s])
    BY <1>1, <1>3, OwnsGraph, BelowClosed DEF Forest, Ends
  <2>3. \A n \in f[s] : n # s => \E p \in f[s] : n \in Owns[p]
    BY <1>1, <1>3, OwnsGraph, BelowParent DEF Forest, Ends
  <2> QED
    BY <2>1, <2>2, <2>3, OwnsGraph DEF Closed
<1> QED
  BY <1>2, <1>3

\* Nothing is freed twice, unless a stack was raised on itself.
LEMMA FreesOnce ==
  ASSUME Forest, NEW s \in Roots, BadFree(s)
  PROVE  nests
<1> SUFFICES ASSUME ~nests PROVE FALSE
  OBVIOUS
<1>1. s \notin Dangling
  BY DEF Forest, NoDangling, Dangling
<1>2. PICK n \in Freed(s) : \/ Successors(n) \cap Dangling # {}
                            \/ /\ nodes[n].mod = "stack"
                               /\ Freed(nodes[n].ptr) \cap Freed(nodes[n].code) # {}
  BY <1>1 DEF BadFree
<1>3. n \in DOMAIN nodes
  BY FreedTree
<1>4. Successors(n) \cap Dangling = {}
  BY <1>3 DEF Forest, NoDangling, Dangling
<1> DEFINE a == nodes[n].ptr
           b == nodes[n].code
<1>5. nodes[n].mod = "stack" /\ Freed(a) \cap Freed(b) # {}
  BY <1>2, <1>4
<1>6. PICK f : Below(Owns, f) /\ \A t : Freed(t) = IF t \in DOMAIN nodes THEN f[t] ELSE {}
  BY FreedIsBelow
<1>7. a \in DOMAIN nodes /\ b \in DOMAIN nodes
  <2> HIDE DEF a, b
  <2> QED
    BY <1>5, <1>6
<1>8. a # b
  BY <1>3, <1>5, <1>7 DEF Forest, OwnsOnce, Twice
<1>9. a \in Owns[n] /\ b \in Owns[n]
  BY <1>3, <1>5, <1>7, OwnsGraph DEF Owned, Successors
<1> HIDE DEF a, b
<1>10. f[a] \cap f[b] = {}
  BY <1>3, <1>6, <1>8, <1>9, OwnsGraph, BelowApart DEF Forest, Ends, Begins, OneOwner
<1> QED
  BY <1>5, <1>6, <1>7, <1>10

\* The stack s is freed, and whoever held it lets go of it.
LEMMA FreeForest ==
  ASSUME NodesInv, Forest, NEW s \in Roots, nodes' = Kept(Freed(s)), UNCHANGED nests,
         Roots' \cap Node = (Roots \cap Node) \ {s},
         global' \in DOMAIN nodes' => global' # kept' /\ global' \notin lost',
         kept' \in DOMAIN nodes' => kept' \notin lost'
  PROVE  Forest'
<1> DEFINE F == Freed(s)
           D == DOMAIN nodes
<1>1. /\ F \subseteq D /\ (s \in D => s \in F)
      /\ \A n \in F : Owned(n) \subseteq F
      /\ \A n \in F : n # s => \E p \in F : n \in Owned(p)
  BY FreedTree
<1>2. DOMAIN nodes' = D \ F /\ \A n \in D \ F : nodes'[n] = nodes[n]
  BY DEF Kept
<1> HIDE DEF F
<1>3. \A n \in D \ F : Successors(n)' = Successors(n)
  BY <1>2 DEF Successors
<1>4. D \subseteq Node
  BY DEF NodesInv
<1>5. \A n \in D \ F : Owned(n) \cap F = {}
  <2> SUFFICES ASSUME NEW n \in D \ F, NEW m \in Owned(n), m \in F PROVE FALSE
    OBVIOUS
  <2>1. m \in D
    BY DEF Owned
  <2>2. m # s
    BY <2>1 DEF Forest, OneOwner
  <2>3. PICK p \in F : m \in Owned(p)
    BY <1>1, <2>2
  <2>4. p = n
    BY <1>1, <2>3, OwnsGraph DEF Forest, OneOwner, OneParent
  <2> QED
    BY <2>3, <2>4
<1>6. \A n \in D \ F : Owned(n)' = Owned(n)
  BY <1>2, <1>3, <1>5 DEF Owned
<1>7. DOMAIN Owns' = D \ F /\ \A n \in D \ F : Owns'[n] = Owns[n]
  BY <1>2, <1>6, OwnsGraph DEF Owns
<1>8. \A r \in Roots' \cap Node : r \in Roots /\ r \in D \ F
  <2> SUFFICES ASSUME NEW r \in Roots, r \in Node, r # s PROVE r \in D \ F
    OBVIOUS
  <2>1. r \in D
    BY DEF Forest, NoDangling
  <2>2. r \notin F
    BY <1>1, <2>1 DEF Forest, OneOwner
  <2> QED
    BY <2>1, <2>2
<1>9. NoDangling'
  <2>1. \A n \in D \ F : Successors(n) \cap Node \subseteq D \ F
    BY <1>5 DEF Forest, NoDangling, Owned
  <2> QED
    BY <2>1, <1>2, <1>3, <1>8 DEF NoDangling
<1>10. Ends' /\ Begins'
  BY <1>7, OwnsGraph DEF Forest, Ends, Begins, HasLast, HasFirst
<1>11. OneOwner'
  <2>1. OneParent(Owns)'
    BY <1>7, OwnsGraph DEF Forest, OneOwner, OneParent
  <2>2. \A r \in Roots' \cap DOMAIN nodes' : \A p \in DOMAIN nodes' : r \notin Owned(p)'
    BY <1>2, <1>4, <1>6, <1>8 DEF Forest, OneOwner
  <2>3. \A n \in D \ F : n \in Roots' \/ \E p \in D \ F : n \in Owned(p)
    <3> SUFFICES ASSUME NEW n \in D \ F, n \notin Roots' PROVE \E p \in D \ F : n \in Owned(p)
      OBVIOUS
    <3>1. n # s /\ n \in Node
      BY <1>1, <1>4
    <3>2. n \notin Roots
      BY <3>1
    <3>3. PICK p \in D : n \in Owned(p)
      BY <3>2 DEF Forest, OneOwner
    <3> QED
      BY <3>3, <1>1
  <2>4. \A n \in DOMAIN nodes' : n \in Roots' \/ \E p \in DOMAIN nodes' : n \in Owned(p)'
    BY <1>2, <1>6, <2>3
  <2> QED
    BY <2>1, <2>2, <2>4 DEF OneOwner
<1>12. OwnsOnce'
  BY <1>2 DEF Forest, OwnsOnce, Twice
<1> QED
  BY <1>9, <1>10, <1>11, <1>12 DEF Forest

\* What a new node takes over: the stack it is put on, and the one it wraps.
Taken(error, prev) == {prev} \cup IF error.mod = "stack" THEN {error.code} ELSE {}

\* A new node takes over what it owns from whoever held it.
LEMMA PushForest ==
  ASSUME NodesInv, Forest, NEW error, NEW prev, Push(error, prev), UNCHANGED nests,
         Taken(error, prev) \cap Node \subseteq Roots,
         Roots' \cap Node = ((Roots \cap Node) \ Taken(error, prev)) \cup {global'},
         ~nests => ~(error.mod = "stack" /\ error.code = prev /\ prev \in Node),
         kept' \in DOMAIN nodes' => kept' \in Roots /\ kept' \notin lost',
         lost' \cap Node \subseteq Roots
  PROVE  Forest'
<1> DEFINE D == DOMAIN nodes
<1>0. PICK C : C = Taken(error, prev)
  OBVIOUS
<1>1. PICK n \in Node \ D :
        /\ nodes' = [m \in D \cup {n} |->
                        IF m = n
                        THEN [mod |-> error.mod, code |-> error.code, ptr |-> prev]
                        ELSE nodes[m]]
        /\ global' = n
  BY DEF Push
<1>2. /\ DOMAIN nodes' = D \cup {n} /\ \A m \in D : nodes'[m] = nodes[m]
      /\ nodes'[n].mod = error.mod /\ nodes'[n].code = error.code /\ nodes'[n].ptr = prev
  BY <1>1
<1>3. Successors(n)' = C /\ \A m \in D : Successors(m)' = Successors(m)
  BY <1>0, <1>2 DEF Successors, Taken
<1>4. D \subseteq Node /\ \A m \in D : n \notin Owned(m)
  BY <1>1 DEF NodesInv, Owned
<1>5. Roots \cap Node \subseteq D /\ C \cap Node \subseteq D
  BY <1>0 DEF Forest, NoDangling
<1>6. n \notin Roots /\ n \notin C
  BY <1>1, <1>5
<1>7. \A m \in D : Successors(m) \cap Node \subseteq D
  BY DEF Forest, NoDangling
<1>8. Owned(n)' = C \cap Node /\ \A m \in D : Owned(m)' = Owned(m)
  BY <1>1, <1>2, <1>3, <1>4, <1>5, <1>6, <1>7 DEF Owned
<1>9. /\ DOMAIN Owns' = D \cup {n} /\ Owns'[n] = C \cap Node
      /\ \A m \in D : Owns'[m] = Owns[m]
  BY <1>2, <1>8, OwnsGraph DEF Owns
<1>10. NoDangling'
  BY <1>0, <1>1, <1>2, <1>3, <1>5, <1>7 DEF NoDangling
<1>11. Ends'
  <2> SUFFICES ASSUME NEW S \in SUBSET (D \cup {n}), S # {}
               PROVE  \E m \in S : Owns'[m] \cap S = {}
    BY <1>9 DEF Ends, HasLast
  <2>1. CASE S = {n}
    BY <2>1, <1>6, <1>9
  <2>2. CASE S # {n}
    <3>1. S \cap D # {} /\ S \cap D \in SUBSET D
      BY <2>2
    <3>2. PICK m \in S \cap D : Owns[m] \cap (S \cap D) = {}
      BY <3>1, OwnsGraph DEF Forest, Ends, HasLast
    <3>3. Owns[m] \cap S = {}
      BY <3>2, <1>4, OwnsGraph DEF Owned
    <3> QED
      BY <3>2, <3>3, <1>9
  <2> QED
    BY <2>1, <2>2
<1>12. Begins'
  <2> SUFFICES ASSUME NEW S \in SUBSET (D \cup {n}), S # {}
               PROVE  \E m \in S : \A p \in S : m \notin Owns'[p]
    BY <1>9 DEF Begins, HasFirst
  <2>1. CASE n \in S
    <3>1. \A p \in S : n \notin Owns'[p]
      BY <1>4, <1>6, <1>9, OwnsGraph
    <3> QED
      BY <2>1, <3>1
  <2>2. CASE n \notin S
    BY <2>2, <1>9, OwnsGraph DEF Forest, Begins, HasFirst
  <2> QED
    BY <2>1, <2>2
<1>13. OneOwner'
  <2>1. \A m \in D : C \cap Node \cap Owned(m) = {}
    BY <1>0, <1>5 DEF Forest, OneOwner
  <2>2. OneParent(Owns)'
    <3> SUFFICES ASSUME NEW p \in D \cup {n}, NEW q \in D \cup {n}, NEW c \in Owns'[p], c \in Owns'[q]
                 PROVE  p = q
      BY <1>9 DEF OneParent
    <3>1. CASE p \in D /\ q \in D
      BY <3>1, <1>9, OwnsGraph DEF Forest, OneOwner, OneParent
    <3>2. CASE p = n \/ q = n
      BY <3>2, <2>1, <1>9, OwnsGraph
    <3> QED
      BY <3>1, <3>2
  <2>3. \A r \in Roots' \cap DOMAIN nodes' : \A p \in DOMAIN nodes' : r \notin Owned(p)'
    <3> SUFFICES ASSUME NEW r \in Roots', r \in D \cup {n}, NEW p \in D \cup {n}
                 PROVE  r \notin Owned(p)'
      BY <1>2
    <3>1. CASE r = n
      BY <3>1, <1>4, <1>6, <1>8
    <3>2. CASE r # n
      <4>1. r \in Roots /\ r \notin C /\ r \in D
        BY <3>2, <1>0, <1>1, <1>4
      <4> QED
        BY <4>1, <1>8 DEF Forest, OneOwner
    <3> QED
      BY <3>1, <3>2
  <2>4. global' # kept' /\ global' \notin lost'
    <3>1. global' = n /\ n \in Node /\ n \in DOMAIN nodes'
      BY <1>1, <1>2
    <3>2. n # kept'
      <4> SUFFICES ASSUME n = kept' PROVE FALSE
        OBVIOUS
      <4>1. kept' \in DOMAIN nodes'
        BY <3>1
      <4>2. kept' \in Roots
        BY <4>1
      <4> QED
        BY <4>2, <1>6
    <3>3. n \notin lost'
      BY <3>1, <1>6
    <3> QED
      BY <3>1, <3>2, <3>3
  <2>5. kept' \in DOMAIN nodes' => kept' \notin lost'
    BY <1>1, <1>2, <2>4
  <2>6. \A m \in DOMAIN nodes' : m \in Roots' \/ \E p \in DOMAIN nodes' : m \in Owned(p)'
    <3> SUFFICES ASSUME NEW m \in D \cup {n}, m \notin Roots'
                 PROVE  \E p \in D \cup {n} : m \in Owned(p)'
      BY <1>2
    <3>1. m \in D /\ m \in Node
      BY <1>1, <1>4
    <3>2. CASE m \in Roots
      BY <3>1, <3>2, <1>0, <1>8
    <3>3. CASE m \notin Roots
      BY <3>1, <3>3, <1>8 DEF Forest, OneOwner
    <3> QED
      BY <3>2, <3>3
  <2> QED
    BY <2>2, <2>3, <2>4, <2>5, <2>6 DEF OneOwner
<1>14. OwnsOnce'
  <2> SUFFICES ASSUME ~nests, NEW m \in D \cup {n}, Twice(m)' PROVE FALSE
    BY <1>2 DEF OwnsOnce
  <2>1. CASE m = n
    <3>1. error.mod = "stack" /\ error.code = prev /\ prev \in D \cup {n}
      BY <2>1, <1>2 DEF Twice
    <3> QED
      BY <3>1, <1>1, <1>4
  <2>2. CASE m # n
    <3>1. m \in D /\ nodes[m].mod = "stack" /\ nodes[m].code = nodes[m].ptr
          /\ nodes[m].code \in D \cup {n}
      BY <2>2, <1>2 DEF Twice
    <3>2. nodes[m].code \in Successors(m)
      BY <3>1 DEF Successors
    <3>3. nodes[m].code \in D
      BY <3>1, <3>2, <1>1, <1>7
    <3> QED
      BY <3>1, <3>3 DEF Forest, OwnsOnce, Twice
  <2> QED
    BY <2>1, <2>2
<1> QED
  BY <1>10, <1>11, <1>12, <1>13, <1>14 DEF Forest

LEMMA SameForest ==
  ASSUME Forest, UNCHANGED <<nests, nodes>>, Roots' = Roots,
         global' \in DOMAIN nodes => global' # kept' /\ global' \notin lost',
         kept' \in DOMAIN nodes => kept' \notin lost'
  PROVE  Forest'
<1>1. nodes' = nodes
  OBVIOUS
<1>2. \A n : Successors(n)' = Successors(n) /\ Owned(n)' = Owned(n) /\ (Twice(n)' <=> Twice(n))
  BY <1>1 DEF Successors, Owned, Twice
<1>3. Owns' = Owns
  BY <1>1, <1>2 DEF Owns
<1>4. NoDangling' /\ Ends' /\ Begins'
  BY <1>1, <1>2, <1>3 DEF Forest, NoDangling, Ends, Begins, HasLast, HasFirst
<1>5. OneOwner'
  BY <1>1, <1>2, <1>3 DEF Forest, OneOwner, OneParent
<1>6. OwnsOnce'
  BY <1>1, <1>2 DEF Forest, OwnsOnce
<1> QED
  BY <1>4, <1>5, <1>6 DEF Forest

\* Nodes that are freed or pushed on the stack by those who hold it.
LEMMA PushFailForest ==
  ASSUME NodesInv, Forest, PushFail(global), UNCHANGED nests,
         \/ UNCHANGED <<kept, lost>>
         \/ kept' = NULL /\ lost' = lost \cup {kept}
  PROVE  Forest'
<1>1. nodes' = Kept(Freed(global)) /\ global' = Static
  BY DEF PushFail
<1>2. DOMAIN nodes' \subseteq DOMAIN nodes /\ DOMAIN nodes \subseteq Node
  BY <1>1 DEF Kept, NodesInv
<1>3. global \in Node => global # kept /\ global \notin lost
  BY DEF Forest, OneOwner, NoDangling, Roots
<1>4. Roots' \cap Node = (Roots \cap Node) \ {global}
  BY <1>1, <1>3, NodeAssumption DEF Roots
<1>5. global' \in DOMAIN nodes' => global' # kept' /\ global' \notin lost'
  BY <1>1, <1>2, NodeAssumption
<1>6. kept' \in DOMAIN nodes' => kept' \notin lost'
  BY <1>2, NodeAssumption DEF Forest, OneOwner
<1>7. global \in Roots
  BY DEF Roots
<1> QED
  BY <1>1, <1>4, <1>5, <1>6, <1>7, FreeForest

LEMMA PushTopForest ==
  ASSUME NodesInv, Forest, NEW error, Push(error, global), UNCHANGED <<nests, kept, lost>>,
         error.mod = "stack" => error.code = global /\ nests
  PROVE  Forest'
<1> DEFINE C == Taken(error, global)
<1>1. C = {global}
  BY DEF Taken
<1>2. global \in Node => global # kept /\ global \notin lost
  BY DEF Forest, OneOwner, NoDangling, Roots
<1>3. global' \in Node
  BY DEF Push
<1>4. Roots' \cap Node = ((Roots \cap Node) \ C) \cup {global'}
  BY <1>1, <1>2, <1>3 DEF Roots
<1>5. C \cap Node \subseteq Roots
  BY <1>1 DEF Roots
<1>6. kept' \in Roots /\ lost' \cap Node \subseteq Roots
  BY DEF Roots
<1>7. kept' \in DOMAIN nodes' => kept' \notin lost'
  <2>1. DOMAIN nodes' \subseteq DOMAIN nodes \cup {global'}
    BY DEF Push
  <2>2. kept \in Node => kept \notin lost
    BY DEF Forest, OneOwner, NoDangling, Roots
  <2> QED
    BY <2>1, <2>2, <1>3 DEF NodesInv
<1>8. ~nests => ~(error.mod = "stack" /\ error.code = global /\ global \in Node)
  OBVIOUS
<1>9. UNCHANGED nests
  BY Zenon
<1> QED
  BY <1>4, <1>5, <1>6, <1>7, <1>8, <1>9, PushForest

LEMMA PushWrapForest ==
  ASSUME NodesInv, Forest, kept # NULL, kept' = NULL, UNCHANGED <<nests, lost>>,
         Push([mod |-> "stack", code |-> kept], global)
  PROVE  Forest'
<1> DEFINE error == [mod |-> "stack", code |-> kept]
           C == Taken(error, global)
<1>1. C = {global, kept} /\ error.code = kept
  BY DEF Taken
<1>2. global \in Node => global # kept /\ global \notin lost
  BY DEF Forest, OneOwner, NoDangling, Roots
<1>3. kept \in Node => kept \notin lost
  BY DEF Forest, OneOwner, NoDangling, Roots
<1>4. global' \in Node
  BY DEF Push
<1>5. Roots' \cap Node = ((Roots \cap Node) \ C) \cup {global'}
  BY <1>1, <1>2, <1>3, <1>4, NodeAssumption DEF Roots
<1>6. C \cap Node \subseteq Roots /\ lost' \cap Node \subseteq Roots
  BY <1>1 DEF Roots
<1>7. kept' \notin DOMAIN nodes'
  BY <1>4, NodeAssumption DEF Push, NodesInv
<1>8. ~nests => ~(error.mod = "stack" /\ error.code = global /\ global \in Node)
  BY <1>1, <1>2
<1>9. Push(error, global)
  OBVIOUS
<1>10. UNCHANGED nests
  BY Zenon
<1> HIDE DEF error
<1> QED
  BY <1>5, <1>6, <1>7, <1>8, <1>9, <1>10, PushForest

LEMMA ForestInvHolds == Spec => []ForestInv
<1>1. Init => ForestInv
  BY NodeAssumption
     DEF Init, ForestInv, NodesInv, Forest, NoDangling, Ends, Begins, OneOwner, OwnsOnce, Owns, Roots,
         HasLast, HasFirst, OneParent
<1>2. ForestInv /\ NodesInv' /\ [Next]_vars => ForestInv'
  <2> SUFFICES ASSUME ForestInv, NodesInv', [Next]_vars PROVE ForestInv'
    OBVIOUS
  <2>1. CASE UNCHANGED vars
    <3>1. /\ UNCHANGED <<nests, nodes, global, kept, lost>> /\ Roots' = Roots
          /\ UNCHANGED <<starts, fault>>
      BY <2>1, Zenon DEF vars, Roots
    <3>2. Forest => Forest'
      BY <3>1, SameForest DEF Forest, OneOwner
    <3> QED
      BY <3>1, <3>2 DEF ForestInv
  <2>2. ASSUME Next, ~fault PROVE ForestInv'
    <3>1. Forest /\ NodesInv /\ global \in Roots /\ kept \in Roots
      BY <2>2 DEF ForestInv, Roots
    \* A step that frees s, or nothing, keeps the rest.
    <3> DEFINE Ok == Forest' /\ (fault' => nests) /\ UNCHANGED <<starts, nests>>
    <3>2. Ok => ForestInv'
      BY DEF ForestInv
    <3>3. PushFail(global) => (fault' => nests)
      BY <2>2, <3>1, FreesOnce DEF PushFail
    <3>4. \A error, prev : Push(error, prev) => ~fault'
      BY <2>2 DEF Push
    <3>5. ASSUME NEW error \in Raised, Raise(error) PROVE Ok
      <4>1. error.mod # "stack"
        BY DEF Raised
      <4>2. UNCHANGED <<starts, nests, kept, lost>> /\ (Push(error, global) \/ PushFail(global))
        BY <3>5 DEF Raise
      <4>3. Forest'
        BY <3>1, <4>1, <4>2, PushTopForest, PushFailForest
      <4> QED
        BY <3>3, <3>4, <4>2, <4>3
    <3>6. ASSUME NEW error \in Raised, RaiseStart(error) PROVE ForestInv'
      BY <3>6 DEF RaiseStart, ForestInv
    <3>7. CASE RaiseStack
      <4> DEFINE error == [mod |-> "stack", code |-> global]
      <4>1. error.mod = "stack" => error.code = global /\ nests
        BY <3>7 DEF RaiseStack
      <4>2. UNCHANGED <<starts, nests, kept, lost>> /\ (Push(error, global) \/ PushFail(global))
        BY <3>7 DEF RaiseStack
      <4> HIDE DEF error
      <4>3. Forest'
        BY <3>1, <4>1, <4>2, PushTopForest, PushFailForest
      <4> QED
        BY <3>2, <3>3, <3>4, <4>2, <4>3
    <3>8. CASE TakeOff
      <4>1. UNCHANGED <<starts, nests, nodes, lost, fault>> /\ global' = NULL /\ kept = NULL /\ kept' = global
        BY <3>8 DEF TakeOff
      <4>2. Roots' = Roots
        BY <4>1 DEF Roots
      <4>3. NULL \notin DOMAIN nodes
        BY <3>1, NodeAssumption DEF NodesInv
      <4>4. Forest'
        BY <3>1, <4>1, <4>2, <4>3, SameForest DEF Forest, OneOwner
      <4> QED
        BY <2>2, <3>2, <4>1, <4>4
    <3>9. CASE Wrap
      <4>1. UNCHANGED <<starts, nests>> /\ kept # NULL /\ kept' = NULL
        BY <3>9 DEF Wrap
      <4>2. CASE Push([mod |-> "stack", code |-> kept], global) /\ UNCHANGED lost
        BY <3>1, <3>2, <3>4, <4>1, <4>2, PushWrapForest
      <4>3. CASE PushFail(global) /\ lost' = lost \cup {kept}
        BY <3>1, <3>2, <3>3, <4>1, <4>3, PushFailForest
      <4> QED
        BY <3>9, <4>2, <4>3 DEF Wrap
    <3>10. CASE Clear
      <4>1. /\ UNCHANGED <<starts, nests, kept, lost>> /\ nodes' = Kept(Freed(global)) /\ global' = NULL
            /\ fault' = BadFree(global)
        BY <3>10 DEF Clear
      <4>2. global \in Node => global # kept /\ global \notin lost
        BY <3>1 DEF Forest, OneOwner, NoDangling, Roots
      <4>3. Roots' \cap Node = (Roots \cap Node) \ {global}
        BY <4>1, <4>2, NodeAssumption DEF Roots
      <4>4. DOMAIN nodes' \subseteq DOMAIN nodes /\ NULL \notin DOMAIN nodes
        BY <3>1, <4>1, NodeAssumption DEF Kept, NodesInv
      <4>5. kept' \in DOMAIN nodes' => kept' \notin lost'
        BY <3>1, <4>1, <4>4 DEF Forest, OneOwner
      <4>6. Forest'
        BY <3>1, <4>1, <4>3, <4>4, <4>5, FreeForest
      <4> QED
        BY <3>1, <3>2, <4>1, <4>6, FreesOnce
    <3>11. CASE FreeKept
      <4>1. /\ UNCHANGED <<starts, nests, global, lost>> /\ nodes' = Kept(Freed(kept)) /\ kept' = NULL
            /\ fault' = BadFree(kept)
        BY <3>11 DEF FreeKept
      <4>2. kept \in Node => global # kept /\ kept \notin lost
        BY <3>1 DEF Forest, OneOwner, NoDangling, Roots
      <4>3. Roots' \cap Node = (Roots \cap Node) \ {kept}
        BY <4>1, <4>2, NodeAssumption DEF Roots
      <4>4. DOMAIN nodes' \subseteq DOMAIN nodes /\ NULL \notin DOMAIN nodes
        BY <3>1, <4>1, NodeAssumption DEF Kept, NodesInv
      <4>5. global' \in DOMAIN nodes' => global' # kept' /\ global' \notin lost'
        BY <3>1, <4>1, <4>4 DEF Forest, OneOwner
      <4>6. Forest'
        BY <3>1, <4>1, <4>3, <4>4, <4>5, FreeForest
      <4> QED
        BY <3>1, <3>2, <4>1, <4>6, FreesOnce
    <3>12. CASE GetAlibCode
      <4>1. UNCHANGED <<starts, nests, kept, lost>>
        BY <3>12 DEF GetAlibCode
      <4>2. CASE UNCHANGED <<nodes, global, fault>>
        <5>1. Forest'
          BY <3>1, <4>1, <4>2, SameForest DEF Forest, OneOwner, Roots
        <5> QED
          BY <2>2, <3>2, <4>1, <4>2, <5>1
      <4>3. CASE Push([mod |-> "alib", code |-> Other], global) \/ PushFail(global)
        <5> DEFINE error == [mod |-> "alib", code |-> Other]
        <5>1. error.mod # "stack" /\ (Push(error, global) \/ PushFail(global))
          BY <4>3
        <5> HIDE DEF error
        <5>2. Forest'
          BY <3>1, <4>1, <5>1, PushTopForest, PushFailForest
        <5> QED
          BY <3>2, <3>3, <3>4, <4>1, <5>1, <5>2
      <4> QED
        BY <3>12, <4>2, <4>3 DEF GetAlibCode
    <3> HIDE DEF Ok
    <3> QED
      BY <2>2, <3>2, <3>5, <3>6, <3>7, <3>8, <3>9, <3>10, <3>11, <3>12 DEF Next
  <2>3. Next => ~fault
    BY DEF Next, Raise, RaiseStart, RaiseStack, TakeOff, Wrap, Clear, FreeKept, GetAlibCode
  <2> QED
    BY <2>1, <2>2, <2>3
<1> QED
  BY <1>1, <1>2, NodesAreMallocs, PTL DEF Spec

\* Whatever allocations fail, the chains lead to every node that is allocated and
\* never into freed memory, and nothing is freed twice, unless a caller asks for a
\* new stack or raises the stack on itself.
THEOREM FreeableHolds == Spec => []Freeable
<1>1. ForestInv => Freeable
  <2> SUFFICES ASSUME ForestInv PROVE Freeable
    OBVIOUS
  <2>1. ASSUME Forest PROVE DOMAIN nodes = UNION {Freed(s) : s \in Roots}
    <3> DEFINE Left == DOMAIN nodes \ UNION {Freed(s) : s \in Roots}
    <3>1. Left = {}
      <4> SUFFICES ASSUME Left # {} PROVE FALSE
        OBVIOUS
      <4>0. Left \in SUBSET DOMAIN nodes
        OBVIOUS
      <4>1. PICK n \in Left : \A p \in Left : n \notin Owned(p)
        <5> HIDE DEF Left
        <5> QED
          BY <2>1, <4>0, OwnsGraph DEF Forest, Begins, HasFirst
      <4>2. n \in DOMAIN nodes /\ \A s \in Roots : n \notin Freed(s)
        OBVIOUS
      <4>3. n \notin Roots
        BY <2>1, <4>2, FreedTree
      <4>4. PICK p \in DOMAIN nodes : n \in Owned(p)
        BY <2>1, <4>2, <4>3 DEF Forest, OneOwner
      <4>5. PICK s \in Roots : p \in Freed(s)
        BY <4>1, <4>4
      <4> QED
        BY <2>1, <4>2, <4>4, <4>5, FreedTree
    <3>2. \A s \in Roots : Freed(s) \subseteq DOMAIN nodes
      BY <2>1, FreedTree
    <3> QED
      BY <3>1, <3>2
  <2>2. Forest => /\ {global, kept} \cap Node \subseteq DOMAIN nodes
                  /\ \A n \in DOMAIN nodes : Successors(n) \cap Node \subseteq DOMAIN nodes
    BY DEF Forest, NoDangling, Roots
  <2> QED
    BY <2>1, <2>2 DEF ForestInv, Freeable, Roots
<1> QED
  BY <1>1, ForestInvHolds, PTL
=============================================================================
