------------------------------ MODULE Bintree ------------------------------
(***************************************************************************)
(* The binary search tree of a/bintree.c, ordered by                       *)
(* a_collect_cmp_intptr of a/collect.c.  The left subtree of a node holds  *)
(* the keys that are greater than the node's.                              *)
(*                                                                         *)
(* One step is one level of the recursions of node_put, node_get and       *)
(* node_remove.  Allocations may fail.                                     *)
(*                                                                         *)
(* With frees, the tree was given key_free and val_free, and it owns the   *)
(* keys and values put into it; without, both are NULL.  owned records the *)
(* pointers that were given to the tree and neither freed nor given back.  *)
(* The callers put pointers they own.                                      *)
(***************************************************************************)
EXTENDS Integers, Sequences

CONSTANTS
    Node,    \* the nodes a_malloc may return
    Key,     \* the keys, as integers
    Ptr,     \* the pointers to keys that callers use
    KeyOf,   \* KeyOf[p]: the key p points to
    Val,     \* the values, never NULL
    NULL,
    Frees,   \* whether the trees have destructors: TRUE, FALSE or both
    Half     \* an int holds -Half..(Half - 1)

ASSUME KeyAssumption == Key \subseteq Int /\ KeyOf \in [Ptr -> Key]
ASSUME NullAssumption == NULL \notin Node \cup Val \cup Ptr /\ Ptr \cap Val = {}
ASSUME FreesAssumption == Frees \subseteq BOOLEAN
ASSUME HalfAssumption == Half \in Nat \ {0}

VARIABLES
    frees,
    pc,      \* "idle", "put" and "merge" in node_put, "search" in node_get and
             \* node_remove, "unlink" at the end of node_remove
    nodes,   \* nodes[n]: the fields of n, for the nodes that are allocated
    root,
    at,      \* node_put's root
    new,     \* node_put's node
    slot,    \* node_remove's root_ptr: the root of the tree, or a field of a node
    op,      \* the call: its name and its arguments
    held,    \* node_remove's val
    done,    \* the last call that returned, its arguments and its result
    owned,   \* the pointers the tree has to free or to give back
    fault    \* a pointer was freed that was not the tree's

vars == <<frees, pc, nodes, root, at, new, slot, op, held, done, owned, fault>>

Field == [left : Node \cup {NULL}, right : Node \cup {NULL}, key : Ptr, val : Val \cup {NULL}]
RootSlot == <<NULL, "root">>

\* What is left of the difference when it is returned as an int.
cmp(a, b) == ((a - b + Half) % (2 * Half)) - Half

Init ==
    /\ frees \in Frees
    /\ pc = "idle"
    /\ nodes = [n \in {} |-> NULL]
    /\ root = NULL
    /\ at = NULL
    /\ new = NULL
    /\ slot = RootSlot
    /\ op = <<"init">>
    /\ held = NULL
    /\ done = <<"init">>
    /\ owned = {}
    /\ fault = FALSE

\* key_free and val_free of the pointers in S; free(NULL) does nothing.
Free(S) ==
    /\ fault' = (fault \/ (frees /\ ~(S \subseteq owned \cup {NULL})))
    /\ owned' = owned \ S

KeyAt(n) == KeyOf[nodes[n].key]
Without(n) == [m \in DOMAIN nodes \ {n} |-> nodes[m]]

\* The field that node_put, node_get and node_remove go on with.
Side(n, k) == IF cmp(KeyAt(n), k) < 0 THEN "left" ELSE "right"

\* The call returns.
Done(result) ==
    /\ done' = result
    /\ pc' = "idle"
    /\ op' = <<"init">>
    /\ at' = NULL
    /\ new' = NULL
    /\ slot' = RootSlot
    /\ held' = NULL

-----------------------------------------------------------------------------
(* a_bintree_put. *)

\* The callers' pointers: not the tree's, if it frees what it holds.
MayPut(p, v) ==
    /\ pc = "idle"
    /\ p \notin owned
    /\ v \notin owned

\* They are the tree's from the call on.
Give(p, v) == owned' = IF frees THEN owned \cup {p, v} ELSE owned

Alloc(n, p, v) ==
    nodes' = [m \in DOMAIN nodes \cup {n} |->
                 IF m = n THEN [left |-> NULL, right |-> NULL, key |-> p, val |-> v]
                          ELSE nodes[m]]

\* Which free node a_malloc returns is of no account: it is the one that is
\* named like the pointer, if that is free.
Fresh(p) ==
    IF p \in Node \ DOMAIN nodes THEN p ELSE CHOOSE n \in Node \ DOMAIN nodes : TRUE

PutRoot(p, v) ==
    /\ MayPut(p, v)
    /\ root = NULL
    /\ Node # DOMAIN nodes
    /\ Alloc(Fresh(p), p, v)
    /\ root' = Fresh(p)
    /\ Give(p, v)
    /\ Done(<<"put", KeyOf[p], v>>)
    /\ UNCHANGED <<frees, fault>>

Put(p, v) ==
    /\ MayPut(p, v)
    /\ root # NULL
    /\ Node # DOMAIN nodes
    /\ Alloc(Fresh(p), p, v)
    /\ pc' = "put"
    /\ at' = root
    /\ new' = Fresh(p)
    /\ op' = <<"put", KeyOf[p], v>>
    /\ Give(p, v)
    /\ UNCHANGED <<frees, root, slot, held, done, fault>>

PutFail(p, v) ==
    /\ MayPut(p, v)
    /\ Done(<<"failed put">>)
    /\ UNCHANGED <<frees, nodes, root, owned, fault>>

Placing == pc \in {"put", "merge"}
Way == Side(at, KeyAt(new))

PutDown ==
    /\ Placing
    /\ cmp(KeyAt(at), KeyAt(new)) # 0
    /\ nodes[at][Way] # NULL
    /\ at' = nodes[at][Way]
    /\ UNCHANGED <<frees, pc, nodes, root, new, slot, op, held, done, owned, fault>>

\* node_put returns, to a_bintree_put or to node_remove.
Placed ==
    \/ /\ pc = "put"
       /\ Done(op)
    \/ /\ pc = "merge"
       /\ pc' = "unlink"
       /\ UNCHANGED <<at, new, slot, op, held, done>>

Attach ==
    /\ Placing
    /\ cmp(KeyAt(at), KeyAt(new)) # 0
    /\ nodes[at][Way] = NULL
    /\ nodes' = [nodes EXCEPT ![at][Way] = new]
    /\ Placed
    /\ UNCHANGED <<frees, root, owned, fault>>

\* Fault: nothing is swapped.
ReplaceKeepsOld ==
    /\ Placing
    /\ cmp(KeyAt(at), KeyAt(new)) = 0
    /\ nodes' = Without(new)
    /\ Free({nodes[new].key, nodes[new].val})
    /\ Placed
    /\ UNCHANGED <<frees, root>>

\* The keys and the values are swapped, and the new node is freed.
Replace ==
    /\ Placing
    /\ cmp(KeyAt(at), KeyAt(new)) = 0
    /\ nodes' = [Without(new) EXCEPT ![at].key = nodes[new].key, ![at].val = nodes[new].val]
    /\ Free({nodes[at].key, nodes[at].val})
    /\ Placed
    /\ UNCHANGED <<frees, root>>

-----------------------------------------------------------------------------
(* a_bintree_get, a_bintree_remove, a_bintree_delete, a_bintree_axe. *)

Call(name, k) ==
    /\ pc = "idle"
    /\ pc' = "search"
    /\ op' = <<name, k>>
    /\ UNCHANGED <<frees, nodes, root, at, new, slot, held, done, owned, fault>>

Cur == IF slot = RootSlot THEN root ELSE nodes[slot[1]][slot[2]]
Searching == pc = "search" /\ Cur # NULL
Match == cmp(KeyAt(Cur), op[2]) = 0

SearchDown ==
    /\ Searching
    /\ ~Match
    /\ slot' = <<Cur, Side(Cur, op[2])>>
    /\ UNCHANGED <<frees, pc, nodes, root, at, new, op, held, done, owned, fault>>

\* What the call reports when it got v.
Result(v) == IF op[1] = "delete" THEN op ELSE Append(op, v)

Miss ==
    /\ pc = "search"
    /\ Cur = NULL
    /\ Done(Result(NULL))
    /\ UNCHANGED <<frees, nodes, root, owned, fault>>

GetHit ==
    /\ Searching
    /\ Match
    /\ op[1] = "get"
    /\ Done(Result(nodes[Cur].val))
    /\ UNCHANGED <<frees, nodes, root, owned, fault>>

\* The right subtree of a node with two is put into the left one.
RemoveHit ==
    /\ Searching
    /\ Match
    /\ op[1] # "get"
    /\ held' = nodes[Cur].val
    /\ nodes' = [nodes EXCEPT ![Cur].val = NULL]
    /\ IF nodes[Cur].left # NULL /\ nodes[Cur].right # NULL
       THEN /\ pc' = "merge"
            /\ at' = nodes[Cur].left
            /\ new' = nodes[Cur].right
       ELSE /\ pc' = "unlink"
            /\ UNCHANGED <<at, new>>
    /\ UNCHANGED <<frees, root, slot, op, done, owned, fault>>

\* node_free of the node, whose value is NULL by now.  a_bintree_remove gives
\* the value back, a_bintree_delete frees it.
FreeGone ==
    IF op[1] = "delete"
    THEN Free({nodes[Cur].key, nodes[Cur].val, held})
    ELSE /\ fault' = (fault \/ (frees /\ ~({nodes[Cur].key, nodes[Cur].val} \subseteq owned \cup {NULL})))
         /\ owned' = owned \ {nodes[Cur].key, nodes[Cur].val, held}

\* Fault: a right subtree without a left one is forgotten.
UnlinkDropsRight ==
    /\ pc = "unlink"
    /\ LET child == nodes[Cur].left
       IN IF slot = RootSlot
          THEN root' = child /\ nodes' = Without(Cur)
          ELSE /\ nodes' = [Without(Cur) EXCEPT ![slot[1]][slot[2]] = child]
               /\ UNCHANGED root
    /\ FreeGone
    /\ Done(Result(held))
    /\ UNCHANGED frees

Unlink ==
    /\ pc = "unlink"
    /\ LET child == IF nodes[Cur].left # NULL THEN nodes[Cur].left ELSE nodes[Cur].right
       IN IF slot = RootSlot
          THEN root' = child /\ nodes' = Without(Cur)
          ELSE /\ nodes' = [Without(Cur) EXCEPT ![slot[1]][slot[2]] = child]
               /\ UNCHANGED root
    /\ FreeGone
    /\ Done(Result(held))
    /\ UNCHANGED frees

\* The nodes under n, with n.
Children(n) == {nodes[n].left, nodes[n].right} \ {NULL}
Below(n) ==
    LET f[m \in DOMAIN nodes] == {m} \cup UNION {f[c] : c \in Children(m)}
    IN IF n = NULL THEN {} ELSE f[n]

\* Fault: the values are not freed.
AxeKeepsVals ==
    /\ pc = "idle"
    /\ Free({nodes[n].key : n \in Below(root)})
    /\ nodes' = [n \in DOMAIN nodes \ Below(root) |-> nodes[n]]
    /\ root' = NULL
    /\ Done(<<"clean">>)
    /\ UNCHANGED frees

Axe ==
    /\ pc = "idle"
    /\ Free({nodes[n].key : n \in Below(root)} \cup {nodes[n].val : n \in Below(root)})
    /\ nodes' = [n \in DOMAIN nodes \ Below(root) |-> nodes[n]]
    /\ root' = NULL
    /\ Done(<<"clean">>)
    /\ UNCHANGED frees

Next ==
    \/ \E p \in Ptr, v \in Val : PutRoot(p, v) \/ Put(p, v) \/ PutFail(p, v)
    \/ PutDown
    \/ Attach
    \/ Replace
    \/ \E k \in Key, name \in {"get", "remove", "delete"} : Call(name, k)
    \/ SearchDown
    \/ Miss
    \/ GetHit
    \/ RemoveHit
    \/ Unlink
    \/ Axe

Spec == Init /\ [][Next]_vars

-----------------------------------------------------------------------------
(* Properties. *)

\* The node that is being removed, and the nodes of the tree.
Gone == IF pc \in {"merge", "unlink"} THEN Cur ELSE NULL
InTree == DOMAIN nodes \ IF pc = "put" THEN {new} ELSE {}

\* The state has its shape; only the node that is being removed has no value.
TypeOK ==
    /\ pc \in {"idle", "put", "merge", "search", "unlink"}
    /\ DOMAIN nodes \subseteq Node
    /\ \A n \in DOMAIN nodes :
        /\ nodes[n] \in Field
        /\ nodes[n].val = NULL <=> n = Gone
    /\ root \in DOMAIN nodes \cup {NULL}
    /\ Placing => at \in DOMAIN nodes /\ new \in DOMAIN nodes
    /\ slot = RootSlot \/ slot \in (DOMAIN nodes) \X {"left", "right"}

\* The fields of nodes that point to n.  (At the end of node_remove the right
\* subtree hangs from two.)
Parents(n) == {s \in (DOMAIN nodes) \X {"left", "right"} :
                  nodes[s[1]][s[2]] = n /\ ~(pc = "unlink" /\ s[1] = Gone)}
OneTree ==
    /\ Below(root) = InTree
    /\ \A n \in InTree : \A s, t \in Parents(n) : s = t
    /\ root # NULL => Parents(root) = {}

Ordered ==
    \A n \in InTree : ~(pc = "unlink" /\ n = Gone) =>
        /\ \A m \in Below(nodes[n].left) : KeyAt(n) < KeyAt(m)
        /\ \A m \in Below(nodes[n].right) : KeyAt(m) < KeyAt(n)

\* The allocated nodes are one tree: each but the root hangs from one field of
\* one node and can be reached, so that a_bintree_axe frees all of them, once.
\* The greater keys are in the left subtree of a node and the smaller ones in
\* the right one, also below a node whose subtrees were merged.
SearchTree == TypeOK /\ OneTree /\ Ordered

\* What the tree has to free is in it, or in the node that is being put, or is
\* the value that node_remove holds: nothing leaks, and nothing is freed twice
\* or while it is in the tree.
Ownership ==
    /\ ~fault
    /\ frees => owned = ({nodes[n].key : n \in DOMAIN nodes}
                         \cup {nodes[n].val : n \in DOMAIN nodes}
                         \cup {held}) \ {NULL}

\* The tree is a dictionary, through replacements and the removal of nodes with
\* two subtrees.
Value(k) == IF \E n \in InTree : KeyAt(n) = k
            THEN LET n == CHOOSE n \in InTree : KeyAt(n) = k
                 IN IF n = Gone THEN held ELSE nodes[n].val
            ELSE NULL
Dictionary == INSTANCE Dict WITH dict <- [k \in Key |-> Value(k)]
RefinesDict == Dictionary!Spec

\* "the same... currently we just replace" (a/bintree.c:77): node_put replaces
\* a node by one with the same key only.
ReplacesSame == [][Replace => KeyAt(at) = KeyAt(new)]_vars
=============================================================================
