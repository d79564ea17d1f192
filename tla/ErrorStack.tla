----------------------------- MODULE ErrorStack -----------------------------
(***************************************************************************)
(* The error stack of a/error.c: a process-wide chain of nodes, the last   *)
(* error first.  One step is a call, made by one thread.                   *)
(*                                                                         *)
(* A node of module "stack" owns another stack, its code.  When there is   *)
(* no memory for a node, the whole chain is freed and a static node takes  *)
(* its place.                                                              *)
(*                                                                         *)
(* Callers push errors, ask for the code, and clear the stack by freeing   *)
(* it and setting it to NULL.  They may also set it to NULL and keep the   *)
(* old one, to wrap it in an error of module "stack" later.                *)
(***************************************************************************)
EXTENDS Naturals, FiniteSets

CONSTANTS
    Node,    \* the nodes malloc may return
    Code,    \* the codes of alib's errors, never A_ERROR_SUCCESS
    Other,   \* A_ERROR_OTHER
    Static,  \* stack_alloc_error
    NULL     \* the null pointer, and A_ERROR_SUCCESS

ASSUME NodeAssumption == Static \notin Node /\ NULL \notin Node /\ Static # NULL
ASSUME CodeAssumption == Other \in Code /\ NULL \notin Code

VARIABLES
    starts,  \* whether callers of a_error_stack_macro_helper ask for a new stack
    nests,   \* whether callers use a_error(stack)
    nodes,   \* nodes[n]: the node at n, for the nodes that are allocated
    global,  \* global_error_stack
    kept,    \* the stack a caller took off, or NULL
    lost,    \* the stacks that nobody points to any more
    ret,     \* what a_error_get_alib_code returned last
    fault    \* a freed node was freed again, or is in the stack

vars == <<starts, nests, nodes, global, kept, lost, ret, fault>>

Init ==
    /\ starts \in BOOLEAN
    /\ nests \in BOOLEAN
    /\ nodes = [n \in {} |-> NULL]
    /\ global = NULL
    /\ kept = NULL
    /\ lost = {}
    /\ ret = NULL
    /\ fault = FALSE

\* What a_error_stack_free follows: the rest of the chain, and an owned stack.
Successors(n) == {nodes[n].ptr} \cup IF nodes[n].mod = "stack" THEN {nodes[n].code} ELSE {}

\* The nodes that a_error_stack_free(s) frees.
Freed(s) ==
    LET f[n \in DOMAIN nodes] == {n} \cup UNION {f[m] : m \in Successors(n) \cap DOMAIN nodes}
    IN IF s \in DOMAIN nodes THEN f[s] ELSE {}

\* It goes through freed memory, or reaches a node both as the rest of a chain
\* and as an owned stack.
Dangling == Node \ DOMAIN nodes
BadFree(s) ==
    \/ s \in Dangling
    \/ \E n \in Freed(s) :
          \/ Successors(n) \cap Dangling # {}
          \/ nodes[n].mod = "stack" /\ Freed(nodes[n].ptr) \cap Freed(nodes[n].code) # {}

Kept(S) == [n \in DOMAIN nodes \ S |-> nodes[n]]

\* The errors that callers raise: the system's and alib's.
Raised == [mod : {"perror"}, code : {NULL}] \cup [mod : {"alib"}, code : Code]

\* a_error_stack on top of prev, the result of which becomes the stack.
Push(error, prev) ==
    \E n \in Node \ DOMAIN nodes :
        /\ nodes' = [m \in DOMAIN nodes \cup {n} |->
                        IF m = n
                        THEN [mod |-> error.mod, code |-> error.code, ptr |-> prev]
                        ELSE nodes[m]]
        /\ global' = n
        /\ UNCHANGED fault

\* Faults: the chain that cannot be continued is not freed; nothing takes its
\* place.
PushFailKeeps(prev) ==
    /\ global' = Static
    /\ UNCHANGED <<nodes, fault>>
PushFailForgets(prev) ==
    /\ nodes' = Kept(Freed(prev))
    /\ global' = NULL
    /\ fault' = (fault \/ BadFree(prev))

PushFail(prev) ==
    /\ nodes' = Kept(Freed(prev))
    /\ global' = Static
    /\ fault' = (fault \/ BadFree(prev))

Raise(error) ==
    /\ ~fault
    /\ Push(error, global) \/ PushFail(global)
    /\ UNCHANGED <<starts, nests, kept, lost, ret>>

\* The stack is freed, and used as the rest of the new chain.
RaiseStart(error) ==
    /\ starts
    /\ ~fault
    /\ global \in Node
    /\ nodes' = Kept(Freed(global))
    /\ fault' = TRUE
    /\ UNCHANGED <<starts, nests, global, kept, lost, ret>>

\* a_error(stack): the code of the new node is the stack it is put on.
RaiseStack ==
    /\ nests
    /\ ~fault
    /\ Push([mod |-> "stack", code |-> global], global) \/ PushFail(global)
    /\ UNCHANGED <<starts, nests, kept, lost, ret>>

\* a_error_set_stack(NULL), after a_error_get_stack.
TakeOff ==
    /\ ~fault
    /\ kept = NULL
    /\ kept' = global
    /\ global' = NULL
    /\ UNCHANGED <<starts, nests, nodes, lost, ret, fault>>

\* a_error_code(stack, kept).  Without memory nothing owns the code.
Wrap ==
    /\ ~fault
    /\ kept # NULL
    /\ kept' = NULL
    /\ \/ /\ Push([mod |-> "stack", code |-> kept], global)
          /\ UNCHANGED lost
       \/ /\ PushFail(global)
          /\ lost' = lost \cup {kept}
    /\ UNCHANGED <<starts, nests, ret>>

\* a_error_stack_free of the stack, and a_error_set_stack(NULL).
Clear ==
    /\ ~fault
    /\ nodes' = Kept(Freed(global))
    /\ global' = NULL
    /\ fault' = BadFree(global)
    /\ UNCHANGED <<starts, nests, kept, lost, ret>>

FreeKept ==
    /\ ~fault
    /\ nodes' = Kept(Freed(kept))
    /\ kept' = NULL
    /\ fault' = BadFree(kept)
    /\ UNCHANGED <<starts, nests, global, lost, ret>>

Top(mod) == global \in DOMAIN nodes /\ nodes[global].mod = mod

\* Fault: the code of the last error is returned, whatever module it is of.
GetAlibCodeAny ==
    /\ ~fault
    /\ \/ /\ global \notin DOMAIN nodes
          /\ ret' = NULL
       \/ /\ global \in DOMAIN nodes
          /\ ret' = nodes[global].code
    /\ UNCHANGED <<starts, nests, nodes, global, kept, lost, fault>>

\* An error that is not alib's is made one: a_error_code_ret.
GetAlibCode ==
    /\ ~fault
    /\ \/ /\ global = NULL
          /\ ret' = NULL
          /\ UNCHANGED <<nodes, global, fault>>
       \/ /\ Top("alib")
          /\ ret' = nodes[global].code
          /\ UNCHANGED <<nodes, global, fault>>
       \/ /\ global # NULL /\ ~Top("alib")
          /\ ret' = Other
          /\ Push([mod |-> "alib", code |-> Other], global) \/ PushFail(global)
    /\ UNCHANGED <<starts, nests, kept, lost>>

Next ==
    \/ \E error \in Raised : Raise(error) \/ RaiseStart(error)
    \/ RaiseStack
    \/ TakeOff
    \/ Wrap
    \/ Clear
    \/ FreeKept
    \/ GetAlibCode

Spec == Init /\ [][Next]_vars

-----------------------------------------------------------------------------
(* Properties. *)

\* Whatever allocations fail, the chains lead to every node that is allocated and
\* never into freed memory, and nothing is freed twice, unless a caller asks for a
\* new stack or raises the stack on itself.  A stack that could not be wrapped is
\* lost.
Freeable ==
    /\ fault => starts \/ nests
    /\ ~fault =>
          /\ {global, kept} \cap Node \subseteq DOMAIN nodes
          /\ \A n \in DOMAIN nodes : Successors(n) \cap Node \subseteq DOMAIN nodes
          /\ DOMAIN nodes = UNION {Freed(s) : s \in {global, kept} \cup lost}

\* An error stays an error: until the stack is cleared or taken off, no failure
\* while another one is recorded makes a_error_get_alib_code say "success".
ErrorStays == [][global # NULL /\ ~Clear /\ ~TakeOff => global' # NULL]_vars

\* Asking does not change the answer: a second a_error_get_alib_code returns
\* what the first did, and finds an alib error unless there was no memory.
Answer == IF global = NULL THEN NULL ELSE IF Top("alib") THEN nodes[global].code ELSE Other
AnswerStable == [][GetAlibCode => ret' = Answer /\ Answer' = Answer]_vars
=============================================================================
