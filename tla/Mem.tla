-------------------------------- MODULE Mem --------------------------------
(***************************************************************************)
(* The allocation wrappers of a/mem.c over the C library's heap.  One step *)
(* is a call.  The C library may refuse any request, and does as it likes  *)
(* with malloc(0).                                                         *)
(*                                                                         *)
(* held records the blocks that the callers believe to be theirs, by what  *)
(* the calls returned.  The wrappers do not read it.                       *)
(***************************************************************************)
EXTENDS Integers

CONSTANTS
    Block,   \* the blocks malloc may return
    Sizes,   \* the sizes callers ask for
    Word,    \* sizeof(void *)
    NULL

ASSUME BlockAssumption == NULL \notin Block
ASSUME SizesAssumption == Sizes \subseteq Nat /\ Word \in Nat \ {0}

VARIABLES
    zeroes,  \* whether callers use a_realloc_free with size zero
    heap,    \* heap[b]: the size of b, for the blocks that are allocated
    held,
    ret,     \* what the last call returned
    died,    \* a_die ended the program
    fault    \* a pointer was freed that was not allocated

vars == <<zeroes, heap, held, ret, died, fault>>

Init ==
    /\ zeroes \in BOOLEAN
    /\ heap = [b \in {} |-> NULL]
    /\ held = {}
    /\ ret = NULL
    /\ died = FALSE
    /\ fault = FALSE

Running == ~died /\ ~fault
Allocated == DOMAIN heap

-----------------------------------------------------------------------------
(* The C library. *)

\* malloc or realloc returns block b of the size, and in is freed.
Gets(b, in, size) ==
    /\ b \in Block
    /\ b \notin Allocated \ {in}
    /\ heap' = [c \in (Allocated \ {in}) \cup {b} |-> IF c = b THEN size ELSE heap[c]]

Freed(in) == heap' = [b \in Allocated \ {in} |-> heap[b]]

-----------------------------------------------------------------------------
(* The functions that return NULL when they fail.  ret' is NULL or the      *)
(* caller's new block.                                                      *)

\* The block, or nothing: malloc failed or was not called.
Return(b) == ret' = b /\ held' = held \cup {b}
ReturnNULL == ret' = NULL /\ UNCHANGED <<heap, held>>
Others == UNCHANGED <<zeroes, died, fault>>

\* a_malloc, a_malloc0, a_memdup and a_strdup.
Malloc(size) ==
    /\ Running
    /\ \/ /\ size > 0
          /\ \E b \in Block : Gets(b, NULL, size) /\ Return(b)
       \/ ReturnNULL
    /\ Others

MallocNULL(size) ==
    /\ Running
    /\ \/ /\ size > 0 /\ size % Word = 0
          /\ \E b \in Block : Gets(b, NULL, size) /\ Return(b)
       \/ ReturnNULL
    /\ Others

\* What a_realloc leaves of the heap when it returns NULL: size zero frees the
\* block, one that cannot grow stays.
Left(in, size) == IF size = 0 THEN [b \in Allocated \ {in} |-> heap[b]] ELSE heap

Realloc(in, size) ==
    /\ Running
    /\ in \in held \cup {NULL}
    /\ \/ /\ size > 0
          /\ \E b \in Block : Gets(b, in, size) /\ held' = (held \ {in}) \cup {b} /\ ret' = b
       \/ /\ heap' = Left(in, size)
          /\ held' = IF size = 0 THEN held \ {in} ELSE held
          /\ ret' = NULL
    /\ Others

Free(in) ==
    /\ Running
    /\ in \in held
    /\ Freed(in)
    /\ held' = held \ {in}
    /\ ret' = NULL
    /\ Others

\* When a_realloc returns NULL the block is freed, for whatever reason it did.
ReallocFree(in, size) ==
    /\ Running
    /\ in \in held \cup {NULL}
    /\ size = 0 => zeroes
    /\ \/ /\ size > 0
          /\ \E b \in Block : Gets(b, in, size) /\ held' = (held \ {in}) \cup {b} /\ ret' = b
          /\ UNCHANGED fault
       \/ /\ heap' = [b \in DOMAIN Left(in, size) \ {in} |-> heap[b]]
          /\ fault' = (in \notin DOMAIN Left(in, size) \cup {NULL})
          /\ held' = held \ {in}
          /\ ret' = NULL
    /\ UNCHANGED <<zeroes, died>>

-----------------------------------------------------------------------------
(* The functions that end the program when they fail. *)

XGets(in, size) ==
    \/ \E b \in Block : /\ Gets(b, in, size)
                       /\ held' = (held \ {in}) \cup {b}
                       /\ ret' = b
                       /\ UNCHANGED died
    \/ died' = TRUE /\ UNCHANGED <<heap, held, ret>>

\* a_xmalloc, a_xmalloc0 and a_xstrdup.
XMalloc(size) == Running /\ XGets(NULL, size) /\ UNCHANGED <<zeroes, fault>>

\* sizeof(void *) is used as a number of bits.
XMallocNULL(size) ==
    /\ Running
    /\ IF size % 2^Word # 0 THEN ReturnNULL /\ UNCHANGED died ELSE XGets(NULL, size)
    /\ UNCHANGED <<zeroes, fault>>

XRealloc(in, size) ==
    /\ Running
    /\ in \in held \cup {NULL}
    /\ IF size = 0
       THEN Freed(in) /\ held' = held \ {in} /\ ret' = NULL /\ UNCHANGED died
       ELSE XGets(in, size)
    /\ UNCHANGED <<zeroes, fault>>

Next ==
    \/ \E size \in Sizes :
        \/ Malloc(size) \/ MallocNULL(size)
        \/ XMalloc(size) \/ XMallocNULL(size)
        \/ \E in \in Block \cup {NULL} :
              Realloc(in, size) \/ ReallocFree(in, size) \/ XRealloc(in, size)
    \/ \E in \in Block \cup {NULL} : Free(in)

Spec == Init /\ [][Next]_vars
=============================================================================
