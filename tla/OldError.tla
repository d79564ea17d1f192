------------------------------ MODULE OldError ------------------------------
(***************************************************************************)
(* The stack of errors of a/old/error.c, with the cleanups of              *)
(* a/old/clean.c that report to it.  One step is the work of one module; a *)
(* call goes through a list of modules, and the system refuses memory at   *)
(* any of them.                                                            *)
(*                                                                         *)
(* alloc_stack_item clears the module of an item, and nothing sets it: an  *)
(* item of the stack is its error number, with nothing that could make a   *)
(* text of it.  The number is kept in the pointer of the item: one that is *)
(* zero looks like a failure to add, and is dropped.                       *)
(***************************************************************************)
EXTENDS Naturals, Sequences, SequencesExt

CONSTANTS
    Code,       \* the error numbers
    Resource,   \* what the program cleans up: files, sockets, mappings
    MaxReports  \* bound: the errors on the stack

VARIABLES
    epc,          \* "idle", "add" or "clean"
    todo,         \* what is left of the arguments of the call
    stack,        \* the errors, the newest first
    mallocError,  \* stack.malloc_error
    resource,     \* resource[r]: "open", "closed", or "unsure": not closed
    cstatus       \* what the last a_clean returns so far

olderror == <<epc, todo, stack, mallocError, resource, cstatus>>

Init ==
    /\ epc = "idle"
    /\ todo = <<>>
    /\ stack = <<>>
    /\ mallocError = FALSE
    /\ resource \in [Resource -> {"open", "closed"}]
    /\ cstatus = "none"

-----------------------------------------------------------------------------
(* Adding, and taking all of them off. *)

\* One round of a_error_add_vargs, when there was memory so far.
AddItem(code) ==
    \/ /\ code = 0
       /\ UNCHANGED <<stack, mallocError>>
    \/ /\ code # 0
       /\ stack' = <<code>> \o stack
       /\ UNCHANGED mallocError
    \/ /\ stack' = <<>>
       /\ mallocError' = TRUE

\* A program reports an error, and maybe another one in the same call.  Once
\* memory ran out nothing is added any more; a_error_clear does not change that.
AddVargs(codes) ==
    /\ epc = "idle"
    /\ ~mallocError
    /\ Len(stack) + Len(codes) <= MaxReports
    /\ epc' = "add"
    /\ todo' = codes
    /\ UNCHANGED <<stack, mallocError, resource, cstatus>>

Add ==
    /\ epc = "add"
    /\ AddItem(Head(todo))
    /\ todo' = IF mallocError' THEN <<>> ELSE Tail(todo)
    /\ epc' = IF todo' = <<>> THEN "idle" ELSE "add"
    /\ UNCHANGED <<resource, cstatus>>

\* a_error_str asks the module of each item for its text.  There is none: every
\* item is freed, and NULL returned.
Str ==
    /\ epc = "idle"
    /\ ~mallocError
    /\ stack' = <<>>
    /\ UNCHANGED <<epc, todo, mallocError, resource, cstatus>>

Clear ==
    /\ epc = "idle"
    /\ stack' = <<>>
    /\ UNCHANGED <<epc, todo, mallocError, resource, cstatus>>

-----------------------------------------------------------------------------
(* Cleaning up. *)

\* For what is not open there is no handle.
CleanVargs(resources) ==
    /\ epc = "idle"
    /\ cstatus = "none"
    /\ Len(stack) + Len(resources) <= MaxReports
    /\ epc' = "clean"
    /\ todo' = resources
    /\ cstatus' = "good"
    /\ UNCHANGED <<stack, mallocError, resource>>

\* Fault: the status is the last one's.
StatusLast(ok) == cstatus' = IF ok THEN "good" ELSE "error"
Status(ok) == cstatus' = IF ok THEN cstatus ELSE "error"

\* One module of a_clean_vargs.  What fails is reported with errno.
Clean ==
    /\ epc = "clean"
    /\ LET r == Head(todo) IN
        \/ /\ resource[r] # "open"
           /\ Status(TRUE)
           /\ UNCHANGED <<resource, stack, mallocError>>
        \/ /\ resource[r] = "open"
           /\ resource' = [resource EXCEPT ![r] = "closed"]
           /\ Status(TRUE)
           /\ UNCHANGED <<stack, mallocError>>
        \/ /\ resource[r] = "open"
           /\ resource' = [resource EXCEPT ![r] = "unsure"]
           /\ Status(FALSE)
           /\ IF mallocError
              THEN UNCHANGED <<stack, mallocError>>
              ELSE \E code \in Code \ {0} : AddItem(code)
    /\ todo' = Tail(todo)
    /\ epc' = IF todo' = <<>> THEN "idle" ELSE "clean"

\* The program opens some of them again.
Open ==
    /\ epc = "idle"
    /\ resource' \in [Resource -> {"open", "closed"}]
    /\ cstatus' = "none"
    /\ UNCHANGED <<epc, todo, stack, mallocError>>

Next ==
    \/ \E codes \in BoundedSeq(Code, 2) : codes # <<>> /\ AddVargs(codes)
    \/ Add
    \/ Str \/ Clear
    \/ \E resources \in SetToSeqs(Resource) : CleanVargs(resources)
    \/ Clean \/ Open

-----------------------------------------------------------------------------
(* Properties. *)

\* a_clean tries everything, whatever fails, and returns an error exactly when
\* something failed; then there is an error on the stack, or there was no memory.
CleanTells ==
    /\ epc = "idle" /\ cstatus # "none" =>
          /\ \A r \in Resource : resource[r] # "open"
          /\ cstatus = "error" <=> \E r \in Resource : resource[r] = "unsure"
    /\ epc = "clean" /\ cstatus = "error" => mallocError \/ stack # <<>>
=============================================================================
