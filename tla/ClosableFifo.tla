---------------------------- MODULE ClosableFifo ----------------------------
(***************************************************************************)
(* What a/to_do/queue.c promises its callers: an unbounded first-in        *)
(* first-out buffer that can be closed and reopened, and destroyed while   *)
(* callers are blocked in it.  Every operation takes effect at one         *)
(* instant between its call and its return; nothing here knows of a mutex, *)
(* a condition variable or a count of sleepers.                            *)
(***************************************************************************)
EXTENDS Naturals, Sequences

CONSTANTS
    Thread,  \* the callers
    Data,    \* the non-NULL pointers they enqueue
    NULL     \* what a dequeue of a closed, empty buffer returns

VARIABLES
    alive,   \* between q_init and the end of q_deinit
    open,    \* FALSE once closed, until reopened
    buf,     \* the items, oldest first
    op,      \* op[t]: the call t is in, "idle" outside of any
    item,    \* item[t]: the item t is enqueuing
    ret,     \* ret[t]: what t's last completed call returned
    freed    \* the data freed on behalf of the callers

vars == <<alive, open, buf, op, item, ret, freed>>

Item == [data : Data, free : BOOLEAN]
NoItem == <<>>
None == <<"none">>

Init ==
    /\ alive = FALSE
    /\ open = FALSE
    /\ buf = <<>>
    /\ op = [t \in Thread |-> "idle"]
    /\ item = [t \in Thread |-> NoItem]
    /\ ret = [t \in Thread |-> None]
    /\ freed = {}

Return(t, r) ==
    /\ op' = [op EXCEPT ![t] = "idle"]
    /\ item' = [item EXCEPT ![t] = NoItem]
    /\ ret' = [ret EXCEPT ![t] = r]

-----------------------------------------------------------------------------
(* Calls. *)

Create(t) ==
    /\ ~alive
    /\ op[t] = "idle"
    /\ alive' = TRUE
    /\ open' = TRUE
    /\ buf' = <<>>
    /\ Return(t, None)
    /\ UNCHANGED freed

Invoke(t, o) ==
    /\ alive
    /\ op[t] = "idle"
    /\ o \in {"deq", "num", "close", "open", "deinit"}
    /\ op' = [op EXCEPT ![t] = o]
    /\ ret' = [ret EXCEPT ![t] = None]
    /\ UNCHANGED <<alive, open, buf, item, freed>>

InvokeEnque(t, i) ==
    /\ alive
    /\ op[t] = "idle"
    /\ op' = [op EXCEPT ![t] = "enq"]
    /\ item' = [item EXCEPT ![t] = i]
    /\ ret' = [ret EXCEPT ![t] = None]
    /\ freed' = freed \ {i.data}
    /\ UNCHANGED <<alive, open, buf>>

-----------------------------------------------------------------------------
(* Effects. *)

Enque(t) ==
    /\ op[t] = "enq"
    /\ buf' = IF open THEN Append(buf, item[t]) ELSE buf
    /\ Return(t, <<"enq", open>>)
    /\ UNCHANGED <<alive, open, freed>>

\* Blocks while the buffer is open and empty.
Dequeue(t) ==
    /\ op[t] = "deq"
    /\ \/ /\ buf # <<>>
          /\ buf' = Tail(buf)
          /\ Return(t, <<"deq", Head(buf).data>>)
       \/ /\ buf = <<>>
          /\ ~open
          /\ Return(t, <<"deq", NULL>>)
          /\ UNCHANGED buf
    /\ UNCHANGED <<alive, open, freed>>

Num(t) ==
    /\ op[t] = "num"
    /\ Return(t, <<"num", Len(buf)>>)
    /\ UNCHANGED <<alive, open, buf, freed>>

SetOpen(t, o) ==
    /\ op[t] = o
    /\ o \in {"close", "open"}
    /\ open' = (o = "open")
    /\ Return(t, None)
    /\ UNCHANGED <<alive, buf, freed>>

\* A destroyer first closes the buffer, which unblocks the dequeuers ...
DestroyClose(t) ==
    /\ op[t] = "deinit"
    /\ open' = FALSE
    /\ UNCHANGED <<alive, buf, op, item, ret, freed>>

\* ... and drops the contents only when it is alone with them, freeing the
\* data it was asked to free.
DestroyDrop(t) ==
    /\ op[t] = "deinit"
    /\ \A u \in Thread \ {t} : op[u] = "idle"
    /\ open' = FALSE
    /\ buf' = <<>>
    /\ freed' = freed \cup {buf[k].data : k \in {j \in DOMAIN buf : buf[j].free}}
    /\ op' = [op EXCEPT ![t] = "destroy"]
    /\ UNCHANGED <<alive, item, ret>>

DestroyReturn(t) ==
    /\ op[t] = "destroy"
    /\ alive' = FALSE
    /\ Return(t, <<"deinit">>)
    /\ UNCHANGED <<open, buf, freed>>

Next ==
    \E t \in Thread :
        \/ Create(t)
        \/ \E o \in {"deq", "num", "close", "open", "deinit"} : Invoke(t, o)
        \/ \E i \in Item : InvokeEnque(t, i)
        \/ Enque(t)
        \/ Dequeue(t)
        \/ Num(t)
        \/ \E o \in {"close", "open"} : SetOpen(t, o)
        \/ DestroyClose(t)
        \/ DestroyDrop(t)
        \/ DestroyReturn(t)

Spec == Init /\ [][Next]_vars
=============================================================================
