------------------------------- MODULE Queue -------------------------------
(***************************************************************************)
(* The pthread queue of a/to_do/queue.c.                                   *)
(*                                                                         *)
(* Every access to the queue happens with q->mux held, so what a thread    *)
(* does from a pthread_mutex_lock (or from its return from                 *)
(* pthread_cond_wait) to the next pthread_cond_wait or                     *)
(* pthread_mutex_unlock is one step.  A thread is                          *)
(*   "idle"                  outside of the queue,                         *)
(*   "enq" "deq" "num"                                                     *)
(*   "close" "open" "deinit" in a call, before its pthread_mutex_lock,     *)
(*   "asleep", "woken"       in q_dequeue's wait on waiting_cond, not yet  *)
(*                           or already signalled,                         *)
(*   "watch", "watchwoken"   the same in q_deinit's wait on watching_cond, *)
(*   "destroy"               in q_deinit after its unlock.                 *)
(* A condition variable may also wake a thread nobody signalled.           *)
(*                                                                         *)
(* The callers keep the contract the code needs: q_deinit is called once,  *)
(* when every other call is over or asleep in q_dequeue, and no call       *)
(* starts after it.  They enqueue non-NULL pointers that they own.         *)
(***************************************************************************)
EXTENDS Naturals, Sequences, FiniteSets

CONSTANTS Thread, Data, NULL

ASSUME ThreadAssumption == IsFiniteSet(Thread)
ASSUME DataAssumption == NULL \notin Data

VARIABLES
    life,      \* of the queue_t: "none", "live", or "destroyed" by q_deinit
               \* but not freed yet
    open,      \* q->open
    list,      \* the items from q->head to q->tail
    num,       \* q->num
    waiting,   \* q->waiting
    watching,  \* q->watching
    pc,        \* where each thread is
    item,      \* item[t]: the q_item_t t allocated before it locks
    ret,       \* ret[t]: what t's last call returned
    freed      \* the data del_q_item has freed

vars == <<life, open, list, num, waiting, watching, pc, item, ret, freed>>

Item == [data : Data, free : BOOLEAN]
NoItem == <<>>
None == <<"none">>

Entry == {"enq", "deq", "num", "close", "open"}
DeinitPC == {"deinit", "watch", "watchwoken", "destroy"}
PC == {"idle", "asleep", "woken"} \cup Entry \cup DeinitPC

Asleep == {t \in Thread : pc[t] = "asleep"}
Woken == {t \in Thread : pc[t] = "woken"}
Watchers == {t \in Thread : pc[t] \in {"watch", "watchwoken"}}

-----------------------------------------------------------------------------
(* pthread_cond_signal and pthread_cond_broadcast, as the code calls them. *)

\* Faults: no signal, and a signal only when the queue was empty.
SignalWaitingNever(p) == {p}
SignalWaitingFirst(p) ==
    IF waiting > 0 /\ Asleep # {} /\ num = 0
    THEN {[p EXCEPT ![s] = "woken"] : s \in Asleep}
    ELSE {p}

\* if(q->waiting) pthread_cond_signal(waiting_cond): the program counters
\* that can result from p.
SignalWaiting(p) ==
    IF waiting > 0 /\ Asleep # {}
    THEN {[p EXCEPT ![s] = "woken"] : s \in Asleep}
    ELSE {p}

\* if(q->waiting) pthread_cond_broadcast(waiting_cond)
BroadcastWaiting(p) ==
    IF waiting > 0
    THEN [t \in Thread |-> IF p[t] = "asleep" THEN "woken" ELSE p[t]]
    ELSE p

\* if(q->watching) pthread_cond_broadcast(watching_cond)
BroadcastWatching(p) ==
    IF watching > 0
    THEN [t \in Thread |-> IF p[t] = "watch" THEN "watchwoken" ELSE p[t]]
    ELSE p

\* t unlocks the mutex and returns r from its call.
Returning(t) == [pc EXCEPT ![t] = "idle"]
Return(t, r) ==
    /\ item' = [item EXCEPT ![t] = NoItem]
    /\ ret' = [ret EXCEPT ![t] = r]

-----------------------------------------------------------------------------
(* The callers. *)

Init ==
    /\ life = "none"
    /\ open = FALSE
    /\ list = <<>>
    /\ num = 0
    /\ waiting = 0
    /\ watching = 0
    /\ pc = [t \in Thread |-> "idle"]
    /\ item = [t \in Thread |-> NoItem]
    /\ ret = [t \in Thread |-> None]
    /\ freed = {}

MayCall(t) ==
    /\ life = "live"
    /\ pc[t] = "idle"
    /\ \A u \in Thread : pc[u] \notin DeinitPC

Call(t, o) ==
    /\ MayCall(t)
    /\ o \in Entry \ {"enq"}
    /\ pc' = [pc EXCEPT ![t] = o]
    /\ ret' = [ret EXCEPT ![t] = None]
    /\ UNCHANGED <<life, open, list, num, waiting, watching, item, freed>>

\* A caller owns a pointer that is neither in the queue nor on its way into
\* it; malloc may hand out again the address of data that was freed.
Owned(d) ==
    /\ \A k \in DOMAIN list : list[k].data # d
    /\ \A u \in Thread : pc[u] = "enq" => item[u].data # d

\* q_enque up to its lock: the item is allocated first.
CallEnque(t, i) ==
    /\ MayCall(t)
    /\ Owned(i.data)
    /\ pc' = [pc EXCEPT ![t] = "enq"]
    /\ item' = [item EXCEPT ![t] = i]
    /\ ret' = [ret EXCEPT ![t] = None]
    /\ freed' = freed \ {i.data}
    /\ UNCHANGED <<life, open, list, num, waiting, watching>>

CallDeinit(t) ==
    /\ MayCall(t)
    /\ \A u \in Thread : pc[u] \in {"idle", "asleep", "woken"}
    /\ pc' = [pc EXCEPT ![t] = "deinit"]
    /\ ret' = [ret EXCEPT ![t] = None]
    /\ UNCHANGED <<life, open, list, num, waiting, watching, item, freed>>

-----------------------------------------------------------------------------
(* The operations. *)

QInit(t) ==
    /\ life = "none"
    /\ pc[t] = "idle"
    /\ life' = "live"
    /\ open' = TRUE
    /\ list' = <<>>
    /\ num' = 0
    /\ waiting' = 0
    /\ watching' = 0
    /\ pc' = Returning(t)
    /\ Return(t, None)
    /\ UNCHANGED freed

\* The item allocated before the lock is not freed: it leaks, and its data
\* stays with the caller.
EnqueClosed(t) ==
    /\ pc[t] = "enq"
    /\ ~open
    /\ pc' = Returning(t)
    /\ Return(t, <<"enq", FALSE>>)
    /\ UNCHANGED <<life, open, list, num, waiting, watching, freed>>

Enque(t) ==
    /\ pc[t] = "enq"
    /\ open
    /\ list' = Append(list, item[t])
    /\ num' = num + 1
    /\ pc' \in SignalWaiting(BroadcastWatching(Returning(t)))
    /\ Return(t, <<"enq", TRUE>>)
    /\ UNCHANGED <<life, open, waiting, watching, freed>>

\* q_dequeue from its first lock, and from its return from
\* pthread_cond_wait, which decrements q->waiting.
AtDequeue(t) == pc[t] \in {"deq", "woken"}

\* Fault: the decrement is missing.
WaitingButNever(t) == waiting

WaitingBut(t) == IF pc[t] = "woken" THEN waiting - 1 ELSE waiting

DequeueSleep(t) ==
    /\ AtDequeue(t)
    /\ open
    /\ num = 0
    /\ waiting' = WaitingBut(t) + 1
    /\ pc' = [pc EXCEPT ![t] = "asleep"]
    /\ UNCHANGED <<life, open, list, num, watching, item, ret, freed>>

\* Faults: the remaining items are forgotten; q_deinit is not told.
DequeueClosedEarly(t) ==
    /\ AtDequeue(t)
    /\ ~open
    /\ waiting' = WaitingBut(t)
    /\ pc' = BroadcastWatching(Returning(t))
    /\ Return(t, <<"deq", NULL>>)
    /\ UNCHANGED <<life, open, list, num, watching, freed>>
DequeueClosedSilent(t) ==
    /\ AtDequeue(t)
    /\ ~open
    /\ num = 0
    /\ waiting' = WaitingBut(t)
    /\ pc' = Returning(t)
    /\ Return(t, <<"deq", NULL>>)
    /\ UNCHANGED <<life, open, list, num, watching, freed>>

DequeueClosed(t) ==
    /\ AtDequeue(t)
    /\ ~open
    /\ num = 0
    /\ waiting' = WaitingBut(t)
    /\ pc' = BroadcastWatching(Returning(t))
    /\ Return(t, <<"deq", NULL>>)
    /\ UNCHANGED <<life, open, list, num, watching, freed>>

\* The item is unlinked under the lock; its data is set to NULL before
\* del_q_item, which therefore never frees it.
DequeueTake(t) ==
    /\ AtDequeue(t)
    /\ num # 0
    /\ list' = Tail(list)
    /\ num' = num - 1
    /\ waiting' = WaitingBut(t)
    /\ pc' = BroadcastWatching(Returning(t))
    /\ Return(t, <<"deq", Head(list).data>>)
    /\ UNCHANGED <<life, open, watching, freed>>

QNum(t) ==
    /\ pc[t] = "num"
    /\ pc' = Returning(t)
    /\ Return(t, <<"num", num>>)
    /\ UNCHANGED <<life, open, list, num, waiting, watching, freed>>

\* q_close and q_open differ in the value they store.  Both signal one
\* waiter only.
SetOpen(t, o) ==
    /\ pc[t] = o
    /\ o \in {"close", "open"}
    /\ open' = (o = "open")
    /\ pc' \in SignalWaiting(BroadcastWatching(Returning(t)))
    /\ Return(t, None)
    /\ UNCHANGED <<life, list, num, waiting, watching, freed>>

-----------------------------------------------------------------------------
(* q_deinit. *)

\* The body of the loop: wait for the waiters and the other watchers ...
DeinitWait(t, w, p) ==
    /\ waiting > 0 \/ w > 0
    /\ watching' = w + 1
    /\ pc' = [p EXCEPT ![t] = "watch"]
    /\ UNCHANGED <<life, list, num, waiting, item, ret, freed>>

\* Fault: q_deinit waits for the watchers only.
DeinitFinishEarly(t, w, p) ==
    /\ w = 0
    /\ watching' = w
    /\ list' = <<>>
    /\ freed' = freed \cup {list[k].data : k \in {j \in DOMAIN list : list[j].free}}
    /\ life' = "destroyed"
    /\ pc' = [p EXCEPT ![t] = "destroy"]
    /\ UNCHANGED <<num, waiting, item, ret>>

\* ... and what follows it, up to the unlock: delete the remaining items,
\* with the data they were flagged to free, and destroy the conditions.
DeinitFinish(t, w, p) ==
    /\ waiting = 0
    /\ w = 0
    /\ watching' = w
    /\ list' = <<>>
    /\ freed' = freed \cup {list[k].data : k \in {j \in DOMAIN list : list[j].free}}
    /\ life' = "destroyed"
    /\ pc' = [p EXCEPT ![t] = "destroy"]
    /\ UNCHANGED <<num, waiting, item, ret>>

DeinitEnter(t) ==
    /\ pc[t] = "deinit"
    /\ open' = FALSE
    /\ LET p == BroadcastWatching(BroadcastWaiting(pc)) IN
       \/ DeinitWait(t, watching, p)
       \/ DeinitFinish(t, watching, p)

DeinitWake(t) ==
    /\ pc[t] = "watchwoken"
    /\ open' = open
    /\ \/ DeinitWait(t, watching - 1, pc)
       \/ DeinitFinish(t, watching - 1, pc)

\* Destroy the mutex and free the queue.
DeinitFree(t) ==
    /\ pc[t] = "destroy"
    /\ life' = "none"
    /\ pc' = Returning(t)
    /\ Return(t, <<"deinit">>)
    /\ UNCHANGED <<open, list, num, waiting, watching, freed>>

-----------------------------------------------------------------------------

\* pthread_cond_wait may return without a signal.
Spurious(t) ==
    /\ \/ /\ pc[t] = "asleep"
          /\ pc' = [pc EXCEPT ![t] = "woken"]
       \/ /\ pc[t] = "watch"
          /\ pc' = [pc EXCEPT ![t] = "watchwoken"]
    /\ UNCHANGED <<life, open, list, num, waiting, watching, item, ret, freed>>

\* What a thread in a call does next, when it is not asleep.
Step(t) ==
    \/ EnqueClosed(t)
    \/ Enque(t)
    \/ DequeueSleep(t)
    \/ DequeueClosed(t)
    \/ DequeueTake(t)
    \/ QNum(t)
    \/ \E o \in {"close", "open"} : SetOpen(t, o)
    \/ DeinitEnter(t)
    \/ DeinitWake(t)
    \/ DeinitFree(t)

Calls(t) ==
    \/ QInit(t)
    \/ \E o \in Entry \ {"enq"} : Call(t, o)
    \/ \E i \in Item : CallEnque(t, i)
    \/ CallDeinit(t)

Next == \E t \in Thread : Calls(t) \/ Step(t) \/ Spurious(t)

Spec == Init /\ [][Next]_vars

\* A thread that is in a call and not asleep is eventually given the
\* processor and the mutex.  Nothing obliges a caller to call, or a condition
\* variable to wake a thread that nobody signals.
FairSpec == Spec /\ \A t \in Thread : WF_vars(Step(t))
-----------------------------------------------------------------------------
(* Properties. *)

\* The state has its shape.
TypeOK ==
    /\ life \in {"none", "live", "destroyed"}
    /\ open \in BOOLEAN
    /\ list \in Seq(Item)
    /\ num \in Nat
    /\ waiting \in Nat
    /\ watching \in Nat
    /\ pc \in [Thread -> PC]
    /\ item \in [Thread -> Item \cup {NoItem}]
    /\ \A t \in Thread : pc[t] = "enq" => item[t] \in Item
    /\ freed \subseteq Data

\* The three counters the code decides by are exact whenever the mutex is
\* free: q->num is the length of the list, q->waiting the dequeuers that are
\* in pthread_cond_wait or on their way out of it, q->watching the same for
\* q_deinit.
CountsExact ==
    /\ life = "live" => num = Len(list)
    /\ waiting = Cardinality(Asleep \cup Woken)
    /\ watching = Cardinality(Watchers)

\* Once q_deinit has destroyed the conditions, and after it has freed the
\* queue, no other thread is inside an operation: q->waiting keeps q_deinit
\* from freeing the mutex under a dequeuer that was woken but has not got the
\* mutex back yet.
NoUseAfterFree ==
    life # "live" => \A t \in Thread :
        pc[t] \in IF life = "destroyed" THEN {"idle", "destroy"} ELSE {"idle"}

\* An item is never left in the queue while a dequeuer sleeps on without a
\* wakeup under way: as long as somebody sleeps there are at least as many
\* woken dequeuers as items, so the one signal per q_enque is enough whatever
\* other dequeuers barge in.
NoLostWakeup == Asleep # {} => num <= Cardinality(Woken)

\* A thread in a wait is still in the call that waits.
OpOf(c) == CASE c \in {"asleep", "woken"} -> "deq"
             [] c \in {"watch", "watchwoken"} -> "deinit"
             [] OTHER -> c

\* The queue is a closable first-in first-out buffer: nothing is lost,
\* duplicated, reordered or freed while somebody else owns it, NULL is
\* returned only by a closed and empty queue, and q_deinit drops the contents
\* only when no other call is pending.
Fifo == INSTANCE ClosableFifo WITH
    alive <- life # "none",
    buf <- list,
    op <- [t \in Thread |-> OpOf(pc[t])]
RefinesFifo == Fifo!Spec

\* q_deinit returns, however many dequeuers were asleep when it was called, and
\* so does every one of those.
DeinitReturns == \A t \in Thread :
    /\ pc[t] \in DeinitPC ~> pc[t] = "idle"
    /\ pc[t] \in {"asleep", "woken"} /\ (\E u \in Thread : pc[u] \in DeinitPC)
          ~> pc[t] = "idle"

\* A dequeuer that sleeps while there are items is woken, or the items are
\* taken by others: the queue never stalls with both.
NoStall == \A t \in Thread :
    pc[t] = "asleep" /\ num > 0 ~> pc[t] # "asleep" \/ num = 0
=============================================================================
