---------------------------- MODULE QueueProofs ----------------------------
(***************************************************************************)
(* Proofs about the queue, for any finite set of threads and any data.     *)
(*                                                                         *)
(* The inductive invariant is IInv: the types, the exact counters, and the *)
(* contract of the callers carried through the operations.  It implies     *)
(* NoUseAfterFree, and with it NoLostWakeup is inductive and every step is *)
(* a step of ClosableFifo.                                                 *)
(***************************************************************************)
EXTENDS Queue, FiniteSetTheorems, TLAPS

USE DEF Item, NoItem, Entry, DeinitPC, PC, Returning

Sleeper == {"asleep", "woken"}
Watcher == {"watch", "watchwoken"}

\* The threads that are at a program counter in S.
In(p, S) == {t \in Thread : p[t] \in S}
Bit(x, S) == IF x \in S THEN 1 ELSE 0

\* Wakeups only turn "asleep" into "woken" and "watch" into "watchwoken".
Wakes(p, q) ==
    /\ q \in [Thread -> PC]
    /\ \A t \in Thread :
        \/ q[t] = p[t]
        \/ p[t] = "asleep" /\ q[t] = "woken"
        \/ p[t] = "watch" /\ q[t] = "watchwoken"

\* t goes to v, and others may be woken.
Moves(t, v) == v \in PC /\ Wakes([pc EXCEPT ![t] = v], pc')

\* The contract of the callers, as the operations preserve it.
Contract ==
    /\ life = "none" => \A t \in Thread : pc[t] = "idle"
    /\ life = "destroyed" => \A t \in Thread : pc[t] \in {"idle", "destroy"}
    /\ \A t \in Thread : pc[t] = "destroy" => life = "destroyed"
    /\ \A t \in Thread : pc[t] \in {"watch", "watchwoken", "destroy"} => ~open
    /\ \A t \in Thread : pc[t] \in DeinitPC =>
        \A u \in Thread \ {t} : pc[u] \in {"idle", "asleep", "woken"}

IInv == TypeOK /\ CountsExact /\ Contract

-----------------------------------------------------------------------------
(* Counting the threads at a set of program counters. *)

LEMMA InFinite ==
    ASSUME NEW p, NEW S
    PROVE  IsFiniteSet(In(p, S)) /\ Cardinality(In(p, S)) \in Nat
BY ThreadAssumption, FS_Subset, FS_CardinalityType DEF In

LEMMA InExcept ==
    ASSUME NEW p \in [Thread -> PC], NEW t \in Thread, NEW v \in PC, NEW S
    PROVE  Cardinality(In([p EXCEPT ![t] = v], S)) =
               Cardinality(In(p, S)) - Bit(p[t], S) + Bit(v, S)
<1> DEFINE A == In(p, S)
           B == In([p EXCEPT ![t] = v], S)
<1>0. IsFiniteSet(A) /\ IsFiniteSet(B) /\ Cardinality(A) \in Nat /\ Cardinality(B) \in Nat
  BY InFinite
<1>1. CASE p[t] \in S /\ v \in S
  <2>1. B = A  BY <1>1 DEF In
  <2>2. QED  BY <1>0, <1>1, <2>1 DEF Bit
<1>2. CASE p[t] \in S /\ v \notin S
  <2>1. B = A \ {t} /\ t \in A  BY <1>2 DEF In
  <2>2. Cardinality(B) = Cardinality(A) - 1
    BY <1>0, <2>1, FS_RemoveElement
  <2>3. QED  BY <1>0, <1>2, <2>2 DEF Bit
<1>3. CASE p[t] \notin S /\ v \in S
  <2>1. B = A \cup {t} /\ t \notin A  BY <1>3 DEF In
  <2>2. Cardinality(B) = Cardinality(A) + 1
    BY <1>0, <2>1, FS_AddElement
  <2>3. QED  BY <1>0, <1>3, <2>2 DEF Bit
<1>4. CASE p[t] \notin S /\ v \notin S
  <2>1. B = A  BY <1>4 DEF In
  <2>2. QED  BY <1>0, <1>4, <2>1 DEF Bit
<1>. QED  BY <1>1, <1>2, <1>3, <1>4

LEMMA WakesIn ==
    ASSUME NEW p, NEW q, Wakes(p, q)
    PROVE  In(q, Sleeper) = In(p, Sleeper) /\ In(q, Watcher) = In(p, Watcher)
BY DEF Wakes, In, Sleeper, Watcher

\* CountsExact, in the terms of this module.
LEMMA CountsIn ==
    CountsExact <=> /\ life = "live" => num = Len(list)
                    /\ waiting = Cardinality(In(pc, Sleeper))
                    /\ watching = Cardinality(In(pc, Watcher))
<1>1. Asleep \cup Woken = In(pc, Sleeper)
  BY DEF Asleep, Woken, In, Sleeper
<1>2. Watchers = In(pc, Watcher)
  BY DEF Watchers, In, Watcher
<1>. QED  BY <1>1, <1>2 DEF CountsExact

LEMMA NumExact ==
    CountsExact /\ UNCHANGED <<life, list, num>> => (life' = "live" => num' = Len(list'))
BY DEF CountsExact

\* A step that moves t from pc[t] to v keeps the counters exact if it adjusts
\* them by what t itself enters and leaves.
LEMMA CountsMove ==
    ASSUME TypeOK, CountsExact, NEW t \in Thread, NEW v \in PC, Moves(t, v),
           waiting' = waiting - Bit(pc[t], Sleeper) + Bit(v, Sleeper),
           watching' = watching - Bit(pc[t], Watcher) + Bit(v, Watcher),
           life' = "live" => num' = Len(list')
    PROVE  CountsExact' /\ waiting' \in Nat /\ watching' \in Nat
<1> DEFINE p == [pc EXCEPT ![t] = v]
<1>1. In(pc', Sleeper) = In(p, Sleeper) /\ In(pc', Watcher) = In(p, Watcher)
  BY WakesIn DEF Moves
<1>2. /\ Cardinality(In(p, Sleeper)) = waiting'
      /\ Cardinality(In(p, Watcher)) = watching'
  <2>1. /\ Cardinality(In(p, Sleeper)) = Cardinality(In(pc, Sleeper))
                - Bit(pc[t], Sleeper) + Bit(v, Sleeper)
        /\ Cardinality(In(p, Watcher)) = Cardinality(In(pc, Watcher))
                - Bit(pc[t], Watcher) + Bit(v, Watcher)
    <3>1. pc \in [Thread -> PC]  BY DEF TypeOK
    <3>. HIDE DEF PC, p
    <3>2. \A S : Cardinality(In(p, S)) =
              Cardinality(In(pc, S)) - Bit(pc[t], S) + Bit(v, S)
      BY <3>1, InExcept DEF p
    <3>. QED  BY <3>2
  <2>. QED  BY <2>1, CountsIn
<1>3. CountsExact'
  <2>1. (Asleep \cup Woken)' = In(pc', Sleeper)
    BY DEF Asleep, Woken, In, Sleeper
  <2>2. Watchers' = In(pc', Watcher)
    BY DEF Watchers, In, Watcher
  <2>. QED  BY <1>1, <1>2, <2>1, <2>2 DEF CountsExact
<1>. QED  BY <1>2, <1>3, InFinite

\* The counters are positive while a thread is in the wait they count.
LEMMA Positive ==
    ASSUME TypeOK, CountsExact, NEW t \in Thread
    PROVE  /\ pc[t] \in Sleeper => waiting > 0
           /\ pc[t] \in Watcher => watching > 0
<1>1. ASSUME NEW S, pc[t] \in S PROVE Cardinality(In(pc, S)) > 0
  <2>1. In(pc, S) # {}  BY <1>1 DEF In
  <2>. QED  BY <2>1, InFinite, FS_EmptySet
<1>. QED  BY <1>1, CountsIn

-----------------------------------------------------------------------------
(* The effect of the wakeups. *)

LEMMA BroadcastWakes ==
    ASSUME NEW p \in [Thread -> PC]
    PROVE  /\ Wakes(p, BroadcastWaiting(p))
           /\ Wakes(p, BroadcastWatching(p))
BY DEF BroadcastWaiting, BroadcastWatching, Wakes

\* A call that returns by unlocking and signalling one waiter.
LEMMA ReturnSignalWakes ==
    ASSUME pc \in [Thread -> PC], NEW t \in Thread, pc[t] \in Entry,
           pc' \in SignalWaiting(BroadcastWatching(Returning(t)))
    PROVE  Moves(t, "idle")
<1> DEFINE p == BroadcastWatching(Returning(t))
<1>1. Wakes(Returning(t), p)
  BY BroadcastWakes
<1>2. \A u \in Asleep : p[u] = "asleep"
  BY DEF Asleep, BroadcastWatching
<1>3. CASE pc' = p
  BY <1>1, <1>3 DEF Moves
<1>4. CASE \E s \in Asleep : pc' = [p EXCEPT ![s] = "woken"]
  <2>1. PICK s \in Asleep : pc' = [p EXCEPT ![s] = "woken"]
    BY <1>4
  <2>2. p \in [Thread -> PC] /\ s \in Thread
    BY <1>1 DEF Wakes, Asleep
  <2>3. pc'[s] = "woken" /\ \A u \in Thread \ {s} : pc'[u] = p[u]
    BY <2>1, <2>2
  <2>. QED
    BY <1>1, <1>2, <2>1, <2>2, <2>3 DEF Wakes, Moves
<1>. QED
  BY <1>3, <1>4 DEF SignalWaiting

-----------------------------------------------------------------------------
(* The steps preserve the invariant. *)

\* Calls change no counter.
LEMMA CallsIInv ==
    ASSUME IInv, NEW t \in Thread, Calls(t)
    PROVE  IInv'
<1> USE DEF IInv, TypeOK, Return, MayCall
<1>1. CASE QInit(t)
  <2>1. Moves(t, "idle")  BY <1>1 DEF QInit, Moves, Wakes
  <2>2. waiting = 0 /\ watching = 0
    <3>1. In(pc, Sleeper) = {} /\ In(pc, Watcher) = {}
      BY <1>1 DEF QInit, In, Contract, Sleeper, Watcher
    <3>. QED  BY <3>1, CountsIn, FS_EmptySet
  <2>3. CountsExact'
    BY <1>1, <2>1, <2>2, CountsMove DEF QInit, Bit, Sleeper, Watcher
  <2>4. TypeOK' /\ Contract'
    BY <1>1, <2>1 DEF QInit, Contract
  <2>. QED  BY <2>3, <2>4
<1>2. ASSUME NEW o \in Entry \ {"enq"}, Call(t, o) PROVE IInv'
  <2>1. Moves(t, o)  BY <1>2 DEF Call, Moves, Wakes
  <2>2. CountsExact'
    BY <1>2, <2>1, NumExact, CountsMove DEF Call, Bit, Sleeper, Watcher
  <2>3. TypeOK' /\ Contract'
    BY <1>2 DEF Call, Contract
  <2>. QED  BY <2>2, <2>3
<1>3. ASSUME NEW i \in Item, CallEnque(t, i) PROVE IInv'
  <2>1. Moves(t, "enq")  BY <1>3 DEF CallEnque, Moves, Wakes
  <2>2. CountsExact'
    BY <1>3, <2>1, NumExact, CountsMove DEF CallEnque, Bit, Sleeper, Watcher
  <2>3. TypeOK' /\ Contract'
    BY <1>3 DEF CallEnque, Contract
  <2>. QED  BY <2>2, <2>3
<1>4. CASE CallDeinit(t)
  <2>1. Moves(t, "deinit")  BY <1>4 DEF CallDeinit, Moves, Wakes
  <2>2. CountsExact'
    BY <1>4, <2>1, NumExact, CountsMove DEF CallDeinit, Bit, Sleeper, Watcher
  <2>3. TypeOK' /\ Contract'
    BY <1>4 DEF CallDeinit, Contract
  <2>. QED  BY <2>2, <2>3
<1>. QED
  BY <1>1, <1>2, <1>3, <1>4 DEF Calls

\* The operations other than q_deinit.
LEMMA OperationsIInv ==
    ASSUME IInv, NEW t \in Thread,
           \/ EnqueClosed(t) \/ Enque(t) \/ QNum(t)
           \/ \E o \in {"close", "open"} : SetOpen(t, o)
    PROVE  IInv'
<1> USE DEF IInv, TypeOK, Return
<1>1. CASE EnqueClosed(t)
  <2>1. Moves(t, "idle")  BY <1>1 DEF EnqueClosed, Moves, Wakes
  <2>2. CountsExact'
    BY <1>1, <2>1, NumExact, CountsMove DEF EnqueClosed, Bit, Sleeper, Watcher
  <2>3. TypeOK' /\ Contract'
    BY <1>1 DEF EnqueClosed, Contract
  <2>. QED  BY <2>2, <2>3
<1>2. CASE QNum(t)
  <2>1. Moves(t, "idle")  BY <1>2 DEF QNum, Moves, Wakes
  <2>2. CountsExact'
    BY <1>2, <2>1, NumExact, CountsMove DEF QNum, Bit, Sleeper, Watcher
  <2>3. TypeOK' /\ Contract'
    BY <1>2 DEF QNum, Contract
  <2>. QED  BY <2>2, <2>3
<1>3. CASE Enque(t)
  <2>1. Moves(t, "idle")  BY <1>3, ReturnSignalWakes DEF Enque
  <2>2. life' = "live" => num' = Len(list')
    <3>1. Len(Append(list, item[t])) = Len(list) + 1  BY <1>3 DEF Enque
    <3>. QED  BY <1>3, <3>1 DEF Enque, CountsExact
  <2>3. CountsExact'
    <3>1. Bit(pc[t], Sleeper) = 0 /\ Bit(pc[t], Watcher) = 0
      BY <1>3 DEF Enque, Bit, Sleeper, Watcher
    <3>2. Bit("idle", Sleeper) = 0 /\ Bit("idle", Watcher) = 0
      BY DEF Bit, Sleeper, Watcher
    <3>3. waiting' = waiting - 0 + 0 /\ watching' = watching - 0 + 0
      BY <1>3 DEF Enque
    <3>4. "idle" \in PC
      BY DEF PC
    <3>. QED  BY <2>1, <2>2, <3>1, <3>2, <3>3, <3>4, CountsMove
  <2>4. pc'[t] = "idle" /\ \A u \in Thread : pc'[u] = "enq" => u # t /\ pc[u] = "enq"
    BY <2>1 DEF Moves, Wakes
  <2>5. TypeOK'
    <3>1. item[t] \in Item /\ list' \in Seq(Item) /\ num' \in Nat
      BY <1>3 DEF Enque
    <3>2. item' \in [Thread -> Item \cup {NoItem}]
      BY <1>3 DEF Enque
    <3>3. \A u \in Thread : pc'[u] = "enq" => item'[u] \in Item
      BY <1>3, <2>4 DEF Enque
    <3>. QED  BY <1>3, <2>1, <3>1, <3>2, <3>3 DEF Enque, Moves, Wakes
  <2>6. Contract'
    <3>1. /\ life' = life /\ open' = open /\ pc'[t] = "idle"
          /\ \A u \in Thread \ {t} : \/ pc'[u] = pc[u]
                                     \/ pc[u] = "asleep" /\ pc'[u] = "woken"
                                     \/ pc[u] = "watch" /\ pc'[u] = "watchwoken"
      BY <1>3, <2>1, <2>4 DEF Enque, Moves, Wakes
    <3>2. pc[t] = "enq" /\ open
      BY <1>3 DEF Enque
    <3>. QED  BY <3>1, <3>2 DEF Contract
  <2>. QED  BY <2>3, <2>5, <2>6
<1>4. ASSUME NEW o \in {"close", "open"}, SetOpen(t, o) PROVE IInv'
  <2>1. Moves(t, "idle")  BY <1>4, ReturnSignalWakes DEF SetOpen
  <2>2. CountsExact'
    BY <1>4, <2>1, NumExact, CountsMove DEF SetOpen, Bit, Sleeper, Watcher
  <2>3. pc'[t] = "idle" /\ \A u \in Thread : pc'[u] = "enq" => u # t /\ pc[u] = "enq"
    BY <2>1 DEF Moves, Wakes
  <2>4. TypeOK'
    BY <1>4, <2>1, <2>3 DEF SetOpen, Moves, Wakes
  <2>5. Contract'
    BY <1>4, <2>1 DEF SetOpen, Moves, Wakes, Contract
  <2>. QED  BY <2>2, <2>4, <2>5
<1>. QED
  BY <1>1, <1>2, <1>3, <1>4

\* A thread in q_dequeue or q_deinit finds the queue alive.
LEMMA Inside ==
    ASSUME TypeOK, Contract, NEW t \in Thread,
           pc[t] \in {"deq", "woken", "asleep", "deinit", "watch", "watchwoken"}
    PROVE  life = "live"
BY DEF TypeOK, Contract

\* The contract survives a dequeuer that returns or goes to sleep.
LEMMA ContractDequeue ==
    ASSUME TypeOK, Contract, NEW t \in Thread, NEW v \in {"idle", "asleep"},
           pc[t] \in {"deq", "woken"}, Moves(t, v), UNCHANGED <<life, open>>
    PROVE  Contract'
<1>1. life' = "live"
  BY Inside
<1>2. /\ pc'[t] \in {"idle", "asleep", "woken"}
      /\ \A u \in Thread \ {t} :
            /\ pc'[u] \in DeinitPC => pc[u] \in DeinitPC
            /\ pc'[u] \in {"watch", "watchwoken", "destroy"} =>
                  pc[u] \in {"watch", "watchwoken", "destroy"}
            /\ pc'[u] = "destroy" => pc[u] = "destroy"
            /\ pc[u] \in {"idle", "asleep", "woken"} =>
                  pc'[u] \in {"idle", "asleep", "woken"}
  BY DEF Moves, Wakes, TypeOK
<1>3. \A u \in Thread : pc'[u] \in DeinitPC =>
        \A w \in Thread \ {u} : pc'[w] \in {"idle", "asleep", "woken"}
  BY <1>2 DEF Contract
<1>. QED
  BY <1>1, <1>2, <1>3 DEF Contract

\* q_dequeue.
LEMMA DequeueIInv ==
    ASSUME IInv, NEW t \in Thread,
           DequeueSleep(t) \/ DequeueClosed(t) \/ DequeueTake(t)
    PROVE  IInv'
<1> USE DEF IInv, Return, AtDequeue
<1>0. life = "live" /\ num = Len(list)
  BY Inside DEF DequeueSleep, DequeueClosed, DequeueTake, CountsExact
<1>1. CASE DequeueSleep(t)
  <2>1. Moves(t, "asleep")  BY <1>1 DEF DequeueSleep, Moves, Wakes, TypeOK
  <2>2. waiting' = waiting - Bit(pc[t], Sleeper) + Bit("asleep", Sleeper)
    BY <1>1 DEF DequeueSleep, WaitingBut, Bit, Sleeper, TypeOK
  <2>3. CountsExact' /\ waiting' \in Nat
    BY <1>1, <2>1, <2>2, NumExact, CountsMove DEF DequeueSleep, Bit, Watcher, TypeOK
  <2>4. TypeOK' /\ Contract'
    BY <1>1, <2>3 DEF DequeueSleep, Contract, TypeOK
  <2>. QED  BY <2>3, <2>4
<1>2. CASE DequeueClosed(t)
  <2>1. Moves(t, "idle")
    BY <1>2, BroadcastWakes DEF DequeueClosed, Moves, TypeOK
  <2>2. waiting' = waiting - Bit(pc[t], Sleeper) + Bit("idle", Sleeper)
    BY <1>2 DEF DequeueClosed, WaitingBut, Bit, Sleeper, TypeOK
  <2>3. CountsExact' /\ waiting' \in Nat
    BY <1>2, <2>1, <2>2, NumExact, CountsMove DEF DequeueClosed, Bit, Watcher, TypeOK
  <2>4. pc'[t] = "idle" /\ \A u \in Thread : pc'[u] = "enq" => u # t /\ pc[u] = "enq"
    BY <2>1 DEF Moves, Wakes, TypeOK
  <2>5. TypeOK'
    BY <1>2, <2>1, <2>3, <2>4 DEF DequeueClosed, TypeOK, Moves, Wakes
  <2>6. Contract'
    BY <1>2, <2>1, ContractDequeue DEF DequeueClosed
  <2>. QED  BY <2>3, <2>5, <2>6
<1>3. CASE DequeueTake(t)
  <2>1. Moves(t, "idle")
    BY <1>3, BroadcastWakes DEF DequeueTake, Moves, TypeOK
  <2>2. waiting' = waiting - Bit(pc[t], Sleeper) + Bit("idle", Sleeper)
    BY <1>3 DEF DequeueTake, WaitingBut, Bit, Sleeper, TypeOK
  <2>3. list # <<>> /\ list' \in Seq(Item) /\ num' \in Nat /\ num' = Len(list')
    BY <1>0, <1>3 DEF DequeueTake, TypeOK
  <2>4. CountsExact' /\ waiting' \in Nat
    BY <1>3, <2>1, <2>2, <2>3, CountsMove DEF DequeueTake, Bit, Watcher, TypeOK
  <2>5. pc'[t] = "idle" /\ \A u \in Thread : pc'[u] = "enq" => u # t /\ pc[u] = "enq"
    BY <2>1 DEF Moves, Wakes, TypeOK
  <2>6. TypeOK'
    BY <1>3, <2>1, <2>3, <2>4, <2>5 DEF DequeueTake, TypeOK, Moves, Wakes
  <2>7. Contract'
    BY <1>3, <2>1, ContractDequeue DEF DequeueTake
  <2>. QED  BY <2>4, <2>6, <2>7
<1>. QED  BY <1>1, <1>2, <1>3

LEMMA ItemsInData ==
    ASSUME TypeOK
    PROVE  \A k \in DOMAIN list : list[k].data \in Data
<1>1. \A k \in DOMAIN list : list[k] \in Item
  <2>. HIDE DEF Item
  <2>. QED  BY DEF TypeOK
<1>2. \A i \in Item : i.data \in Data
  OBVIOUS
<1>. QED  BY <1>1, <1>2

\* q_deinit.
LEMMA DeinitIInv ==
    ASSUME IInv, NEW t \in Thread, DeinitEnter(t) \/ DeinitWake(t) \/ DeinitFree(t)
    PROVE  IInv'
<1> USE DEF IInv
<1>1. CASE DeinitEnter(t)
  <2> DEFINE p == BroadcastWatching(BroadcastWaiting(pc))
  <2>1. Wakes(pc, BroadcastWaiting(pc)) /\ Wakes(BroadcastWaiting(pc), p)
    BY BroadcastWakes DEF TypeOK, Wakes
  <2>2. Wakes(pc, p)
    BY <2>1 DEF Wakes
  <2>3. CASE DeinitWait(t, watching, p)
    <3>1. Moves(t, "watch")
      BY <1>1, <2>2, <2>3 DEF DeinitWait, Moves, Wakes, TypeOK
    <3>2. CountsExact' /\ watching' \in Nat
      BY <1>1, <2>3, <3>1, NumExact, CountsMove
         DEF DeinitEnter, DeinitWait, Bit, Sleeper, Watcher, TypeOK
    <3>3. TypeOK'
      BY <1>1, <2>3, <3>1, <3>2 DEF DeinitEnter, DeinitWait, Moves, Wakes, TypeOK
    <3>4. Contract'
      BY <1>1, <2>3, <3>1 DEF DeinitEnter, DeinitWait, Moves, Wakes, TypeOK, Contract
    <3>. QED  BY <3>2, <3>3, <3>4
  <2>4. CASE DeinitFinish(t, watching, p)
    <3>1. Moves(t, "destroy")
      BY <1>1, <2>2, <2>4 DEF DeinitFinish, Moves, Wakes, TypeOK
    <3>2. CountsExact' /\ watching' \in Nat
      BY <1>1, <2>4, <3>1, CountsMove
         DEF DeinitEnter, DeinitFinish, Bit, Sleeper, Watcher, TypeOK
    <3>3. TypeOK'
      <4>1. freed' \subseteq Data
        <5>1. \A k \in DOMAIN list : list[k].data \in Data  BY ItemsInData
        <5>. QED  BY <2>4, <5>1 DEF DeinitFinish, TypeOK
      <4>2. /\ pc' \in [Thread -> PC]
            /\ \A u \in Thread : pc'[u] = "enq" => pc[u] = "enq"
        BY <3>1 DEF Moves, Wakes, TypeOK
      <4>3. open' = FALSE
        BY <1>1 DEF DeinitEnter
      <4>4. /\ list' = <<>> /\ life' = "destroyed"
            /\ UNCHANGED <<num, waiting, item, ret>>
        BY <2>4 DEF DeinitFinish
      <4>5. list' \in Seq(Item) /\ \A u \in Thread : pc'[u] = "enq" => item'[u] \in Item
        BY <4>2, <4>4 DEF TypeOK
      <4>. QED
        BY <3>2, <4>1, <4>2, <4>3, <4>4, <4>5 DEF TypeOK
    <3>4. \A u \in Thread : pc[u] \notin Sleeper
      BY <2>4, Positive DEF DeinitFinish
    <3>5. Contract'
      BY <1>1, <2>4, <3>1, <3>4
         DEF DeinitEnter, DeinitFinish, Moves, Wakes, TypeOK, Contract, Sleeper
    <3>. QED  BY <3>2, <3>3, <3>5
  <2>. QED  BY <1>1, <2>3, <2>4 DEF DeinitEnter
<1>2. CASE DeinitWake(t)
  <2>0. Wakes(pc, pc) /\ watching > 0
    BY <1>2, Positive DEF Wakes, TypeOK, DeinitWake, Watcher
  <2>1. CASE DeinitWait(t, watching - 1, pc)
    <3>1. Moves(t, "watch")
      BY <1>2, <2>0, <2>1 DEF DeinitWait, Moves, Wakes, TypeOK
    <3>2. CountsExact' /\ watching' \in Nat
      BY <1>2, <2>1, <3>1, NumExact, CountsMove
         DEF DeinitWake, DeinitWait, Bit, Sleeper, Watcher, TypeOK
    <3>3. TypeOK'
      BY <1>2, <2>1, <3>1, <3>2 DEF DeinitWake, DeinitWait, Moves, Wakes, TypeOK
    <3>4. Contract'
      BY <1>2, <2>1, <3>1 DEF DeinitWake, DeinitWait, Moves, Wakes, TypeOK, Contract
    <3>. QED  BY <3>2, <3>3, <3>4
  <2>2. CASE DeinitFinish(t, watching - 1, pc)
    <3>1. Moves(t, "destroy")
      BY <1>2, <2>0, <2>2 DEF DeinitFinish, Moves, Wakes, TypeOK
    <3>2. CountsExact' /\ watching' \in Nat
      BY <1>2, <2>2, <3>1, CountsMove
         DEF DeinitWake, DeinitFinish, Bit, Sleeper, Watcher, TypeOK
    <3>3. TypeOK'
      <4>1. freed' \subseteq Data
        <5>1. \A k \in DOMAIN list : list[k].data \in Data  BY ItemsInData
        <5>. QED  BY <2>2, <5>1 DEF DeinitFinish, TypeOK
      <4>. QED
        BY <1>2, <2>2, <3>1, <3>2, <4>1 DEF DeinitWake, DeinitFinish, Moves, Wakes, TypeOK
    <3>4. \A u \in Thread : pc[u] \notin Sleeper
      BY <2>2, Positive DEF DeinitFinish
    <3>5. Contract'
      BY <1>2, <2>2, <3>1, <3>4
         DEF DeinitWake, DeinitFinish, Moves, Wakes, TypeOK, Contract, Sleeper
    <3>. QED  BY <3>2, <3>3, <3>5
  <2>. QED  BY <1>2, <2>1, <2>2 DEF DeinitWake
<1>3. CASE DeinitFree(t)
  <2>1. Moves(t, "idle")  BY <1>3 DEF DeinitFree, Moves, Wakes, TypeOK
  <2>2. CountsExact'
    BY <1>3, <2>1, CountsMove DEF DeinitFree, Bit, Sleeper, Watcher, TypeOK
  <2>3. TypeOK' /\ Contract'
    BY <1>3 DEF DeinitFree, Return, TypeOK, Contract
  <2>. QED  BY <2>2, <2>3
<1>. QED  BY <1>1, <1>2, <1>3

LEMMA SpuriousIInv ==
    ASSUME IInv, NEW t \in Thread, Spurious(t)
    PROVE  IInv'
<1> USE DEF IInv
<1>1. PICK v \in {"woken", "watchwoken"} :
        /\ pc' = [pc EXCEPT ![t] = v]
        /\ pc[t] = IF v = "woken" THEN "asleep" ELSE "watch"
  BY DEF Spurious
<1>2. Moves(t, v)  BY <1>1 DEF Moves, Wakes, TypeOK
<1>3. CountsExact'
  BY <1>1, <1>2, NumExact, CountsMove DEF Spurious, Bit, Sleeper, Watcher, TypeOK
<1>4. TypeOK' /\ Contract'
  BY <1>1 DEF Spurious, TypeOK, Contract
<1>. QED  BY <1>3, <1>4

LEMMA InitIInv == Init => IInv
<1> SUFFICES ASSUME Init PROVE IInv
  OBVIOUS
<1>1. Asleep \cup Woken = {} /\ Watchers = {}
  BY DEF Init, Asleep, Woken, Watchers
<1>2. CountsExact
  BY <1>1, FS_EmptySet DEF Init, CountsExact
<1>3. TypeOK
  <2>1. list \in Seq(Item)  BY DEF Init
  <2>2. item \in [Thread -> Item \cup {NoItem}]  BY DEF Init
  <2>. QED  BY <2>1, <2>2 DEF Init, TypeOK
<1>. QED  BY <1>2, <1>3 DEF Init, IInv, Contract

LEMMA NextIInv == IInv /\ [Next]_vars => IInv'
<1> SUFFICES ASSUME IInv, [Next]_vars PROVE IInv'
  OBVIOUS
<1>1. CASE UNCHANGED vars
  <2>1. TypeOK' /\ Contract'
    BY <1>1 DEF IInv, vars, TypeOK, Contract
  <2>2. CountsExact'
    BY <1>1 DEF IInv, vars, CountsExact, Asleep, Woken, Watchers
  <2>. QED  BY <2>1, <2>2 DEF IInv
<1>2. ASSUME NEW t \in Thread, Step(t) PROVE IInv'
  BY <1>2, OperationsIInv, DequeueIInv, DeinitIInv DEF Step
<1>. QED
  BY <1>1, <1>2, CallsIInv, SpuriousIInv DEF Next

\* The state of the queue keeps its types, its counters are exact, and the
\* callers' contract survives every operation.
THEOREM Invariance == Spec => []IInv
BY InitIInv, NextIInv, PTL DEF Spec

\* The counters q_enque, q_dequeue and q_deinit decide by are exact in every
\* reachable state.
THEOREM CountsAreExact == Spec => [](TypeOK /\ CountsExact)
<1>1. IInv => TypeOK /\ CountsExact  BY DEF IInv
<1>. QED  BY <1>1, Invariance, PTL

\* q_deinit never destroys or frees the queue while another thread is inside
\* an operation.
THEOREM NeverUsedAfterFree == Spec => []NoUseAfterFree
<1>1. IInv => NoUseAfterFree
  BY DEF IInv, TypeOK, Contract, NoUseAfterFree
<1>. QED  BY <1>1, Invariance, PTL

-----------------------------------------------------------------------------
(* No wakeup is lost. *)

\* A step keeps the balance of items and woken dequeuers if it adds no item,
\* puts nobody to sleep and takes nobody's wakeup.
LEMMA BalanceKept ==
    ASSUME TypeOK, NoLostWakeup, num' \in Nat, num' <= num,
           Asleep' \subseteq Asleep, Woken \subseteq Woken'
    PROVE  NoLostWakeup'
<1>0. Woken = In(pc, {"woken"}) /\ Woken' = In(pc', {"woken"})
  BY DEF Woken, In
<1>1. IsFiniteSet(Woken') /\ Cardinality(Woken') \in Nat /\ Cardinality(Woken) \in Nat
  BY <1>0, InFinite
<1>2. Cardinality(Woken) <= Cardinality(Woken')
  BY <1>1, FS_Subset
<1>. QED  BY <1>1, <1>2 DEF NoLostWakeup, TypeOK

\* An item that is enqueued while somebody sleeps wakes a sleeper.
LEMMA BalanceEnque ==
    ASSUME IInv, NoLostWakeup, NEW t \in Thread, Enque(t)
    PROVE  NoLostWakeup'
<1> DEFINE p == BroadcastWatching(Returning(t))
<1>1. pc \in [Thread -> PC] /\ pc[t] = "enq" /\ num \in Nat /\ num' = num + 1
  BY DEF IInv, TypeOK, Enque
<1>2. p \in [Thread -> PC] /\ \A u \in Thread : \A c \in Sleeper : p[u] = c <=> pc[u] = c
  BY <1>1 DEF BroadcastWatching, Sleeper
<1>3. CASE Asleep = {}
  <2>1. pc' = p  BY <1>3 DEF Enque, SignalWaiting
  <2>2. Asleep' = {}  BY <1>2, <1>3, <2>1 DEF Asleep, Sleeper
  <2>. QED  BY <2>2 DEF NoLostWakeup
<1>4. CASE Asleep # {}
  <2>1. waiting > 0
    <3>1. PICK u \in Thread : pc[u] = "asleep"  BY <1>4 DEF Asleep
    <3>. QED  BY <3>1, Positive DEF IInv, Sleeper
  <2>2. PICK s \in Asleep : pc' = [p EXCEPT ![s] = "woken"]
    BY <1>4, <2>1 DEF Enque, SignalWaiting
  <2>3. s \in Thread /\ pc[s] = "asleep"  BY <2>2 DEF Asleep
  <2>. HIDE DEF p
  <2>4. Woken' = Woken \cup {s} /\ s \notin Woken
    BY <1>2, <2>2, <2>3 DEF Woken, Sleeper
  <2>5. IsFiniteSet(Woken) /\ Cardinality(Woken) \in Nat
    <3>1. Woken = In(pc, {"woken"})  BY DEF Woken, In
    <3>. QED  BY <3>1, InFinite
  <2>6. Cardinality(Woken') = Cardinality(Woken) + 1
    BY <2>4, <2>5, FS_AddElement
  <2>7. num <= Cardinality(Woken)
    BY <1>4 DEF NoLostWakeup
  <2>. QED
    BY <1>1, <2>5, <2>6, <2>7 DEF NoLostWakeup
<1>. QED  BY <1>3, <1>4

\* A dequeuer that takes an item uses up at most its own wakeup.
LEMMA BalanceTake ==
    ASSUME IInv, NoLostWakeup, NEW t \in Thread, DequeueTake(t)
    PROVE  NoLostWakeup'
<1>1. pc \in [Thread -> PC] /\ num \in Nat /\ num # 0 /\ num' = num - 1
  BY DEF IInv, TypeOK, DequeueTake
<1>2. \A u \in Thread \ {t} : \A c \in Sleeper : pc'[u] = c <=> pc[u] = c
  BY <1>1 DEF DequeueTake, BroadcastWatching, Sleeper
<1>3. pc'[t] = "idle"
  BY <1>1 DEF DequeueTake, BroadcastWatching
<1>4. Asleep' = Asleep
  BY <1>2, <1>3 DEF Asleep, Sleeper, DequeueTake, AtDequeue
<1>5. Woken' = Woken \ {t}
  BY <1>2, <1>3 DEF Woken, Sleeper
<1>6. IsFiniteSet(Woken) /\ Cardinality(Woken) \in Nat
  <2>1. Woken = In(pc, {"woken"})  BY DEF Woken, In
  <2>. QED  BY <2>1, InFinite
<1>7. Cardinality(Woken') \in Nat /\ Cardinality(Woken') >= Cardinality(Woken) - 1
  <2>1. CASE t \in Woken
    <3>1. Woken' = In(pc', {"woken"})  BY DEF Woken, In
    <3>2. Cardinality(Woken') \in Nat  BY <3>1, InFinite
    <3>3. Cardinality(Woken \ {t}) = Cardinality(Woken) - 1
      BY <1>6, <2>1, FS_RemoveElement
    <3>4. Cardinality(Woken') = Cardinality(Woken) - 1  BY <1>5, <3>3
    <3>. QED  BY <1>6, <3>2, <3>4
  <2>2. CASE t \notin Woken
    <3>1. Woken' = Woken  BY <1>5, <2>2
    <3>. QED  BY <1>6, <3>1
  <2>. QED  BY <2>1, <2>2
<1>. QED  BY <1>1, <1>4, <1>6, <1>7 DEF NoLostWakeup

LEMMA BalanceStep ==
    ASSUME IInv, NoLostWakeup, [Next]_vars
    PROVE  NoLostWakeup'
<1>0. TypeOK /\ TypeOK' /\ num \in Nat /\ num' \in Nat /\ pc \in [Thread -> PC]
  BY NextIInv DEF IInv, TypeOK
<1>1. ASSUME num' = 0 PROVE NoLostWakeup'
  <2>1. Woken' = In(pc', {"woken"})  BY DEF Woken, In
  <2>. QED  BY <1>1, <2>1, InFinite DEF NoLostWakeup
<1>2. CASE UNCHANGED vars
  BY <1>2 DEF vars, NoLostWakeup, Asleep, Woken
<1>3. ASSUME NEW t \in Thread, Calls(t) PROVE NoLostWakeup'
  <2>1. Asleep' \subseteq Asleep /\ Woken \subseteq Woken' /\ num' <= num
    BY <1>0, <1>3 DEF Calls, QInit, Call, CallEnque, CallDeinit, MayCall, Asleep, Woken
  <2>. QED  BY <1>0, <2>1, BalanceKept
<1>4. ASSUME NEW t \in Thread, Spurious(t) PROVE NoLostWakeup'
  <2>1. Asleep' \subseteq Asleep /\ Woken \subseteq Woken' /\ num' <= num
    BY <1>0, <1>4 DEF Spurious, Asleep, Woken
  <2>. QED  BY <1>0, <2>1, BalanceKept
<1>5. ASSUME NEW t \in Thread,
             \/ EnqueClosed(t) \/ QNum(t) \/ DeinitFree(t)
             \/ \E o \in {"close", "open"} : SetOpen(t, o)
             \/ DeinitEnter(t) \/ DeinitWake(t)
      PROVE  NoLostWakeup'
  <2>1. \E v \in {"idle", "watch", "destroy"} : Moves(t, v)
    <3>1. CASE EnqueClosed(t) \/ QNum(t) \/ DeinitFree(t)
      BY <1>0, <3>1 DEF EnqueClosed, QNum, DeinitFree, Moves, Wakes
    <3>2. ASSUME NEW o \in {"close", "open"}, SetOpen(t, o) PROVE Moves(t, "idle")
      BY <1>0, <3>2, ReturnSignalWakes DEF SetOpen
    <3>3. CASE DeinitEnter(t)
      <4> DEFINE p == BroadcastWatching(BroadcastWaiting(pc))
      <4>1. Wakes(pc, BroadcastWaiting(pc)) /\ Wakes(BroadcastWaiting(pc), p)
        BY <1>0, BroadcastWakes DEF Wakes
      <4>2. Wakes(pc, p)
        BY <4>1 DEF Wakes
      <4>. QED
        BY <1>0, <3>3, <4>2 DEF DeinitEnter, DeinitWait, DeinitFinish, Moves, Wakes
    <3>4. CASE DeinitWake(t)
      BY <1>0, <3>4 DEF DeinitWake, DeinitWait, DeinitFinish, Moves, Wakes
    <3>. QED  BY <1>5, <3>1, <3>2, <3>3, <3>4
  <2>2. pc[t] \notin Sleeper /\ num' = num
    BY <1>0, <1>5 DEF EnqueClosed, QNum, DeinitFree, SetOpen, DeinitEnter, DeinitWake,
                      DeinitWait, DeinitFinish, Sleeper
  <2>3. Asleep' \subseteq Asleep /\ Woken \subseteq Woken'
    BY <1>0, <2>1, <2>2 DEF Moves, Wakes, Asleep, Woken, Sleeper
  <2>. QED  BY <1>0, <2>2, <2>3, BalanceKept
<1>6. ASSUME NEW t \in Thread, DequeueSleep(t) \/ DequeueClosed(t) PROVE NoLostWakeup'
  BY <1>1, <1>6 DEF DequeueSleep, DequeueClosed
<1>. QED
  BY <1>2, <1>3, <1>4, <1>5, <1>6, BalanceEnque, BalanceTake DEF Next, Step

\* While a dequeuer sleeps in pthread_cond_wait, every item in the queue has a
\* woken dequeuer that is on its way to it.
THEOREM WakeupsSuffice == Spec => []NoLostWakeup
<1>1. Init => NoLostWakeup
  BY DEF Init, NoLostWakeup, Asleep
<1>2. IInv /\ NoLostWakeup /\ [Next]_vars => NoLostWakeup'
  BY BalanceStep
<1>. QED  BY <1>1, <1>2, Invariance, PTL DEF Spec

-----------------------------------------------------------------------------
(* The queue implements ClosableFifo. *)

Op == [t \in Thread |-> OpOf(pc[t])]

LEMMA OpMoves ==
    ASSUME TypeOK, NEW t \in Thread, NEW v, Moves(t, v)
    PROVE  Op' = [Op EXCEPT ![t] = OpOf(v)]
<1>1. pc \in [Thread -> PC]  BY DEF TypeOK
<1>2. Op'[t] = OpOf(v)
  BY <1>1 DEF Op, OpOf, Moves, Wakes
<1>3. \A u \in Thread \ {t} : Op'[u] = Op[u]
  BY <1>1 DEF Op, OpOf, Moves, Wakes
<1>. QED  BY <1>2, <1>3 DEF Op

\* The abstract variables, and the callers' data, which both modules name.
LEMMA FifoVars ==
    Fifo!vars = <<life # "none", open, list, Op, item, ret, freed>>
BY DEF Fifo!vars, Op

LEMMA RefineInit == Init => Fifo!Init
BY DEF Init, Fifo!Init, Fifo!NoItem, Fifo!None, None, OpOf

LEMMA RefineCalls ==
    ASSUME IInv, NEW t \in Thread, Calls(t)
    PROVE  Fifo!Next
<1> USE DEF IInv, TypeOK, Return, Fifo!Return, Fifo!NoItem, Fifo!None, None, Fifo!Item, MayCall
<1>1. CASE QInit(t)
  <2>1. Moves(t, "idle")  BY <1>1 DEF QInit, Moves, Wakes
  <2>2. Op' = [Op EXCEPT ![t] = "idle"] /\ Op[t] = "idle"
    BY <1>1, <2>1, OpMoves DEF OpOf, Op, QInit
  <2>3. Fifo!Create(t)
    BY <1>1, <2>2 DEF QInit, Fifo!Create, Op
  <2>. QED  BY <2>3 DEF Fifo!Next
<1>2. ASSUME NEW o \in Entry \ {"enq"}, Call(t, o) PROVE Fifo!Next
  <2>1. Moves(t, o)  BY <1>2 DEF Call, Moves, Wakes
  <2>2. Op' = [Op EXCEPT ![t] = o] /\ Op[t] = "idle"
    BY <1>2, <2>1, OpMoves DEF OpOf, Op, Call
  <2>3. Fifo!Invoke(t, o)
    BY <1>2, <2>2 DEF Call, Fifo!Invoke, Op
  <2>. QED  BY <2>3 DEF Fifo!Next
<1>3. ASSUME NEW i \in Item, CallEnque(t, i) PROVE Fifo!Next
  <2>1. Moves(t, "enq")  BY <1>3 DEF CallEnque, Moves, Wakes
  <2>2. Op' = [Op EXCEPT ![t] = "enq"] /\ Op[t] = "idle"
    BY <1>3, <2>1, OpMoves DEF OpOf, Op, CallEnque
  <2>3. Fifo!InvokeEnque(t, i)
    BY <1>3, <2>2 DEF CallEnque, Fifo!InvokeEnque, Op
  <2>. QED  BY <2>3 DEF Fifo!Next
<1>4. CASE CallDeinit(t)
  <2>1. Moves(t, "deinit")  BY <1>4 DEF CallDeinit, Moves, Wakes
  <2>2. Op' = [Op EXCEPT ![t] = "deinit"] /\ Op[t] = "idle"
    BY <1>4, <2>1, OpMoves DEF OpOf, Op, CallDeinit
  <2>3. Fifo!Invoke(t, "deinit")
    BY <1>4, <2>2 DEF CallDeinit, Fifo!Invoke, Op
  <2>. QED  BY <2>3 DEF Fifo!Next
<1>. QED  BY <1>1, <1>2, <1>3, <1>4 DEF Calls

LEMMA RefineOperations ==
    ASSUME IInv, NEW t \in Thread,
           \/ EnqueClosed(t) \/ Enque(t) \/ QNum(t)
           \/ \E o \in {"close", "open"} : SetOpen(t, o)
           \/ DequeueClosed(t) \/ DequeueTake(t) \/ DeinitFree(t)
    PROVE  Fifo!Next
<1> USE DEF Return, Fifo!Return, Fifo!NoItem, Fifo!None, None
<1>0. /\ TypeOK /\ CountsExact /\ Contract /\ pc \in [Thread -> PC]
      /\ open \in BOOLEAN /\ list \in Seq(Item) /\ num \in Nat
  BY DEF IInv, TypeOK
<1>1. ASSUME EnqueClosed(t) \/ Enque(t) PROVE Fifo!Next
  <2>1. Moves(t, "idle")
    BY <1>0, <1>1, ReturnSignalWakes DEF EnqueClosed, Enque, Moves, Wakes
  <2>2. Op' = [Op EXCEPT ![t] = "idle"] /\ Op[t] = "enq"
    BY <1>0, <1>1, <2>1, OpMoves DEF OpOf, Op, EnqueClosed, Enque
  <2>3. Fifo!Enque(t)
    BY <1>0, <1>1, <2>2 DEF EnqueClosed, Enque, Fifo!Enque, Op
  <2>. QED  BY <2>3 DEF Fifo!Next
<1>2. CASE QNum(t)
  <2>1. Moves(t, "idle")  BY <1>0, <1>2 DEF QNum, Moves, Wakes
  <2>2. Op' = [Op EXCEPT ![t] = "idle"] /\ Op[t] = "num"
    BY <1>0, <1>2, <2>1, OpMoves DEF OpOf, Op, QNum
  <2>3. num = Len(list)
    BY <1>0, <1>2 DEF QNum, TypeOK, Contract, CountsExact
  <2>4. Fifo!Num(t)
    BY <1>2, <2>2, <2>3 DEF QNum, Fifo!Num, Op
  <2>. QED  BY <2>4 DEF Fifo!Next
<1>3. ASSUME NEW o \in {"close", "open"}, SetOpen(t, o) PROVE Fifo!Next
  <2>1. Moves(t, "idle")  BY <1>0, <1>3, ReturnSignalWakes DEF SetOpen
  <2>2. Op' = [Op EXCEPT ![t] = "idle"] /\ Op[t] = o
    BY <1>0, <1>3, <2>1, OpMoves DEF OpOf, Op, SetOpen
  <2>3. Fifo!SetOpen(t, o)
    BY <1>3, <2>2 DEF SetOpen, Fifo!SetOpen, Op
  <2>. QED  BY <2>3 DEF Fifo!Next
<1>4. ASSUME DequeueClosed(t) \/ DequeueTake(t) PROVE Fifo!Next
  <2>1. Moves(t, "idle")
    BY <1>0, <1>4, BroadcastWakes DEF DequeueClosed, DequeueTake, Moves
  <2>2. Op' = [Op EXCEPT ![t] = "idle"] /\ Op[t] = "deq"
    BY <1>0, <1>4, <2>1, OpMoves DEF OpOf, Op, DequeueClosed, DequeueTake, AtDequeue
  <2>3. num = Len(list)
    BY <1>0, <1>4, Inside DEF DequeueClosed, DequeueTake, AtDequeue, CountsExact
  <2>4. num = 0 <=> list = <<>>
    BY <1>0, <2>3
  <2>5. Fifo!Dequeue(t)
    BY <1>4, <2>2, <2>4 DEF DequeueClosed, DequeueTake, Fifo!Dequeue, Op
  <2>. QED  BY <2>5 DEF Fifo!Next
<1>5. CASE DeinitFree(t)
  <2>1. Moves(t, "idle")  BY <1>0, <1>5 DEF DeinitFree, Moves, Wakes
  <2>2. Op' = [Op EXCEPT ![t] = "idle"] /\ Op[t] = "destroy"
    BY <1>0, <1>5, <2>1, OpMoves DEF OpOf, Op, DeinitFree
  <2>3. Fifo!DestroyReturn(t)
    BY <1>5, <2>2 DEF DeinitFree, Fifo!DestroyReturn, Op
  <2>. QED  BY <2>3 DEF Fifo!Next
<1>. QED  BY <1>1, <1>2, <1>3, <1>4, <1>5

\* Waiting for the waiters closes the abstract buffer; what follows drops its
\* contents.
LEMMA RefineDeinit ==
    ASSUME IInv, NEW t \in Thread, DeinitEnter(t) \/ DeinitWake(t)
    PROVE  Fifo!Next
<1>0. /\ TypeOK /\ CountsExact /\ Contract /\ pc \in [Thread -> PC] /\ waiting \in Nat
  BY DEF IInv, TypeOK
<1>1. open' = FALSE
  BY <1>0 DEF DeinitEnter, DeinitWake, Contract, TypeOK
<1>2. Op[t] = "deinit" /\ life = "live" /\ pc[t] \in DeinitPC
  BY <1>0, Inside DEF DeinitEnter, DeinitWake, Op, OpOf
<1>3. PICK w, p : /\ DeinitWait(t, w, p) \/ DeinitFinish(t, w, p)
                  /\ Wakes(pc, p)
  <2> DEFINE p == BroadcastWatching(BroadcastWaiting(pc))
  <2>1. Wakes(pc, BroadcastWaiting(pc)) /\ Wakes(BroadcastWaiting(pc), p)
    BY <1>0, BroadcastWakes DEF Wakes
  <2>2. Wakes(pc, p) /\ Wakes(pc, pc)
    BY <1>0, <2>1 DEF Wakes
  <2>. HIDE DEF p
  <2>3. CASE DeinitEnter(t)
    BY <2>2, <2>3 DEF DeinitEnter, p
  <2>4. CASE DeinitWake(t)
    BY <2>2, <2>4 DEF DeinitWake
  <2>. QED  BY <2>3, <2>4
<1>4. CASE DeinitWait(t, w, p)
  <2>1. Moves(t, "watch")
    BY <1>0, <1>3, <1>4 DEF DeinitWait, Moves, Wakes
  <2>2. Op' = Op
    <3>1. Op' = [Op EXCEPT ![t] = "deinit"]
      BY <1>0, <2>1, OpMoves DEF OpOf
    <3>. QED  BY <1>2, <3>1 DEF Op
  <2>3. Fifo!DestroyClose(t)
    BY <1>1, <1>2, <1>4, <2>2 DEF DeinitWait, Fifo!DestroyClose, Op
  <2>. QED  BY <2>3 DEF Fifo!Next
<1>5. CASE DeinitFinish(t, w, p)
  <2>1. Moves(t, "destroy")
    BY <1>0, <1>3, <1>5 DEF DeinitFinish, Moves, Wakes
  <2>2. Op' = [Op EXCEPT ![t] = "destroy"]
    BY <1>0, <2>1, OpMoves DEF OpOf
  <2>3. \A u \in Thread : pc[u] \notin Sleeper
    BY <1>0, <1>5, Positive DEF DeinitFinish
  <2>4. \A u \in Thread \ {t} : Op[u] = "idle"
    BY <1>0, <1>2, <2>3 DEF Contract, Sleeper, Op, OpOf
  <2>5. life' = "destroyed"
    BY <1>5 DEF DeinitFinish
  <2>6. Fifo!DestroyDrop(t)
    BY <1>1, <1>2, <1>5, <2>2, <2>4, <2>5 DEF DeinitFinish, Fifo!DestroyDrop, Op
  <2>. QED  BY <2>6 DEF Fifo!Next
<1>. QED  BY <1>3, <1>4, <1>5

\* Going to sleep and being woken are invisible.
LEMMA RefineStutter ==
    ASSUME IInv, NEW t \in Thread, DequeueSleep(t) \/ Spurious(t)
    PROVE  UNCHANGED Fifo!vars
<1>1. pc \in [Thread -> PC]
  BY DEF IInv, TypeOK
<1>2. Op' = Op
  BY <1>1 DEF DequeueSleep, Spurious, AtDequeue, Op, OpOf
<1>. QED  BY <1>2, FifoVars DEF DequeueSleep, Spurious, Fifo!vars, Op

LEMMA RefineNext == IInv /\ [Next]_vars => [Fifo!Next]_Fifo!vars
<1> SUFFICES ASSUME IInv, [Next]_vars PROVE [Fifo!Next]_Fifo!vars
  OBVIOUS
<1>1. CASE UNCHANGED vars
  BY <1>1 DEF vars, Fifo!vars
<1>2. ASSUME NEW t \in Thread, Step(t) PROVE [Fifo!Next]_Fifo!vars
  BY <1>2, RefineOperations, RefineDeinit, RefineStutter DEF Step
<1>. QED
  BY <1>1, <1>2, RefineCalls, RefineStutter DEF Next

\* Every behaviour of the queue is one of a closable first-in first-out
\* buffer, for any number of threads.
THEOREM Implements == Spec => RefinesFifo
<1>1. Spec => []IInv  BY Invariance
<1>. QED
  BY <1>1, RefineInit, RefineNext, PTL DEF Spec, RefinesFifo, Fifo!Spec
=============================================================================
