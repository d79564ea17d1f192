-------------------------------- MODULE Pot --------------------------------
(***************************************************************************)
(* The priority queue of a/pot.c: a binary heap in an array that grows by  *)
(* doubling.  One step is one call, or one iteration of the loops of       *)
(* bubble_up and bubble_down.                                              *)
(*                                                                         *)
(* Memory that a_realloc_free returns is uninitialised: it may hold any    *)
(* value of Garbage, slot 0 of the array included, which no code writes    *)
(* before bubble_up reads it.  Allocations may fail.                       *)
(*                                                                         *)
(* contents records what the calls mean to the caller: how often each      *)
(* value was inserted and not removed yet.  No operation reads it.  The    *)
(* caller initialises a pot before it uses it, and a pot that failed to    *)
(* grow is only cleaned up.                                                *)
(***************************************************************************)
EXTENDS Integers, FiniteSets

CONSTANTS
    Value,    \* what callers insert
    Garbage,  \* what uninitialised memory may hold
    Sizes,    \* the initial sizes callers ask for
    Cap       \* bound: callers keep at most this many values in a pot

ASSUME ValueAssumption == Value \subseteq Int /\ Garbage \subseteq Int
ASSUME SizesAssumption == Sizes \subseteq Nat /\ Cap \in Nat

VARIABLES
    pc,       \* "none" before a_pot_init, "idle", "up" and "down" in the
              \* bubbling loops, "failed" after a failed insertion
    num, alloced,
    array,    \* array[k] for the slots 0..alloced, no slot when it is NULL
    pos,      \* the loop variable
    ret,      \* what a_pot_remove_top returned last
    pot,      \* whether a_pot_init or a_pot_insert returned the pot last
    contents

vars == <<pc, num, alloced, array, pos, ret, pot, contents>>

NoArray == [k \in {} |-> 0]
before(a, b) == a < b

Init ==
    /\ pc = "none"
    /\ num = 0
    /\ alloced = 0
    /\ array = NoArray
    /\ pos = 0
    /\ ret = 0
    /\ pot = FALSE
    /\ contents = [v \in Value |-> 0]

-----------------------------------------------------------------------------
(* a_pot_resize of an array a of n slots that holds m values. *)

\* What the doubling starts from.
Start(n) == IF n > 0 THEN n ELSE 1

\* s is the first doubling that is at least size.
Doubled(n, size, s) ==
    \E k \in 0..size :
        /\ s = Start(n) * 2^k
        /\ s >= size
        /\ k > 0 => Start(n) * 2^(k - 1) < size

Bigger(a, n, m, new_size) ==
    LET size == IF new_size < m THEN m ELSE new_size IN
    \E s \in Start(n)..(Start(n) + 2 * size) :
        /\ Doubled(n, size, s)
        /\ \E g \in [(0..s) \ DOMAIN a -> Garbage] :
              array' = [k \in 0..s |-> IF k \in DOMAIN a THEN a[k] ELSE g[k]]
        /\ alloced' = s

\* a_realloc_free frees the array it could not grow.
OutOfMemory == array' = NoArray /\ alloced' = 0

-----------------------------------------------------------------------------
(* The operations. *)

\* The result of the resize is not looked at.
PotInit(size) ==
    /\ pc = "none"
    /\ num' = 0
    /\ Bigger(NoArray, 0, 0, size) \/ OutOfMemory
    /\ pot' = TRUE
    /\ pc' = "idle"
    /\ contents' = [v \in Value |-> 0]
    /\ UNCHANGED <<pos, ret>>

Cleanup ==
    /\ pc \in {"idle", "failed"}
    /\ alloced' = 0
    /\ array' = NoArray
    /\ pc' = "none"
    /\ contents' = [v \in Value |-> 0]
    /\ UNCHANGED <<num, pos, ret, pot>>

InsertFail ==
    /\ pc = "idle"
    /\ num < Cap
    /\ num + 1 >= alloced
    /\ OutOfMemory
    /\ pot' = FALSE
    /\ pc' = "failed"
    /\ contents' = [v \in Value |-> 0]
    /\ UNCHANGED <<num, pos, ret>>

\* The value goes to the slot after the last one, in the array as it is or in
\* a bigger one.
Insert(v) ==
    /\ pc = "idle"
    /\ num < Cap
    /\ num' = num + 1
    /\ \/ /\ num + 1 < alloced
          /\ array' = [array EXCEPT ![num + 1] = v]
          /\ alloced' = alloced
       \/ /\ num + 1 >= alloced
          /\ LET a == [k \in (DOMAIN array) \cup {num + 1} |->
                          IF k = num + 1 THEN v ELSE array[k]]
             IN Bigger(a, alloced, num, num + 1)
    /\ pc' = "up"
    /\ pos' = num + 1
    /\ pot' = TRUE
    /\ contents' = [contents EXCEPT ![v] = @ + 1]
    /\ UNCHANGED ret

Swapped(i, j) == [array EXCEPT ![i] = array[j], ![j] = array[i]]

\* Fault: the comparison is with the left neighbour.
BubbleUpNeighbour ==
    /\ pc = "up"
    /\ IF pos > 0 /\ before(array[pos], array[pos - 1])
       THEN /\ array' = Swapped(pos, pos - 1)
            /\ pos' = pos - 1
            /\ pc' = pc
       ELSE /\ pc' = "idle"
            /\ UNCHANGED <<array, pos>>
    /\ UNCHANGED <<num, alloced, ret, pot, contents>>

\* The loop runs down to position 1, where the parent is slot 0.
BubbleUp ==
    /\ pc = "up"
    /\ IF pos > 0 /\ before(array[pos], array[pos \div 2])
       THEN /\ array' = Swapped(pos, pos \div 2)
            /\ pos' = pos \div 2
            /\ pc' = pc
       ELSE /\ pc' = "idle"
            /\ UNCHANGED <<array, pos>>
    /\ UNCHANGED <<num, alloced, ret, pot, contents>>

RemoveTopEmpty ==
    /\ pc = "idle"
    /\ num = 0
    /\ ret' = 0
    /\ UNCHANGED <<pc, num, alloced, array, pos, pot, contents>>

\* Fault: the last value is not moved to the top before it is cut off.
RemoveTopCuts ==
    /\ pc = "idle"
    /\ num > 0
    /\ ret' = array[1]
    /\ array' = array
    /\ num' = num - 1
    /\ pos' = 1
    /\ pc' = IF num' \div 2 >= 1 THEN "down" ELSE "idle"
    /\ contents' = [contents EXCEPT ![array[1]] = @ - 1]
    /\ UNCHANGED <<alloced, pot>>

RemoveTop ==
    /\ pc = "idle"
    /\ num > 0
    /\ ret' = array[1]
    /\ array' = [array EXCEPT ![1] = array[num]]
    /\ num' = num - 1
    /\ pos' = 1
    /\ pc' = IF num' \div 2 >= 1 THEN "down" ELSE "idle"
    /\ contents' = [contents EXCEPT ![array[1]] = @ - 1]
    /\ UNCHANGED <<alloced, pot>>

\* Fault: the right child is not looked at when it is the last value.
MinChildOffByOne ==
    LET c == 2 * pos IN
    IF c + 1 < num /\ before(array[c + 1], array[c]) THEN c + 1 ELSE c

MinChild ==
    LET c == 2 * pos IN
    IF c + 1 <= num /\ before(array[c + 1], array[c]) THEN c + 1 ELSE c

\* The loop goes down to a leaf, whether it swaps or not.
BubbleDown ==
    /\ pc = "down"
    /\ IF 2 * pos > num
       THEN /\ pc' = "idle"
            /\ UNCHANGED <<array, pos>>
       ELSE /\ array' = IF before(array[MinChild], array[pos])
                        THEN Swapped(MinChild, pos)
                        ELSE array
            /\ pos' = MinChild
            /\ pc' = pc
    /\ UNCHANGED <<num, alloced, ret, pot, contents>>

Next ==
    \/ \E size \in Sizes : PotInit(size)
    \/ Cleanup
    \/ InsertFail
    \/ \E v \in Value : Insert(v)
    \/ BubbleUp
    \/ RemoveTopEmpty
    \/ RemoveTop
    \/ BubbleDown

Spec == Init /\ [][Next]_vars

-----------------------------------------------------------------------------
(* Properties. *)

\* No value of the caller comes before what uninitialised memory holds, which
\* keeps bubble_up from moving anything into slot 0: true of zeroed memory and
\* values that are not negative, as in test/pot.c.
QuietMemory == \A g \in Garbage, v \in Value : g <= v

\* The state has its shape: the array has a slot for every position up to
\* alloced, and the values fit in it.
TypeOK ==
    /\ pc \in {"none", "idle", "up", "down", "failed"}
    /\ num \in Nat
    /\ alloced \in Nat
    /\ array \in [IF alloced = 0 THEN {} ELSE 0..alloced -> Value \cup Garbage]
    /\ pos \in Nat
    /\ ret \in Int
    /\ pot \in BOOLEAN

\* Every slot the loops touch is inside the array.
InBounds ==
    /\ pc \in {"idle", "up", "down"} => num <= alloced
    /\ pc \in {"up", "down"} => pos <= num

\* Between calls no value comes before its parent, through every mixture of
\* insertions, removals and growth of the array.
HeapOrder ==
    pc = "idle" => \A i \in 2..num : ~before(array[i], array[i \div 2])

\* Between calls the slots 1..num hold exactly the values that were inserted
\* and not removed: growth, swaps and removal lose and duplicate nothing, and
\* no uninitialised slot gets in.
ContentsKept ==
    pc = "idle" =>
        \A v \in Value : Cardinality({i \in 1..num : array[i] = v}) = contents[v]

\* a_pot_remove_top returns a value that nothing in the pot comes before.
RemovesFirst ==
    [][RemoveTop => \A v \in Value : contents[v] > 0 => ~before(v, ret')]_vars

\* "pot arrays are numbered from 1 and not 0" (a/pot.c:84): the code keeps its
\* hands off slot 0 of an array it has.
NumberedFromOne ==
    [][alloced > 0 /\ alloced' >= alloced => array'[0] = array[0]]_vars
=============================================================================
