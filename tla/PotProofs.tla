----------------------------- MODULE PotProofs -----------------------------
(***************************************************************************)
(* Proofs about the heap, for any values, sizes and bound, when no value   *)
(* of the callers comes before what uninitialised memory holds: its order, *)
(* its contents, and that the first value is removed first.                *)
(***************************************************************************)
EXTENDS Pot, FiniteSetTheorems, WellFoundedInduction, TLAPS

\* Slot 0 is as it was allocated, the slots in use hold callers' values.
Slots ==
    /\ alloced > 0 => array[0] \in Garbage
    /\ pc \in {"idle", "up", "down"} => \A i \in 1..num : array[i] \in Value

\* The heap order but at the value at pos, which may come before its parent;
\* its children do not come before its parent.
UpOrder ==
    /\ pos \in 1..num
    /\ \A i \in 2..num : i # pos => array[i \div 2] <= array[i]
    /\ \A i \in 2..num : pos >= 2 /\ i \div 2 = pos => array[pos \div 2] <= array[i]

\* The heap order but at the children of pos, which may come before the value
\* at pos but not before its parent.
DownOrder ==
    /\ pos \in 1..num
    /\ \A i \in 2..num : i \div 2 # pos => array[i \div 2] <= array[i]
    /\ \A i \in 2..num : pos >= 2 /\ i \div 2 = pos => array[pos \div 2] <= array[i]

IInv ==
    /\ TypeOK
    /\ InBounds
    /\ Slots
    /\ HeapOrder
    /\ pc = "up" => UpOrder
    /\ pc = "down" => DownOrder

LEMMA HalfBounds ==
    ASSUME NEW i \in Nat, i >= 2
    PROVE  i \div 2 \in Nat /\ i \div 2 >= 1 /\ i \div 2 < i
OBVIOUS

\* What a_pot_resize leaves when it succeeds.
LEMMA BiggerArray ==
    ASSUME NEW a, NEW n \in Nat, NEW m \in Nat, NEW new_size \in Nat,
           Bigger(a, n, m, new_size)
    PROVE  /\ alloced' \in Nat /\ alloced' >= m /\ alloced' >= new_size /\ alloced' >= n
           /\ DOMAIN array' = 0..alloced'
           /\ \A k \in 0..alloced' : IF k \in DOMAIN a THEN array'[k] = a[k]
                                                       ELSE array'[k] \in Garbage
<1> DEFINE size == IF new_size < m THEN m ELSE new_size
<1>1. PICK s \in Start(n)..(Start(n) + 2 * size) :
        /\ Doubled(n, size, s)
        /\ \E g \in [(0..s) \ DOMAIN a -> Garbage] :
              array' = [k \in 0..s |-> IF k \in DOMAIN a THEN a[k] ELSE g[k]]
        /\ alloced' = s
  BY DEF Bigger
<1>2. s >= size /\ s >= n
  BY <1>1 DEF Doubled, Start
<1>. QED  BY <1>1, <1>2 DEF Start

\* The value is in the new last slot, and the others are where they were.
LEMMA InsertEffect ==
    ASSUME IInv, NEW v \in Value, Insert(v), NEW n, n = num + 1
    PROVE  /\ alloced' \in Nat /\ alloced' >= n
           /\ DOMAIN array' = 0..alloced'
           /\ array' = [k \in 0..alloced' |-> array'[k]]
           /\ array'[n] = v
           /\ \A i \in 1..num : array'[i] = array[i]
           /\ array'[0] \in Garbage
           /\ \A k \in 0..alloced' : array'[k] \in Value \cup Garbage
<1>0. /\ num \in Nat /\ alloced \in Nat /\ num <= alloced /\ pc = "idle"
      /\ num' = n /\ pos' = n /\ pc' = "up"
      /\ DOMAIN array = IF alloced = 0 THEN {} ELSE 0..alloced
      /\ array = [k \in DOMAIN array |-> array[k]]
      /\ \A k \in DOMAIN array : array[k] \in Value \cup Garbage
      /\ \A i \in 1..num : array[i] \in Value
      /\ alloced > 0 => array[0] \in Garbage
  BY DEF IInv, TypeOK, InBounds, Slots, Insert
<1>1. QED
  <2>1. CASE n < alloced /\ array' = [array EXCEPT ![n] = v] /\ alloced' = alloced
    <3>1. n \in 0..alloced /\ DOMAIN array = 0..alloced /\ \A i \in 1..num : i \in DOMAIN array /\ i # n
      BY <1>0, <2>1
    <3>2. /\ DOMAIN array' = 0..alloced' /\ array' = [k \in 0..alloced' |-> array'[k]]
          /\ array'[n] = v /\ \A k \in 0..alloced : k # n => array'[k] = array[k]
      BY <2>1, <3>1
    <3>. QED  BY <1>0, <2>1, <3>1, <3>2
  <2>2. CASE n >= alloced /\ Bigger([k \in (DOMAIN array) \cup {n} |->
                                IF k = n THEN v ELSE array[k]], alloced, num, n)
    <3> DEFINE a == [k \in (DOMAIN array) \cup {n} |-> IF k = n THEN v ELSE array[k]]
    <3>1. /\ alloced' \in Nat /\ alloced' >= n /\ alloced' >= alloced
          /\ DOMAIN array' = 0..alloced'
          /\ \A k \in 0..alloced' : IF k \in DOMAIN a THEN array'[k] = a[k]
                                                      ELSE array'[k] \in Garbage
      <4>. HIDE DEF a
      <4>. QED  BY <1>0, <2>2, BiggerArray DEF a
    <3>2. n \in 0..alloced' /\ \A i \in 1..num : i \in 0..alloced'
      BY <1>0, <3>1
    <3>3. \A k \in 0..alloced' : array'[k] =
            IF k = n THEN v ELSE IF k \in DOMAIN array THEN array[k] ELSE array'[k]
      BY <3>1
    <3>4. \A k \in 0..alloced' : k # n /\ k \notin DOMAIN array => array'[k] \in Garbage
      BY <3>1
    <3>5. \A i \in 1..num : i \in DOMAIN array /\ i # n
      BY <1>0
    <3>6. array'[0] \in Garbage
      BY <1>0, <3>1, <3>3, <3>4
    <3>7. \E s : \E g : array' = [k \in 0..s |-> IF k \in DOMAIN a THEN a[k] ELSE g[k]] /\ alloced' = s
      BY <2>2 DEF Bigger
    <3>8. array' = [k \in 0..alloced' |-> array'[k]]
      BY <3>7
    <3>. QED  BY <1>0, <3>1, <3>2, <3>3, <3>4, <3>5, <3>6, <3>8
  <2>. QED  BY <2>1, <2>2 DEF Insert

LEMMA InsertIInv ==
    ASSUME QuietMemory, IInv, NEW v \in Value, Insert(v)
    PROVE  IInv'
<1> DEFINE n == num + 1
<1>0. /\ num \in Nat /\ alloced \in Nat /\ num <= alloced /\ pc = "idle"
      /\ num' = n /\ pos' = n /\ pc' = "up"
      /\ DOMAIN array = IF alloced = 0 THEN {} ELSE 0..alloced
      /\ array = [k \in DOMAIN array |-> array[k]]
      /\ \A k \in DOMAIN array : array[k] \in Value \cup Garbage
      /\ \A i \in 1..num : array[i] \in Value
      /\ alloced > 0 => array[0] \in Garbage
  BY DEF IInv, TypeOK, InBounds, Slots, Insert
<1>1. /\ alloced' \in Nat /\ alloced' >= n
      /\ DOMAIN array' = 0..alloced'
      /\ array' = [k \in 0..alloced' |-> array'[k]]
      /\ array'[n] = v
      /\ \A i \in 1..num : array'[i] = array[i]
      /\ array'[0] \in Garbage
      /\ \A k \in 0..alloced' : array'[k] \in Value \cup Garbage
  BY InsertEffect
<1>2. TypeOK' /\ InBounds' /\ Slots' /\ HeapOrder'
  BY <1>0, <1>1 DEF IInv, TypeOK, InBounds, Slots, HeapOrder, Insert
<1>3. UpOrder'
  <2>1. \A i \in 2..n : i # n => i \in 1..num /\ i \div 2 \in 1..num
    BY <1>0, HalfBounds
  <2>2. \A i \in 2..n : i # n => array[i \div 2] <= array[i]
    <3>1. \A i \in 2..num : ~(array[i] < array[i \div 2])
      BY <1>0 DEF IInv, HeapOrder, before
    <3>2. \A i \in 2..n : i # n => i \in 2..num /\ array[i] \in Int /\ array[i \div 2] \in Int
      BY <1>0, <2>1, ValueAssumption
    <3>. QED  BY <3>1, <3>2
  <2>3. \A i \in 2..n : i \div 2 # n
    BY <1>0, HalfBounds
  <2>. QED  BY <1>0, <1>1, <2>1, <2>2, <2>3 DEF UpOrder
<1>. QED  BY <1>0, <1>2, <1>3 DEF IInv

\* What the invariant says of a pot in use.
LEMMA InUse ==
    ASSUME IInv, pc \in {"idle", "up", "down"}
    PROVE  /\ num \in Nat /\ alloced \in Nat /\ num <= alloced
           /\ num > 0 => DOMAIN array = 0..alloced /\ array[0] \in Garbage
           /\ \A i \in 1..num : array[i] \in Value /\ array[i] \in Int
<1>1. num \in Nat /\ alloced \in Nat /\ num <= alloced
  BY DEF IInv, TypeOK, InBounds
<1>2. num > 0 => DOMAIN array = 0..alloced /\ array[0] \in Garbage
  BY <1>1 DEF IInv, TypeOK, Slots
<1>3. \A i \in 1..num : array[i] \in Value
  BY DEF IInv, Slots
<1>. QED  BY <1>1, <1>2, <1>3, ValueAssumption

LEMMA BubbleUpIInv ==
    ASSUME QuietMemory, IInv, BubbleUp
    PROVE  IInv'
<1>0. /\ pc = "up" /\ num \in Nat /\ alloced \in Nat /\ num <= alloced /\ UpOrder
      /\ num' = num /\ alloced' = alloced /\ ret' = ret /\ pot' = pot
      /\ pos \in 1..num /\ DOMAIN array = 0..alloced /\ array[0] \in Garbage
      /\ \A i \in 1..num : array[i] \in Value /\ array[i] \in Int
  BY InUse DEF IInv, UpOrder, BubbleUp
<1>1. CASE ~(array[pos] < array[pos \div 2])
  <2>1. pc' = "idle" /\ array' = array /\ pos' = pos
    BY <1>0, <1>1 DEF BubbleUp, before
  <2>2. \A i \in 2..num : ~(array[i] < array[i \div 2])
    <3>1. SUFFICES ASSUME NEW i \in 2..num PROVE ~(array[i] < array[i \div 2])
      OBVIOUS
    <3>2. i \div 2 \in 1..num /\ i \in 1..num
      BY <1>0, HalfBounds
    <3>3. CASE i = pos  BY <1>1, <3>3
    <3>4. CASE i # pos  BY <1>0, <3>2, <3>4 DEF UpOrder
    <3>. QED  BY <3>3, <3>4
  <2>. QED
    BY <1>0, <2>1, <2>2 DEF IInv, TypeOK, InBounds, Slots, HeapOrder, before
<1>2. CASE array[pos] < array[pos \div 2]
  <2> DEFINE q == pos \div 2
  <2>1. pos >= 2 /\ q \in 1..num /\ q < pos
    <3>1. CASE pos = 1
      <4>1. pos \div 2 = 0  BY <3>1
      <4>2. array[0] \in Int /\ array[pos] \in Int  BY <1>0, ValueAssumption
      <4>3. array[0] <= array[pos]  BY <1>0 DEF QuietMemory
      <4>. QED  BY <1>2, <4>1, <4>2, <4>3
    <3>. QED  BY <1>0, <3>1, HalfBounds
  <2>2. /\ pc' = "up" /\ pos' = q
        /\ array' = [array EXCEPT ![pos] = array[q], ![q] = array[pos]]
    BY <1>0, <1>2 DEF BubbleUp, Swapped, before
  <2>3. /\ DOMAIN array' = 0..alloced
        /\ array'[pos] = array[q] /\ array'[q] = array[pos]
        /\ \A k \in 0..alloced : k # pos /\ k # q => array'[k] = array[k]
    BY <1>0, <2>1, <2>2
  <2>4. \A i \in 2..num : /\ i \div 2 \in 1..num /\ i \in 1..num
                         /\ i \in 0..alloced /\ i \div 2 \in 0..alloced /\ i \div 2 < i
    BY <1>0, HalfBounds
  <2>. HIDE DEF q
  <2>5. \A i \in 2..num : i # q => array'[i \div 2] <= array'[i]
    <3>1. SUFFICES ASSUME NEW i \in 2..num, i # q PROVE array'[i \div 2] <= array'[i]
      OBVIOUS
    <3>2. CASE i = pos
      BY <1>0, <1>2, <2>1, <2>3, <3>2 DEF q
    <3>3. CASE i # pos /\ i \div 2 = q
      <4>1. array[q] <= array[i]  BY <1>0, <3>3 DEF UpOrder
      <4>. QED  BY <1>0, <1>2, <2>1, <2>3, <2>4, <3>1, <3>3, <4>1 DEF q
    <3>4. CASE i # pos /\ i \div 2 = pos
      <4>1. array[q] <= array[i]  BY <1>0, <2>1, <3>4 DEF UpOrder, q
      <4>. QED  BY <1>0, <2>1, <2>3, <2>4, <3>1, <3>4, <4>1
    <3>5. CASE i # pos /\ i \div 2 # q /\ i \div 2 # pos
      <4>1. array[i \div 2] <= array[i]  BY <1>0, <3>5 DEF UpOrder
      <4>. QED  BY <2>3, <2>4, <3>1, <3>5, <4>1
    <3>. QED  BY <3>2, <3>3, <3>4, <3>5
  <2>6. \A i \in 2..num : q >= 2 /\ i \div 2 = q => array'[q \div 2] <= array'[i]
    <3>1. SUFFICES ASSUME NEW i \in 2..num, q >= 2, i \div 2 = q
                   PROVE  array'[q \div 2] <= array'[i]
      OBVIOUS
    <3>2. q \in 2..num /\ q \div 2 < q /\ q \div 2 \in 1..num /\ q \div 2 \in 0..alloced
      BY <2>1, <2>4, <3>1
    <3>3. array'[q \div 2] = array[q \div 2] /\ array[q \div 2] <= array[q]
      BY <1>0, <2>1, <2>3, <3>2 DEF UpOrder
    <3>4. CASE i = pos
      BY <2>3, <3>3, <3>4
    <3>5. CASE i # pos
      <4>1. array[q] <= array[i]  BY <1>0, <3>1, <3>5 DEF UpOrder
      <4>2. array'[i] = array[i]  BY <2>3, <2>4, <3>1, <3>5
      <4>. QED  BY <1>0, <2>1, <2>4, <3>2, <3>3, <4>1, <4>2
    <3>. QED  BY <3>4, <3>5
  <2>7. UpOrder'
    BY <1>0, <2>1, <2>2, <2>5, <2>6 DEF UpOrder
  <2>8. \A k \in 0..alloced : array'[k] \in Value \cup Garbage
    BY <1>0, <2>1, <2>3 DEF IInv, TypeOK
  <2>9. \A i \in 1..num : array'[i] \in Value
    BY <1>0, <2>1, <2>3
  <2>10. array'[0] = array[0]
    BY <1>0, <2>1, <2>3
  <2>11. array' = [k \in 0..alloced |-> array'[k]]
    BY <1>0, <2>2 DEF IInv, TypeOK
  <2>12. TypeOK'
    BY <1>0, <2>1, <2>2, <2>8, <2>11 DEF IInv, TypeOK
  <2>13. InBounds' /\ HeapOrder'
    BY <1>0, <2>1, <2>2 DEF InBounds, HeapOrder
  <2>14. Slots'
    BY <1>0, <2>2, <2>9, <2>10 DEF Slots
  <2>. QED  BY <2>2, <2>7, <2>12, <2>13, <2>14 DEF IInv
<1>. QED  BY <1>1, <1>2

LEMMA BubbleDownIInv ==
    ASSUME QuietMemory, IInv, BubbleDown
    PROVE  IInv'
<1>0. /\ pc = "down" /\ num \in Nat /\ alloced \in Nat /\ num <= alloced /\ DownOrder
      /\ num' = num /\ alloced' = alloced /\ ret' = ret /\ pot' = pot
      /\ pos \in 1..num /\ DOMAIN array = 0..alloced /\ array[0] \in Garbage
      /\ \A i \in 1..num : array[i] \in Value /\ array[i] \in Int
  BY InUse DEF IInv, DownOrder, BubbleDown
<1>1. CASE 2 * pos > num
  <2>1. pc' = "idle" /\ array' = array /\ pos' = pos
    BY <1>0, <1>1 DEF BubbleDown
  <2>2. \A i \in 2..num : ~(array[i] < array[i \div 2])
    <3>1. SUFFICES ASSUME NEW i \in 2..num PROVE ~(array[i] < array[i \div 2])
      OBVIOUS
    <3>2. i \div 2 \in 1..num /\ i \in 1..num /\ 2 * (i \div 2) <= i
      BY <1>0, HalfBounds
    <3>3. i \div 2 # pos
      BY <1>0, <1>1, <3>2
    <3>4. array[i \div 2] <= array[i]
      BY <1>0, <3>3 DEF DownOrder
    <3>. QED  BY <1>0, <3>2, <3>4
  <2>. QED
    BY <1>0, <2>1, <2>2 DEF IInv, TypeOK, InBounds, Slots, HeapOrder, before
<1>2. CASE 2 * pos <= num
  <2> DEFINE c == MinChild
  <2>1. /\ c \in 2..num /\ c \div 2 = pos /\ c > pos
        /\ \A i \in 2..num : i \div 2 = pos => array[c] <= array[i]
    <3>1. \A i \in 2..num : i \div 2 = pos => i = 2 * pos \/ i = 2 * pos + 1
      BY <1>0
    <3>2. 2 * pos \in 1..num /\ (2 * pos + 1 <= num => 2 * pos + 1 \in 1..num)
      BY <1>0, <1>2
    <3>3. PICK l : l = 2 * pos
      OBVIOUS
    <3>4. c = IF l + 1 <= num /\ array[l + 1] < array[l] THEN l + 1 ELSE l
      BY <3>3 DEF MinChild, before
    <3>5. l \in 2..num /\ l \div 2 = pos /\ (l + 1) \div 2 = pos /\ l > pos
      BY <1>0, <1>2, <3>3
    <3>6. array[l] \in Int /\ (l + 1 <= num => array[l + 1] \in Int)
      BY <1>0, <3>5
    <3>7. c \in 2..num /\ c \div 2 = pos /\ c > pos
      BY <1>0, <3>4, <3>5
    <3>8. ASSUME NEW i \in 2..num, i \div 2 = pos PROVE array[c] <= array[i]
      <4>1. i = l \/ i = l + 1
        BY <3>1, <3>3, <3>8
      <4>. HIDE DEF c
      <4>. QED  BY <1>0, <3>4, <3>5, <3>6, <4>1
    <3>. QED  BY <3>7, <3>8
  <2>2. /\ pc' = "down" /\ pos' = c
        /\ array' = IF array[c] < array[pos] THEN [array EXCEPT ![c] = array[pos], ![pos] = array[c]]
                                             ELSE array
    BY <1>0, <1>2 DEF BubbleDown, Swapped, before
  <2>. HIDE DEF c
  <2>3. /\ DOMAIN array' = 0..alloced
        /\ \A k \in 0..alloced : k # pos /\ k # c => array'[k] = array[k]
        /\ \/ array'[pos] = array[pos] /\ array'[c] = array[c] /\ array[pos] <= array[c]
           \/ array'[pos] = array[c] /\ array'[c] = array[pos] /\ array[c] < array[pos]
    BY <1>0, <2>1, <2>2
  <2>4. \A i \in 2..num : /\ i \div 2 \in 1..num /\ i \in 1..num
                         /\ i \in 0..alloced /\ i \div 2 \in 0..alloced /\ i \div 2 < i
    BY <1>0, HalfBounds
  <2>5. \A i \in 2..num : i \div 2 # c => array'[i \div 2] <= array'[i]
    <3>1. SUFFICES ASSUME NEW i \in 2..num, i \div 2 # c PROVE array'[i \div 2] <= array'[i]
      OBVIOUS
    <3>2. CASE i = pos
      <4>1. i \div 2 # pos /\ array[i \div 2] <= array[i]
        BY <1>0, <2>4, <3>1, <3>2 DEF DownOrder
      <4>2. array[i \div 2] <= array[c]
        BY <1>0, <2>1, <3>1, <3>2 DEF DownOrder
      <4>3. array'[i \div 2] = array[i \div 2]
        BY <2>3, <2>4, <3>1, <4>1
      <4>. QED  BY <2>3, <3>2, <4>1, <4>2, <4>3
    <3>3. CASE i # pos /\ i \div 2 = pos
      <4>1. array[c] <= array[i]  BY <2>1, <3>3
      <4>2. CASE i = c  BY <1>0, <2>1, <2>3, <3>3, <4>2
      <4>3. CASE i # c
        <5>1. array'[i] = array[i]  BY <2>3, <2>4, <3>1, <3>3, <4>3
        <5>. QED  BY <1>0, <2>1, <2>3, <2>4, <3>1, <3>3, <4>1, <5>1
      <4>. QED  BY <4>2, <4>3
    <3>4. CASE i # pos /\ i \div 2 # pos
      <4>1. array[i \div 2] <= array[i]  BY <1>0, <3>4 DEF DownOrder
      <4>2. i # c  BY <2>1, <3>4
      <4>. QED  BY <2>3, <2>4, <3>1, <3>4, <4>1, <4>2
    <3>. QED  BY <3>2, <3>3, <3>4
  <2>6. \A i \in 2..num : i \div 2 = c => array'[c \div 2] <= array'[i]
    <3>1. SUFFICES ASSUME NEW i \in 2..num, i \div 2 = c
                   PROVE  array'[pos] <= array'[i]
      BY <2>1
    <3>2. i # pos /\ i # c /\ i \div 2 # pos
      BY <2>1, <2>4, <3>1
    <3>3. array'[i] = array[i] /\ array[c] <= array[i]
      BY <1>0, <2>3, <2>4, <3>1, <3>2 DEF DownOrder
    <3>. QED  BY <1>0, <2>1, <2>3, <2>4, <3>1, <3>3
  <2>7. DownOrder'
    <3>1. pos' = c /\ num' = num /\ c \in 1..num
      BY <1>0, <2>1, <2>2
    <3>. QED  BY <2>5, <2>6, <3>1 DEF DownOrder
  <2>8. \A k \in 0..alloced : array'[k] \in Value \cup Garbage
    BY <1>0, <2>1, <2>3 DEF IInv, TypeOK
  <2>9. \A i \in 1..num : array'[i] \in Value
    BY <1>0, <2>1, <2>3
  <2>10. array'[0] = array[0]
    BY <1>0, <2>1, <2>3
  <2>11. array' = [k \in 0..alloced |-> array'[k]]
    BY <1>0, <2>2 DEF IInv, TypeOK
  <2>12. TypeOK'
    BY <1>0, <2>1, <2>2, <2>8, <2>11 DEF IInv, TypeOK
  <2>13. InBounds' /\ Slots' /\ HeapOrder'
    BY <1>0, <2>1, <2>2, <2>9, <2>10 DEF InBounds, Slots, HeapOrder
  <2>. QED
    BY <2>2, <2>7, <2>12, <2>13 DEF IInv
<1>. QED  BY <1>0, <1>1, <1>2

LEMMA RemoveTopIInv ==
    ASSUME QuietMemory, IInv, RemoveTop
    PROVE  IInv'
<1>0. /\ pc = "idle" /\ num \in Nat /\ alloced \in Nat /\ num <= alloced /\ num > 0
      /\ num' = num - 1 /\ alloced' = alloced /\ pot' = pot /\ pos' = 1
      /\ ret' = array[1] /\ array' = [array EXCEPT ![1] = array[num]]
      /\ DOMAIN array = 0..alloced /\ array[0] \in Garbage
      /\ \A i \in 1..num : array[i] \in Value /\ array[i] \in Int
      /\ pc' = IF num' \div 2 >= 1 THEN "down" ELSE "idle"
  BY InUse DEF IInv, RemoveTop
<1>1. /\ DOMAIN array' = 0..alloced /\ array'[1] = array[num]
      /\ \A k \in 0..alloced : k # 1 => array'[k] = array[k]
      /\ array' = [k \in 0..alloced |-> array'[k]]
  <2>1. array = [k \in 0..alloced |-> array[k]] /\ 1 \in 0..alloced
    BY <1>0 DEF IInv, TypeOK
  <2>2. array' = [k \in 0..alloced |-> IF k = 1 THEN array[num] ELSE array[k]]
    BY <1>0, <2>1
  <2>. QED  BY <2>1, <2>2
<1>2. \A k \in 0..alloced : array'[k] \in Value \cup Garbage
  BY <1>0, <1>1 DEF IInv, TypeOK
<1>3. \A i \in 1..num : array'[i] \in Value
  BY <1>0, <1>1
<1>4. TypeOK'
  BY <1>0, <1>1, <1>2 DEF IInv, TypeOK
<1>5. InBounds' /\ Slots'
  BY <1>0, <1>1, <1>3 DEF InBounds, Slots
<1>6. CASE num' \div 2 < 1
  <2>1. pc' = "idle" /\ num' <= 1
    BY <1>0, <1>6
  <2>2. HeapOrder'
    BY <1>0, <2>1 DEF HeapOrder
  <2>. QED  BY <1>4, <1>5, <2>1, <2>2 DEF IInv
<1>7. CASE num' \div 2 >= 1
  <2>1. pc' = "down" /\ num' >= 2
    BY <1>0, <1>7
  <2>2. \A i \in 2..num' : i \div 2 # 1 => array'[i \div 2] <= array'[i]
    <3>1. SUFFICES ASSUME NEW i \in 2..num', i \div 2 # 1
                   PROVE  array'[i \div 2] <= array'[i]
      OBVIOUS
    <3>2. /\ i \in 2..num /\ i \div 2 \in 2..num /\ i \in 0..alloced /\ i \div 2 \in 0..alloced
          /\ i \in 1..num /\ i \div 2 \in 1..num
      BY <1>0, <3>1, HalfBounds
    <3>3. ~(array[i] < array[i \div 2])
      BY <1>0, <3>2 DEF IInv, HeapOrder, before
    <3>. QED  BY <1>0, <1>1, <3>2, <3>3
  <2>3. DownOrder'
    BY <1>0, <2>1, <2>2 DEF DownOrder
  <2>4. HeapOrder'
    BY <2>1 DEF HeapOrder
  <2>. QED  BY <1>4, <1>5, <2>1, <2>3, <2>4 DEF IInv
<1>. QED  BY <1>0, <1>6, <1>7

LEMMA OthersIInv ==
    ASSUME QuietMemory, IInv,
           \/ \E size \in Sizes : PotInit(size)
           \/ Cleanup \/ InsertFail \/ RemoveTopEmpty \/ UNCHANGED vars
    PROVE  IInv'
<1>0. NoArray \in [{} -> Value \cup Garbage]
  BY DEF NoArray
<1>1. ASSUME NEW size \in Sizes, PotInit(size) PROVE IInv'
  <2>1. /\ alloced' \in Nat
        /\ array' \in [IF alloced' = 0 THEN {} ELSE 0..alloced' -> Value \cup Garbage]
        /\ alloced' > 0 => array'[0] \in Garbage
    <3>1. CASE Bigger(NoArray, 0, 0, size)
      <4>1. PICK s \in 1..(1 + 2 * size) :
              /\ \E g \in [(0..s) \ DOMAIN NoArray -> Garbage] :
                    array' = [k \in 0..s |-> IF k \in DOMAIN NoArray THEN NoArray[k] ELSE g[k]]
              /\ alloced' = s
        <5>1. size \in Nat /\ (IF size < 0 THEN 0 ELSE size) = size /\ Start(0) = 1
          BY SizesAssumption DEF Start
        <5>. QED  BY <3>1, <5>1 DEF Bigger
      <4>2. \E g \in [0..s -> Garbage] : array' = [k \in 0..s |-> g[k]]
        BY <4>1 DEF NoArray
      <4>. QED  BY <4>1, <4>2, SizesAssumption
    <3>2. CASE OutOfMemory
      BY <3>2 DEF OutOfMemory, NoArray
    <3>. QED  BY <1>1, <3>1, <3>2 DEF PotInit
  <2>. QED
    BY <1>1, <2>1 DEF PotInit, IInv, TypeOK, InBounds, Slots, HeapOrder
<1>2. CASE Cleanup
  <2>1. TypeOK'  BY <1>0, <1>2 DEF Cleanup, IInv, TypeOK
  <2>2. InBounds' /\ Slots' /\ HeapOrder' /\ pc' = "none"
    BY <1>2 DEF Cleanup, InBounds, Slots, HeapOrder
  <2>. QED  BY <2>1, <2>2 DEF IInv
<1>3. CASE InsertFail
  <2>1. TypeOK'  BY <1>0, <1>3 DEF InsertFail, OutOfMemory, IInv, TypeOK
  <2>2. InBounds' /\ Slots' /\ HeapOrder' /\ pc' = "failed"
    BY <1>3 DEF InsertFail, OutOfMemory, InBounds, Slots, HeapOrder
  <2>. QED  BY <2>1, <2>2 DEF IInv
<1>4. CASE RemoveTopEmpty
  BY <1>4 DEF RemoveTopEmpty, IInv, TypeOK, InBounds, Slots, HeapOrder
<1>5. CASE UNCHANGED vars
  BY <1>5 DEF vars, IInv, TypeOK, InBounds, Slots, HeapOrder, UpOrder, DownOrder
<1>. QED  BY <1>1, <1>2, <1>3, <1>4, <1>5

LEMMA NextIInv ==
    ASSUME QuietMemory, IInv, [Next]_vars
    PROVE  IInv'
BY InsertIInv, BubbleUpIInv, RemoveTopIInv, BubbleDownIInv, OthersIInv DEF Next

LEMMA InitIInv == Init => IInv
<1>1. NoArray \in [{} -> Value \cup Garbage]
  BY DEF NoArray
<1>2. Init => TypeOK
  <2>1. SUFFICES ASSUME Init PROVE TypeOK
    OBVIOUS
  <2>2. alloced = 0 /\ array = NoArray
    BY <2>1 DEF Init
  <2>3. array \in [IF alloced = 0 THEN {} ELSE 0..alloced -> Value \cup Garbage]
    BY <1>1, <2>2
  <2>4. /\ pc = "none" /\ num \in Nat /\ alloced \in Nat /\ pos \in Nat
        /\ ret \in Int
    BY <2>1 DEF Init
  <2>5. pot \in BOOLEAN
    BY <2>1, Zenon DEF Init
  <2>. QED  BY <2>3, <2>4, <2>5 DEF TypeOK
<1>3. Init => InBounds /\ Slots /\ HeapOrder /\ pc = "none"
  BY DEF Init, InBounds, Slots, HeapOrder
<1>. QED
  BY <1>2, <1>3 DEF IInv

\* When no value comes before what uninitialised memory holds, the array keeps
\* the heap order between calls, and no loop leaves its slots.
THEOREM HeapCorrect ==
    ASSUME QuietMemory
    PROVE  Spec => [](TypeOK /\ InBounds /\ HeapOrder)
<1>1. IInv /\ [Next]_vars => IInv'
  BY NextIInv
<1>2. IInv => TypeOK /\ InBounds /\ HeapOrder
  BY DEF IInv
<1>. QED  BY <1>1, <1>2, InitIInv, PTL DEF Spec

-----------------------------------------------------------------------------
(* The contents. *)

At(a, n, w) == {i \in 1..n : a[i] = w}

\* How often each value is in the array is what the caller expects.
KInv ==
    /\ contents \in [Value -> Int]
    /\ pc \in {"idle", "up", "down"} => \A w \in Value : Cardinality(At(array, num, w)) = contents[w]

\* Two slots are swapped.
LEMMA SwapCounts ==
    ASSUME NEW n \in Nat, NEW a, NEW b, NEW i \in 1..n, NEW j \in 1..n, i # j, NEW w,
           b[i] = a[j], b[j] = a[i], \A k \in 1..n : k # i /\ k # j => b[k] = a[k]
    PROVE  Cardinality(At(b, n, w)) = Cardinality(At(a, n, w))
<1> DEFINE M == {k \in (1..n) \ {i, j} : a[k] = w}
<1>1. IsFiniteSet(M)
  <2>1. IsFiniteSet(1..n)
    BY FS_Interval
  <2>. QED  BY <2>1, FS_Subset
<1>2. i \notin M /\ j \notin M
  OBVIOUS
<1>3. Cardinality(M \cup {i}) = Cardinality(M) + 1 /\ Cardinality(M \cup {j}) = Cardinality(M) + 1
  <2>. HIDE DEF M
  <2>1. Cardinality(M \cup {i}) = Cardinality(M) + 1
    BY <1>1, <1>2, FS_AddElement
  <2>2. Cardinality(M \cup {j}) = Cardinality(M) + 1
    BY <1>1, <1>2, FS_AddElement
  <2>. QED  BY <2>1, <2>2
<1>4. CASE a[i] = w /\ a[j] = w
  <2>1. At(b, n, w) = At(a, n, w)
    BY <1>4 DEF At
  <2>. QED  BY <2>1
<1>5. CASE a[i] = w /\ a[j] # w
  <2>1. At(a, n, w) = M \cup {i} /\ At(b, n, w) = M \cup {j}
    BY <1>5 DEF At
  <2>. HIDE DEF M
  <2>. QED  BY <2>1, <1>3
<1>6. CASE a[i] # w /\ a[j] = w
  <2>1. At(a, n, w) = M \cup {j} /\ At(b, n, w) = M \cup {i}
    BY <1>6 DEF At
  <2>. HIDE DEF M
  <2>. QED  BY <2>1, <1>3
<1>7. CASE a[i] # w /\ a[j] # w
  <2>1. At(b, n, w) = At(a, n, w)
    BY <1>7 DEF At
  <2>. QED  BY <2>1
<1>. QED  BY <1>4, <1>5, <1>6, <1>7

\* The last value goes to the first slot, and the last slot is cut off.
LEMMA RemoveCounts ==
    ASSUME NEW n \in Nat, n > 0, NEW a, NEW b, NEW w,
           n > 1 => b[1] = a[n], \A k \in 2..(n - 1) : b[k] = a[k]
    PROVE  Cardinality(At(b, n - 1, w)) =
              Cardinality(At(a, n, w)) - IF a[1] = w THEN 1 ELSE 0
<1> DEFINE M == {k \in 2..(n - 1) : a[k] = w}
<1>1. IsFiniteSet(M) /\ 1 \notin M /\ n \notin M
  <2>1. IsFiniteSet(2..(n - 1))
    BY FS_Interval
  <2>2. M \in SUBSET (2..(n - 1))
    OBVIOUS
  <2>3. IsFiniteSet(M)
    <3>. HIDE DEF M
    <3>. QED  BY <2>1, <2>2, FS_Subset
  <2>. QED  BY <2>3
<1>2. Cardinality(M) \in Nat
  <2>. HIDE DEF M
  <2>. QED  BY <1>1, FS_CardinalityType
<1>3. CASE n = 1
  <2>1. At(b, n - 1, w) = {} /\ At(a, n, w) = IF a[1] = w THEN {1} ELSE {}
    BY <1>3 DEF At
  <2>2. Cardinality({1}) = 1 /\ Cardinality({}) = 0
    BY FS_Singleton, FS_EmptySet
  <2>. QED  BY <2>1, <2>2
<1>4. CASE n > 1
  <2>1. At(b, n - 1, w) = IF a[n] = w THEN M \cup {1} ELSE M
    <3>1. 1..(n - 1) = {1} \cup 2..(n - 1)
      BY <1>4
    <3>. QED  BY <1>4, <3>1 DEF At
  <2>2. 1..n = {1} \cup 2..(n - 1) \cup {n}
    BY <1>4
  <2>3. CASE a[1] = w /\ a[n] = w
    <3>1. At(a, n, w) = (M \cup {1}) \cup {n}
      BY <2>2, <2>3 DEF At
    <3>2. n \notin M \cup {1}
      BY <1>1, <1>4
    <3>. HIDE DEF M
    <3>3. IsFiniteSet(M \cup {1}) /\ Cardinality(M \cup {1}) = Cardinality(M) + 1
      BY <1>1, FS_AddElement
    <3>4. Cardinality((M \cup {1}) \cup {n}) = Cardinality(M \cup {1}) + 1
      BY <3>2, <3>3, FS_AddElement
    <3>5. Cardinality(At(b, n - 1, w)) = Cardinality(M) + 1
      BY <2>1, <2>3, <3>3
    <3>6. Cardinality(At(a, n, w)) = Cardinality(M) + 1 + 1
      BY <3>1, <3>3, <3>4
    <3>. QED  BY <1>2, <2>3, <3>5, <3>6
  <2>4. CASE a[1] = w /\ a[n] # w
    <3>1. At(a, n, w) = M \cup {1}
      BY <2>2, <2>4 DEF At
    <3>. HIDE DEF M
    <3>2. Cardinality(M \cup {1}) = Cardinality(M) + 1
      BY <1>1, FS_AddElement
    <3>. QED  BY <1>2, <2>1, <2>4, <3>1, <3>2
  <2>5. CASE a[1] # w /\ a[n] = w
    <3>1. At(a, n, w) = M \cup {n}
      BY <2>2, <2>5 DEF At
    <3>. HIDE DEF M
    <3>2. Cardinality(M \cup {1}) = Cardinality(M) + 1 /\ Cardinality(M \cup {n}) = Cardinality(M) + 1
      BY <1>1, FS_AddElement
    <3>. QED  BY <1>2, <2>1, <2>5, <3>1, <3>2
  <2>6. CASE a[1] # w /\ a[n] # w
    <3>1. At(a, n, w) = M
      BY <2>2, <2>6 DEF At
    <3>2. At(b, n - 1, w) = M
      BY <2>1, <2>6
    <3>. HIDE DEF M
    <3>. QED  BY <1>2, <2>6, <3>1, <3>2
  <2>. QED  BY <2>3, <2>4, <2>5, <2>6
<1>. QED  BY <1>3, <1>4

LEMMA InsertKInv ==
    ASSUME IInv, KInv, NEW v \in Value, Insert(v)
    PROVE  KInv'
<1>1. /\ num \in Nat /\ num' = num + 1 /\ pc = "idle"
      /\ contents' = [contents EXCEPT ![v] = @ + 1]
  BY DEF IInv, TypeOK, Insert
<1>2. PICK n : n = num + 1
  OBVIOUS
<1>3. array'[n] = v /\ \A i \in 1..num : array'[i] = array[i]
  BY <1>2, InsertEffect
<1>4. contents' \in [Value -> Int]
  BY <1>1 DEF KInv
<1>5. ASSUME NEW w \in Value PROVE Cardinality(At(array, num, w)') = contents'[w]
  <2>1. At(array, num, w)' = IF w = v THEN At(array, num, w) \cup {n} ELSE At(array, num, w)
    BY <1>1, <1>2, <1>3 DEF At
  <2>2. n \notin At(array, num, w)
    BY <1>1, <1>2 DEF At
  <2>3. IsFiniteSet(At(array, num, w))
    <3>1. IsFiniteSet(1..num)
      BY <1>1, FS_Interval
    <3>. QED  BY <3>1, FS_Subset DEF At
  <2>4. Cardinality(At(array, num, w) \cup {n}) = Cardinality(At(array, num, w)) + 1
    BY <2>2, <2>3, FS_AddElement
  <2>5. Cardinality(At(array, num, w)) = contents[w]
    BY <1>1 DEF KInv
  <2>6. contents'[w] = IF w = v THEN contents[w] + 1 ELSE contents[w]
    BY <1>1 DEF KInv
  <2>. QED  BY <2>1, <2>4, <2>5, <2>6
<1>6. \A w \in Value : Cardinality(At(array', num', w)) = contents'[w]
  BY <1>5 DEF At
<1>. QED  BY <1>4, <1>6 DEF KInv, At

LEMMA SwapKInv ==
    ASSUME KInv, num \in Nat, pc \in {"up", "down"}, NEW i \in 1..num, NEW j \in 1..num, i # j,
           array'[i] = array[j], array'[j] = array[i],
           \A k \in 1..num : k # i /\ k # j => array'[k] = array[k],
           num' = num, contents' = contents
    PROVE  KInv'
<1>1. ASSUME NEW w \in Value PROVE Cardinality(At(array', num', w)) = contents[w]
  <2>1. PICK a, b : a = array /\ b = array'
    OBVIOUS
  <2>2. /\ b[i] = a[j] /\ b[j] = a[i]
        /\ \A k \in 1..num : k # i /\ k # j => b[k] = a[k]
    BY <2>1
  <2>3. Cardinality(At(b, num, w)) = Cardinality(At(a, num, w))
    <3>1. num \in Nat /\ i \in 1..num /\ j \in 1..num /\ i # j
      OBVIOUS
    <3>. QED  BY ONLY <2>2, <3>1, SwapCounts
  <2>. QED  BY <2>1, <2>3 DEF KInv
<1>. QED  BY <1>1 DEF KInv, At

LEMMA BubbleUpKInv ==
    ASSUME QuietMemory, IInv, KInv, BubbleUp
    PROVE  KInv'
<1>0. /\ pc = "up" /\ num \in Nat /\ num <= alloced /\ num' = num /\ contents' = contents
      /\ pos \in 1..num /\ DOMAIN array = 0..alloced /\ array[0] \in Garbage
      /\ \A i \in 1..num : array[i] \in Value /\ array[i] \in Int
  BY InUse DEF IInv, UpOrder, BubbleUp
<1>1. CASE array' = array
  BY <1>0, <1>1 DEF KInv, At
<1>2. CASE array' # array
  <2>1. array' = Swapped(pos, pos \div 2) /\ array[pos] < array[pos \div 2]
    BY <1>2 DEF BubbleUp, before
  <2>2. pos >= 2
    <3>1. CASE pos = 1
      <4>1. pos \div 2 = 0  BY <3>1
      <4>2. array[0] \in Int /\ array[pos] \in Int  BY <1>0, ValueAssumption
      <4>3. array[0] <= array[pos]  BY <1>0 DEF QuietMemory
      <4>. QED  BY <2>1, <4>1, <4>2, <4>3
    <3>. QED  BY <1>0, <3>1
  <2>3. PICK q : q = pos \div 2
    OBVIOUS
  <2>4. q \in 1..num /\ q # pos
    BY <1>0, <2>2, <2>3, HalfBounds
  <2>5. /\ array'[pos] = array[q] /\ array'[q] = array[pos]
        /\ \A k \in 1..num : k # pos /\ k # q => array'[k] = array[k]
    <3>1. pos \in 0..alloced /\ q \in 0..alloced /\ (\A k \in 1..num : k \in 0..alloced)
      BY <1>0, <2>4 DEF IInv, TypeOK
    <3>2. array' = [array EXCEPT ![pos] = array[q], ![q] = array[pos]]
      BY <2>1, <2>3 DEF Swapped
    <3>. QED  BY <1>0, <2>4, <3>1, <3>2
  <2>. QED  BY <1>0, <2>4, <2>5, SwapKInv
<1>. QED  BY <1>1, <1>2

LEMMA BubbleDownKInv ==
    ASSUME IInv, KInv, BubbleDown
    PROVE  KInv'
<1>0. /\ pc = "down" /\ num \in Nat /\ num <= alloced /\ num' = num /\ contents' = contents
      /\ pos \in 1..num /\ DOMAIN array = 0..alloced
  BY InUse DEF IInv, DownOrder, BubbleDown
<1>1. CASE array' = array
  BY <1>0, <1>1 DEF KInv, At
<1>2. CASE array' # array
  <2>1. PICK q : q = MinChild
    OBVIOUS
  <2>2. array' = Swapped(q, pos) /\ 2 * pos <= num
    BY <1>0, <1>2, <2>1 DEF BubbleDown
  <2>3. q \in 1..num /\ q # pos
    BY <1>0, <2>1, <2>2 DEF MinChild
  <2>4. /\ array'[q] = array[pos] /\ array'[pos] = array[q]
        /\ \A k \in 1..num : k # q /\ k # pos => array'[k] = array[k]
    <3>1. pos \in 0..alloced /\ q \in 0..alloced /\ (\A k \in 1..num : k \in 0..alloced)
      BY <1>0, <2>3 DEF IInv, TypeOK
    <3>2. array' = [array EXCEPT ![q] = array[pos], ![pos] = array[q]]
      BY <2>2 DEF Swapped
    <3>. QED  BY <1>0, <2>3, <3>1, <3>2
  <2>. QED  BY <1>0, <2>3, <2>4, SwapKInv
<1>. QED  BY <1>1, <1>2

LEMMA RemoveTopKInv ==
    ASSUME IInv, KInv, RemoveTop
    PROVE  KInv'
<1>0. /\ pc = "idle" /\ num \in Nat /\ num <= alloced /\ num > 0 /\ num' = num - 1
      /\ array' = [array EXCEPT ![1] = array[num]] /\ DOMAIN array = 0..alloced
      /\ array[1] \in Value /\ contents' = [contents EXCEPT ![array[1]] = @ - 1]
  BY InUse DEF IInv, RemoveTop
<1>1. array'[1] = array[num] /\ \A k \in 2..(num - 1) : array'[k] = array[k]
  <2>1. alloced \in Nat
    BY DEF IInv, TypeOK
  <2>2. 1 \in DOMAIN array /\ (\A k \in 2..(num - 1) : k \in DOMAIN array /\ k # 1)
    BY <1>0, <2>1
  <2>3. array' = [array EXCEPT ![1] = array[num]]
    BY <1>0
  <2>. QED  BY <2>2, <2>3
<1>2. contents' \in [Value -> Int]
  BY <1>0 DEF KInv
<1>3. ASSUME NEW w \in Value PROVE Cardinality(At(array', num', w)) = contents'[w]
  <2>1. PICK a, b : a = array /\ b = array'
    OBVIOUS
  <2>2. Cardinality(At(b, num - 1, w)) = Cardinality(At(a, num, w)) - IF a[1] = w THEN 1 ELSE 0
    <3>1. num \in Nat /\ num > 0
      BY <1>0
    <3>2. (num > 1 => b[1] = a[num]) /\ \A k \in 2..(num - 1) : b[k] = a[k]
      BY <1>1, <2>1
    <3>. HIDE DEF At
    <3>. QED  BY <3>1, <3>2, RemoveCounts
  <2>3. Cardinality(At(array, num, w)) = contents[w]
    BY <1>0 DEF KInv
  <2>4. contents'[w] = contents[w] - IF array[1] = w THEN 1 ELSE 0
    BY <1>0 DEF KInv
  <2>. QED  BY <1>0, <2>1, <2>2, <2>3, <2>4
<1>. QED  BY <1>2, <1>3 DEF KInv, At

LEMMA NextKInv ==
    ASSUME QuietMemory, IInv, KInv, [Next]_vars
    PROVE  KInv'
<1>1. ASSUME NEW size \in Sizes, PotInit(size) PROVE KInv'
  <2>1. num' = 0 /\ contents' = [v \in Value |-> 0]
    BY <1>1 DEF PotInit
  <2>2. \A w \in Value : At(array, num, w)' = {}
    BY <2>1 DEF At
  <2>. QED  BY <2>1, <2>2, FS_EmptySet DEF KInv
<1>2. CASE Cleanup \/ InsertFail
  BY <1>2 DEF Cleanup, InsertFail, KInv
<1>3. CASE RemoveTopEmpty
  BY <1>3 DEF RemoveTopEmpty, KInv, At
<1>4. CASE UNCHANGED vars
  BY <1>4 DEF vars, KInv, At
<1>. QED  BY <1>1, <1>2, <1>3, <1>4, InsertKInv, BubbleUpKInv, BubbleDownKInv, RemoveTopKInv DEF Next

\* Between calls the slots in use hold exactly what was inserted and not removed.
THEOREM ContentsHold ==
    ASSUME QuietMemory
    PROVE  Spec => []ContentsKept
<1>1. Init => KInv
  BY DEF Init, KInv
<1>2. IInv /\ [Next]_vars => IInv'
  BY NextIInv
<1>3. IInv /\ KInv /\ [Next]_vars => KInv'
  BY NextKInv
<1>4. KInv => ContentsKept
  BY DEF KInv, ContentsKept, At
<1>. QED  BY <1>1, <1>2, <1>3, <1>4, InitIInv, PTL DEF Spec

-----------------------------------------------------------------------------
(* The top. *)

\* A set of positions has a first one.
LEMMA FirstOf ==
    ASSUME NEW n \in Nat, NEW S \in SUBSET (1..n), S # {}
    PROVE  \E i \in S : \A j \in S : i <= j
<1> DEFINE D == 1..n
           T == {1..i : i \in S}
<1>1. T \subseteq FiniteSubsetsOf(D) /\ T # {}
  <2>1. \A i \in S : 1..i \in SUBSET D /\ IsFiniteSet(1..i)
    BY FS_Interval
  <2>. QED  BY <2>1 DEF FiniteSubsetsOf
<1>2. IsWellFoundedOn(StrictSubsetOrdering(D), FiniteSubsetsOf(D))
  BY FS_StrictSubsetOrderingWellFounded
<1>3. PICK x \in T : \A y \in T : ~ (<<y, x>> \in StrictSubsetOrdering(D))
  <2> HIDE DEF T
  <2>. QED  BY <1>1, <1>2, WFMin
<1>4. PICK i \in S : x = 1..i
  OBVIOUS
<1>5. ASSUME NEW j \in S, j < i PROVE FALSE
  <2>1. 1..j \in SUBSET D /\ 1..i \in SUBSET D /\ 1..j \subseteq 1..i /\ 1..j # 1..i
    <3>1. i \in 1..i /\ i \notin 1..j
      BY <1>5
    <3>. QED  BY <1>5, <3>1
  <2>2. <<1..j, 1..i>> \in StrictSubsetOrdering(D)
    BY <2>1 DEF StrictSubsetOrdering
  <2>. QED  BY <1>3, <1>4, <2>2
<1>. QED  BY <1>5

\* In heap order nothing comes before the first slot.
LEMMA TopIsFirst ==
    ASSUME IInv, pc = "idle", NEW i \in 1..num
    PROVE  array[1] <= array[i]
<1>1. num \in Nat /\ \A k \in 1..num : array[k] \in Int
  BY InUse
<1> DEFINE S == {k \in 1..num : array[k] < array[1]}
<1>2. S = {}
  <2> SUFFICES ASSUME S # {} PROVE FALSE
    OBVIOUS
  <2>1. PICK m \in S : \A j \in S : m <= j
    <3>1. S \in SUBSET (1..num)
      OBVIOUS
    <3>. HIDE DEF S
    <3>. QED  BY <1>1, <3>1, FirstOf
  <2>2. m \in 2..num /\ m \div 2 \in 1..num /\ m \div 2 < m
    <3>1. m # 1 /\ m \in 1..num
      BY <1>1
    <3>2. m \in 2..num
      BY <1>1, <3>1
    <3>. QED  BY <1>1, <3>2, HalfBounds
  <2>3. ~(array[m] < array[m \div 2])
    BY <2>2 DEF IInv, HeapOrder, before
  <2>4. m \div 2 \in S
    BY <1>1, <2>2, <2>3
  <2>. QED  BY <1>1, <2>1, <2>2, <2>4
<1>. QED  BY <1>1, <1>2

\* a_pot_remove_top returns a value that nothing in the pot comes before.
THEOREM RemovesFirstHolds ==
    ASSUME QuietMemory
    PROVE  Spec => RemovesFirst
<1>1. Init => KInv
  BY DEF Init, KInv
<1>2. IInv /\ [Next]_vars => IInv'
  BY NextIInv
<1>3. IInv /\ KInv /\ [Next]_vars => KInv'
  BY NextKInv
<1>4. IInv /\ KInv => [RemoveTop => \A v \in Value : contents[v] > 0 => ~before(v, ret')]_vars
  <2> SUFFICES ASSUME IInv, KInv, RemoveTop, NEW v \in Value, contents[v] > 0
               PROVE  ~before(v, ret')
    OBVIOUS
  <2>1. ret' = array[1] /\ pc = "idle" /\ num > 0 /\ num \in Nat
    BY DEF RemoveTop, IInv, TypeOK
  <2>2. At(array, num, v) # {}
    <3>1. Cardinality(At(array, num, v)) # 0
      BY <2>1 DEF KInv
    <3>. QED  BY <3>1, FS_EmptySet
  <2>3. PICK i \in 1..num : array[i] = v
    BY <2>2 DEF At
  <2>4. array[1] <= array[i] /\ array[1] \in Int /\ array[i] \in Int
    BY <2>1, TopIsFirst, InUse
  <2>. QED  BY <2>1, <2>3, <2>4 DEF before
<1>. QED  BY <1>1, <1>2, <1>3, <1>4, InitIInv, PTL DEF Spec, RemovesFirst
=============================================================================
