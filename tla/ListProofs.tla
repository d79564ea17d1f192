----------------------------- MODULE ListProofs -----------------------------
(***************************************************************************)
(* Proofs about the intrusive list, for any set of items.  The links are   *)
(* described through the ghost sequence, so no step needs an induction     *)
(* along the chain.                                                        *)
(***************************************************************************)
EXTENDS List, TLAPS

\* Without a_list_prepend the tail is always the last item.
TailKept == "prepend" \notin ops /\ seq # <<>> => tail = seq[Len(seq)]

IInv == TypeOK /\ ChainIsSeq /\ TailNeverDangles /\ TailKept /\ NeverCrashes

LEMMA InitIInv == Init => IInv
<1> SUFFICES ASSUME Init PROVE IInv
  OBVIOUS
<1>1. seq \in Seq(Item) /\ Len(seq) = 0
  BY DEF Init
<1>2. TypeOK
  BY <1>1 DEF Init, TypeOK
<1>. QED
  BY <1>1, <1>2 DEF Init, IInv, ChainIsSeq, TailNeverDangles, TailKept, NeverCrashes

LEMMA AppendIInv ==
    ASSUME IInv, NEW i \in Item, AppendItem(i)
    PROVE  IInv'
<1> USE DEF IInv, TypeOK, ChainIsSeq, TailNeverDangles, TailKept, NeverCrashes
<1> DEFINE n == Len(seq)
<1>1. /\ seq' \in Seq(Item) /\ Len(seq') = n + 1 /\ n \in Nat /\ seq'[n + 1] = i
      /\ \A k \in 1..n : seq'[k] = seq[k] /\ seq[k] \in Item /\ seq[k] # i
  BY DEF AppendItem, Members
<1>2. CASE n = 0
  BY <1>1, <1>2, NullAssumption DEF AppendItem
<1>3. CASE n > 0
  <2>1. tail = seq[n]
    BY <1>3 DEF AppendItem
  <2>2. \A k \in 1..n : ptr'[seq[k]] = IF k = n THEN i ELSE ptr[seq[k]]
    BY <1>1, <1>3, <2>1 DEF AppendItem
  <2>3. ChainIsSeq'
    BY <1>1, <1>3, <2>2 DEF AppendItem
  <2>4. TypeOK'
    <3>1. tail \in Item
      BY <1>1, <1>3, <2>1
    <3>2. ptr' \in [Item -> Item \cup {Null}]
      BY <1>3, <3>1 DEF AppendItem
    <3>. QED  BY <1>1, <3>2 DEF AppendItem
  <2>5. TailNeverDangles' /\ TailKept' /\ NeverCrashes'
    BY <1>1, <1>3 DEF AppendItem
  <2>. QED
    BY <2>3, <2>4, <2>5
<1>. QED  BY <1>1, <1>2, <1>3

LEMMA PrependIInv ==
    ASSUME IInv, NEW i \in Item, Prepend(i)
    PROVE  IInv'
<1> USE DEF IInv, TypeOK, ChainIsSeq, TailNeverDangles, TailKept, NeverCrashes
<1> DEFINE n == Len(seq)
<1>1. /\ seq' \in Seq(Item) /\ Len(seq') = n + 1 /\ n \in Nat /\ seq'[1] = i
      /\ \A k \in 1..n : seq'[k + 1] = seq[k] /\ seq[k] \in Item /\ seq[k] # i
  BY DEF Prepend, Members
<1>2. \A k \in 2..(n + 1) : seq'[k] = seq[k - 1] /\ k - 1 \in 1..n
  BY <1>1
<1>3. ChainIsSeq'
  <2>1. head' = seq'[1] /\ seq' # <<>>  BY <1>1 DEF Prepend
  <2>2. \A k \in 1..n : ptr'[seq'[k]] = seq'[k + 1]
    BY <1>1, <1>2 DEF Prepend
  <2>3. \A j, k \in 1..(n + 1) : seq'[j] = seq'[k] => j = k
    BY <1>1, <1>2
  <2>. QED  BY <1>1, <2>1, <2>2, <2>3 DEF Prepend
<1>4. TailNeverDangles'
  <2>1. n > 0 => seq'[n + 1] = seq[n]  BY <1>1
  <2>. QED  BY <1>1, <2>1 DEF Prepend
<1>. QED
  BY <1>1, <1>3, <1>4 DEF Prepend

LEMMA DecapIInv ==
    ASSUME IInv, Decap
    PROVE  IInv'
<1> USE DEF IInv, TypeOK, ChainIsSeq, TailNeverDangles, TailKept, NeverCrashes
<1> DEFINE n == Len(seq)
<1>1. /\ n \in Nat /\ n > 0 /\ seq' \in Seq(Item) /\ Len(seq') = n - 1
      /\ \A k \in 1..(n - 1) : seq'[k] = seq[k + 1]
      /\ \A k \in 1..n : seq[k] \in Item
  BY DEF Decap
<1>2. head' = IF seq' = <<>> THEN Null ELSE seq'[1]
  <2>1. CASE n = 1
    <3>1. Len(seq') = 0 /\ seq' = <<>>  BY <1>1, <2>1
    <3>. QED  BY <2>1, <3>1 DEF Decap
  <2>2. CASE n > 1
    <3>1. ptr[seq[1]] = seq[2] /\ seq'[1] = seq[2] /\ seq' # <<>>
      BY <1>1, <2>2
    <3>. QED  BY <1>1, <2>2, <3>1 DEF Decap
  <2>. QED  BY <1>1, <2>1, <2>2
<1>3. ChainIsSeq'
  BY <1>1, <1>2 DEF Decap
<1>4. TailNeverDangles' /\ TailKept'
  BY <1>1 DEF Decap
<1>. QED
  BY <1>1, <1>2, <1>3, <1>4 DEF Decap

LEMMA NextIInv == IInv /\ [Next]_vars => IInv'
<1> SUFFICES ASSUME IInv, [Next]_vars PROVE IInv'
  OBVIOUS
<1> USE DEF IInv, TypeOK, ChainIsSeq, TailNeverDangles, TailKept, NeverCrashes
<1>1. ASSUME NEW i \in Item, AppendCrash(i) PROVE IInv'
  <2>1. /\ seq' = seq /\ head' = head /\ tail' = tail /\ count' = count
        /\ i \notin Members /\ crashed' = TRUE /\ tail = Null /\ count > 0
        /\ ops' = ops /\ ret' = ret /\ ptr' = [ptr EXCEPT ![i] = Null]
    BY <1>1 DEF AppendCrash
  <2>2. \A k \in 1..Len(seq) : seq[k] \in Item /\ ptr'[seq[k]] = ptr[seq[k]]
    BY <2>1 DEF Members
  <2>3. "prepend" \in ops /\ "append" \in ops
    <3>1. seq # <<>> /\ seq[Len(seq)] # Null
      BY <2>1, <2>2, NullAssumption
    <3>. QED  BY <1>1, <2>1, <3>1 DEF AppendCrash
  <2>. QED
    BY <2>1, <2>2, <2>3
<1>2. CASE DecapEmpty
  BY <1>2 DEF DecapEmpty
<1>3. CASE UNCHANGED vars
  BY <1>3 DEF vars
<1>. QED
  BY <1>1, <1>2, <1>3, AppendIInv, PrependIInv, DecapIInv DEF Next

\* The links, the head, the tail and the count of a list describe one sequence
\* of items, whatever mixture of operations built it.
THEOREM Invariance == Spec => []IInv
BY InitIInv, NextIInv, PTL DEF Spec

\* The chain from the head is the list.
THEOREM ChainCorrect == Spec => [](TypeOK /\ ChainIsSeq)
<1>1. IInv => TypeOK /\ ChainIsSeq  BY DEF IInv
<1>. QED  BY <1>1, Invariance, PTL

\* The tail never points to an item that left the list.
THEOREM TailCorrect == Spec => []TailNeverDangles
<1>1. IInv => TailNeverDangles  BY DEF IInv
<1>. QED  BY <1>1, Invariance, PTL

\* A list that is only a queue or only a stack never dereferences null.
THEOREM Crashless == Spec => []NeverCrashes
<1>1. IInv => NeverCrashes  BY DEF IInv
<1>. QED  BY <1>1, Invariance, PTL

\* a_list_decap returns the first item.
THEOREM DecapReturnsHead == Spec => DecapIsHead
<1>1. IInv /\ [Next]_vars =>
        [(DecapEmpty \/ Decap) => ret' = IF seq = <<>> THEN Null ELSE Head(seq)]_vars
  BY DEF IInv, TypeOK, ChainIsSeq, DecapEmpty, Decap
<1>. QED  BY <1>1, Invariance, PTL DEF Spec, DecapIsHead
=============================================================================
