-------------------------------- MODULE Vec --------------------------------
(***************************************************************************)
(* The vector of buffers of a/old/vec.c: a chain of items with a tail      *)
(* pointer and two totals, for a scatter write.  One step is a call.  The  *)
(* vector frees the buffers that are given to it; a batch of them that     *)
(* runs out of memory has given some.                                      *)
(*                                                                         *)
(* added is what the vector took, in order.  mine and known are what the   *)
(* caller believes: the buffers it has to free, and those in the vector.   *)
(***************************************************************************)
EXTENDS Naturals, Sequences, SequencesExt, FiniteSets

CONSTANTS
    Item,   \* the items malloc may return
    Data,   \* the buffers, each named by its size
    NULL

VARIABLES
    assumes,  \* what the caller thinks a failed batch took: "none" or "all",
              \* or it looks: "looks"
    items,    \* items[i]: the item at i, for the allocated items
    head, tail, num, size,
    alive,    \* the buffers that are allocated
    added, mine, known,
    torn      \* a buffer was freed twice

vec == <<assumes, items, head, tail, num, size, alive, added, mine, known, torn>>

Init ==
    /\ assumes \in {"none", "all", "looks"}
    /\ items = [i \in {} |-> NULL]
    /\ head = NULL /\ tail = NULL
    /\ num = 0 /\ size = 0
    /\ alive = Data
    /\ added = <<>>
    /\ mine = Data
    /\ known = {}
    /\ torn = FALSE

\* A buffer to add: owned is free_ptr.
Buffer == [ptr : Data, owned : BOOLEAN]
Ptrs(bs) == {bs[k].ptr : k \in DOMAIN bs}
Gives(bs) == {bs[k].ptr : k \in {n \in DOMAIN bs : bs[n].owned}}

\* The program adds a buffer once, and one that is still there.
Addable(bs) ==
    /\ ~torn
    /\ Ptrs(bs) \subseteq mine \ known
    /\ Cardinality(Ptrs(bs)) = Len(bs)

-----------------------------------------------------------------------------
(* Adding.  State s is the chain: items, head, tail, num and size. *)

State == [items |-> items, head |-> head, tail |-> tail, num |-> num, size |-> size]

\* The new item i of buffer b, with what follows it.
NewItem(s, i, b, next) ==
    [j \in DOMAIN s.items \cup {i} |->
        IF j = i THEN [next |-> next, ptr |-> b.ptr, size |-> b.ptr, owned |-> b.owned]
        ELSE s.items[j]]

\* Fault: the tail of an empty vector stays NULL.
PrependItemTailless(s, i, b) ==
    [s EXCEPT !.items = NewItem(s, i, b, s.head), !.head = i,
              !.num = @ + 1, !.size = @ + b.ptr]

PrependItem(s, i, b) ==
    [s EXCEPT !.items = NewItem(s, i, b, s.head), !.head = i,
              !.tail = IF s.num = 0 THEN i ELSE @,
              !.num = @ + 1, !.size = @ + b.ptr]

AppendItem(s, i, b) ==
    LET added_to == NewItem(s, i, b, NULL) IN
    [s EXCEPT !.items = IF s.num = 0 THEN added_to ELSE [added_to EXCEPT ![s.tail].next = i],
              !.head = IF s.num = 0 THEN i ELSE @,
              !.tail = i,
              !.num = @ + 1, !.size = @ + b.ptr]

\* The state after the buffers of bs, one after the other.  Which items malloc
\* returns is of no consequence.
Fresh(s) == CHOOSE i \in Item : i \notin DOMAIN s.items
Append_(s, b) == AppendItem(s, Fresh(s), b)
Prepend_(b, s) == PrependItem(s, Fresh(s), b)
AppendAll(bs) == FoldLeft(Append_, State, bs)
PrependAll(bs) == FoldRight(Prepend_, bs, State)

Becomes(s) ==
    /\ items' = s.items
    /\ head' = s.head
    /\ tail' = s.tail
    /\ num' = s.num
    /\ size' = s.size

\* What the caller believes after a batch of which the vector took some.
Believes(bs) == mine' = mine \ Gives(bs) /\ known' = known \cup Ptrs(bs)
Mine(bs, took) ==
    Believes(CASE Len(took) = Len(bs) \/ assumes = "looks" -> took
               [] Len(took) < Len(bs) /\ assumes = "none"  -> <<>>
               [] Len(took) < Len(bs) /\ assumes = "all"   -> bs)

\* There are items enough.
Fits(n) == n <= Cardinality(Item \ DOMAIN items)

\* a_vec_append for one buffer, a_vec_append_iovecs for more.  malloc may fail
\* for any of them, which ends the batch.
AppendIovecs(bs) ==
    /\ Addable(bs)
    /\ \E n \in 0..Len(bs) :
        LET took == SubSeq(bs, 1, n) IN
        /\ Fits(n)
        /\ Becomes(AppendAll(took))
        /\ added' = added \o took
        /\ Mine(bs, took)
    /\ UNCHANGED <<assumes, alive, torn>>

\* From the last to the first.
PrependIovecs(bs) ==
    /\ Addable(bs)
    /\ \E n \in 0..Len(bs) :
        LET took == SubSeq(bs, Len(bs) - n + 1, Len(bs)) IN
        /\ Fits(n)
        /\ Becomes(PrependAll(took))
        /\ added' = took \o added
        /\ Mine(bs, took)
    /\ UNCHANGED <<assumes, alive, torn>>

-----------------------------------------------------------------------------
(* Reading and freeing. *)

\* The items from the head on.
Chain ==
    LET from[n \in 0..Cardinality(DOMAIN items)] ==
            IF n = 0 THEN IF head = NULL THEN <<>> ELSE <<head>>
            ELSE LET prev == from[n - 1] IN
                 IF prev = <<>> \/ items[Last(prev)].next = NULL THEN prev
                 ELSE Append(prev, items[Last(prev)].next)
    IN from[Cardinality(DOMAIN items)]

\* What a_vec_to_iovec writes, into an array for num of them, for the caller of
\* a_vec_to_iovec_alloc and for a_vec_writev.
ToIovec == [k \in DOMAIN Chain |-> [ptr |-> items[Chain[k]].ptr, size |-> items[Chain[k]].size]]

\* a_iovec_size.
IovecSize(iovecs) == FoldLeft(LAMBDA n, iov : n + iov.size, 0, iovecs)

\* Fault: the buffers that were not given to the vector are freed as well.
FreeAll ==
    LET ptrs == {items[i].ptr : i \in Range(Chain)} IN
    /\ ~torn
    /\ num > 0
    /\ alive' = alive \ ptrs
    /\ torn' = ~(ptrs \subseteq alive)
    /\ items' = [i \in DOMAIN items \ Range(Chain) |-> items[i]]
    /\ head' = NULL /\ tail' = NULL
    /\ num' = 0 /\ size' = 0
    /\ added' = <<>>
    /\ known' = {}
    /\ UNCHANGED <<assumes, mine>>

\* a_vec_free, which leaves the vector as it was, and a_vec_init.
Free ==
    LET freed == {i \in Range(Chain) : items[i].owned}
        ptrs == {items[i].ptr : i \in freed}
    IN
    /\ ~torn
    /\ num > 0
    /\ alive' = alive \ ptrs
    /\ torn' = (\/ ~(ptrs \subseteq alive)
                \/ Cardinality(ptrs) # Cardinality(freed))
    /\ items' = [i \in DOMAIN items \ Range(Chain) |-> items[i]]
    /\ head' = NULL /\ tail' = NULL
    /\ num' = 0 /\ size' = 0
    /\ added' = <<>>
    /\ known' = {}
    /\ UNCHANGED <<assumes, mine>>

\* The caller frees a buffer that it takes for its own, and that it believes is
\* not in the vector.
FreeMine(d) ==
    /\ ~torn
    /\ d \in mine \ known
    /\ torn' = (d \notin alive)
    /\ alive' = alive \ {d}
    /\ mine' = mine \ {d}
    /\ UNCHANGED <<assumes, items, head, tail, num, size, added, known>>

\* Up to two buffers at a time, all of them given or none.
Batches == {bs \in BoundedSeq(Buffer, 2) : bs # <<>> /\ \A k \in DOMAIN bs : bs[k].owned = bs[1].owned}

Next ==
    \/ \E bs \in Batches : AppendIovecs(bs) \/ PrependIovecs(bs)
    \/ Free
    \/ \E d \in Data : FreeMine(d)

-----------------------------------------------------------------------------
(* Properties. *)

\* The chain is what was added, in order, batches that ran out of memory
\* included; the tail is its end, and the totals, of which the arrays for a
\* write are made, are right.
VecIsAdded ==
    /\ ToIovec = [k \in DOMAIN added |-> [ptr |-> added[k].ptr, size |-> added[k].ptr]]
    /\ tail = IF Chain = <<>> THEN NULL ELSE Last(Chain)
    /\ num = Len(added)
    /\ size = IovecSize(ToIovec)
    /\ DOMAIN items = Range(Chain)

\* A caller that finds out how much of a failed batch the vector took frees no
\* buffer twice and forgets none.  A caller that takes a failed batch for not
\* added may free twice, and one that takes it for added may forget.
BuffersOwned ==
    /\ torn => assumes = "none"
    /\ ~torn /\ assumes = "looks" =>
          alive = mine \cup Gives(added)
=============================================================================
