-------------------------------- MODULE List --------------------------------
(***************************************************************************)
(* The intrusive list of a/list.c: a head, a tail and a count, linked      *)
(* through the items themselves.                                           *)
(*                                                                         *)
(* seq records what the calls mean to the caller: the items in the list,   *)
(* first to last.  No operation reads it.  The caller inserts an item only *)
(* while it is not in the list.                                            *)
(***************************************************************************)
EXTENDS Naturals, Sequences

CONSTANTS
    Item,  \* the items callers may insert
    Null   \* the null pointer

ASSUME NullAssumption == Null \notin Item

VARIABLES
    ops,      \* the operations the callers of this list use: a list may serve
              \* as a queue (append, decap), a stack (prepend, decap) or both
    ptr,      \* ptr[i]: item i's link
    head,
    tail,
    count,
    ret,      \* what the last a_list_decap returned
    crashed,  \* a null pointer was dereferenced
    seq

vars == <<ops, ptr, head, tail, count, ret, crashed, seq>>

Members == {seq[k] : k \in 1..Len(seq)}

\* The links of items that were never inserted are uninitialised.
Init ==
    /\ ops \in SUBSET {"append", "prepend", "decap"}
    /\ ptr \in [Item -> Item \cup {Null}]
    /\ head = Null
    /\ tail = Null
    /\ count = 0
    /\ ret = Null
    /\ crashed = FALSE
    /\ seq = <<>>

\* Fault: the tail moves only when the list was empty.
AppendKeepsTail(i) ==
    /\ "append" \in ops
    /\ ~crashed
    /\ i \notin Members
    /\ count > 0 => tail # Null
    /\ ptr' = IF count > 0 THEN [ptr EXCEPT ![i] = Null, ![tail] = i]
                           ELSE [ptr EXCEPT ![i] = Null]
    /\ head' = IF count > 0 THEN head ELSE i
    /\ tail' = IF count > 0 THEN tail ELSE i
    /\ count' = count + 1
    /\ seq' = Append(seq, i)
    /\ UNCHANGED <<ops, ret, crashed>>

AppendItem(i) ==
    /\ "append" \in ops
    /\ ~crashed
    /\ i \notin Members
    /\ count > 0 => tail # Null
    /\ ptr' = IF count > 0 THEN [ptr EXCEPT ![i] = Null, ![tail] = i]
                           ELSE [ptr EXCEPT ![i] = Null]
    /\ head' = IF count > 0 THEN head ELSE i
    /\ tail' = i
    /\ count' = count + 1
    /\ seq' = Append(seq, i)
    /\ UNCHANGED <<ops, ret, crashed>>

\* list->tail->ptr with a null tail.
AppendCrash(i) ==
    /\ "append" \in ops
    /\ ~crashed
    /\ i \notin Members
    /\ count > 0
    /\ tail = Null
    /\ ptr' = [ptr EXCEPT ![i] = Null]
    /\ crashed' = TRUE
    /\ UNCHANGED <<ops, head, tail, count, ret, seq>>

\* The tail is left alone, also when the list was empty.
Prepend(i) ==
    /\ "prepend" \in ops
    /\ ~crashed
    /\ i \notin Members
    /\ ptr' = [ptr EXCEPT ![i] = head]
    /\ head' = i
    /\ count' = count + 1
    /\ seq' = <<i>> \o seq
    /\ UNCHANGED <<ops, tail, ret, crashed>>

DecapEmpty ==
    /\ "decap" \in ops
    /\ ~crashed
    /\ count = 0
    /\ ret' = Null
    /\ UNCHANGED <<ops, ptr, head, tail, count, crashed, seq>>

\* Fault: only the head is reset when the last item leaves.
DecapKeepsTail ==
    /\ "decap" \in ops
    /\ ~crashed
    /\ count > 0
    /\ ret' = head
    /\ head' = IF count = 1 THEN Null ELSE ptr[head]
    /\ count' = count - 1
    /\ seq' = Tail(seq)
    /\ UNCHANGED <<ops, ptr, tail, crashed>>

\* Fault: the switch is off by one.
DecapOffByOne ==
    /\ "decap" \in ops
    /\ ~crashed
    /\ count > 0
    /\ ret' = head
    /\ head' = IF count = 1 THEN Null ELSE ptr[head]
    /\ tail' = IF count <= 2 THEN Null ELSE tail
    /\ count' = count - 1
    /\ seq' = Tail(seq)
    /\ UNCHANGED <<ops, ptr, crashed>>

Decap ==
    /\ "decap" \in ops
    /\ ~crashed
    /\ count > 0
    /\ ret' = head
    /\ head' = IF count = 1 THEN Null ELSE ptr[head]
    /\ tail' = IF count = 1 THEN Null ELSE tail
    /\ count' = count - 1
    /\ seq' = Tail(seq)
    /\ UNCHANGED <<ops, ptr, crashed>>

Next ==
    \/ \E i \in Item : AppendItem(i) \/ AppendCrash(i) \/ Prepend(i)
    \/ DecapEmpty
    \/ Decap

Spec == Init /\ [][Next]_vars

-----------------------------------------------------------------------------
(* Properties. *)

\* The state has its shape.
TypeOK ==
    /\ ops \subseteq {"append", "prepend", "decap"}
    /\ ptr \in [Item -> Item \cup {Null}]
    /\ head \in Item \cup {Null}
    /\ tail \in Item \cup {Null}
    /\ count \in Nat
    /\ ret \in Item \cup {Null}
    /\ crashed \in BOOLEAN
    /\ seq \in Seq(Item)

\* The chain of count links that starts at the head is the list: nothing is
\* lost from it, left in it or reordered by operations at its two ends.
ChainIsSeq ==
    /\ count = Len(seq)
    /\ head = IF seq = <<>> THEN Null ELSE seq[1]
    /\ \A k \in 1..(Len(seq) - 1) : ptr[seq[k]] = seq[k + 1]
    /\ \A j, k \in 1..Len(seq) : seq[j] = seq[k] => j = k

\* The tail is never an item that has left the list, nor one in its middle,
\* though a_list_prepend does not maintain it: it is the last item, or null
\* when the last item came in by a_list_prepend.
TailNeverDangles ==
    /\ seq = <<>> => tail = Null
    /\ seq # <<>> => tail \in {Null, seq[Len(seq)]}

\* a_list_decap returns the first item in the list, and null only from an
\* empty list.
DecapIsHead ==
    [][(DecapEmpty \/ Decap) =>
        ret' = IF seq = <<>> THEN Null ELSE Head(seq)]_vars

\* A list used as a queue (a_list_enqueue, a_list_dequeue) or as a stack
\* (a_list_push, a_list_pop) never dereferences its null tail.
NeverCrashes == crashed => {"append", "prepend"} \subseteq ops
=============================================================================
