-------------------------------- MODULE Hash --------------------------------
(***************************************************************************)
(* The hash table of a/hash.c: 2^bits chains of items, doubled while it is *)
(* filled.                                                                 *)
(*                                                                         *)
(* A chain is a set: the code searches it for a key, puts an item before   *)
(* it and takes an item out.  A hash value is the set of its one bits.     *)
(* One step is a call, except for a_hash_put: extend moves one item in a   *)
(* step.  Every allocation may fail.                                       *)
(*                                                                         *)
(* With frees, the table was given key_free and val_free, and it owns the  *)
(* keys and values put into it; without, both are NULL.  client and live   *)
(* record whose pointers are whose.  The callers put pointers they own,    *)
(* and neither get nor remove from a table that has no chains yet.         *)
(***************************************************************************)
EXTENDS Integers, FiniteSets

CONSTANTS
    Key,     \* the keys, as equal_func tells them apart
    Ptr,     \* the pointers to keys that callers use
    KeyOf,   \* KeyOf[p]: the key p points to
    HashOf,  \* HashOf[k]: the one bits of hash_func of key k
    Val,     \* the values, never NULL
    NULL,
    Cap      \* bound: callers put at most this often between two cleans

ASSUME KeyAssumption == KeyOf \in [Ptr -> Key] /\ HashOf \in [Key -> SUBSET Nat]
ASSUME NullAssumption == NULL \notin Val /\ NULL \notin Ptr /\ Ptr \cap Val = {}
ASSUME CapAssumption == Cap \in Nat

VARIABLES
    frees,
    pc,      \* "idle", or where a_hash_put is: "rehash" in extend, "add"
    table,   \* table[b]: the items of chain b; no chain while it is NULL
    bits,
    count,
    rest,    \* the items of the old table that extend has not moved yet
    arg,     \* the key and the value a_hash_put was called with
    done,    \* the last call that returned, its arguments and its result
    live,    \* the pointers that are allocated
    client,  \* those of them that are the callers'
    fault    \* a pointer was freed that was not allocated

vars == <<frees, pc, table, bits, count, rest, arg, done, live, client, fault>>

Item == [key : Ptr, hash : SUBSET Nat, val : Val]

Chained == UNION {table[b] : b \in DOMAIN table}
Items == Chained \cup rest

\* The xor of the groups of n bits of h: a bit is one if it is one in an odd
\* number of groups.
hash_reduce(h, n) == {i \in 0..(n - 1) : Cardinality({j \in h : j % n = i}) % 2 = 1}

Chains(n) == SUBSET (0..(n - 1))
NoTable == [b \in {} |-> {}]

Init ==
    /\ frees \in BOOLEAN
    /\ pc = "idle"
    /\ table = NoTable
    /\ bits = 0
    /\ count = 0
    /\ rest = {}
    /\ arg = <<>>
    /\ done = <<"init">>
    /\ live = {}
    /\ client = {}
    /\ fault = FALSE

-----------------------------------------------------------------------------
(* Freeing, searching and adding. *)

\* key_free and val_free of the pointers in S; free(NULL) does nothing.
Free(S) ==
    /\ fault' = (fault \/ (frees /\ ~(S \subseteq live \cup {NULL})))
    /\ live' = IF frees THEN live \ S ELSE live

\* item_list_find and item_list_remove: the items of chain b with hash h and
\* key k.
Found(b, h, k) == {i \in table[b] : i.hash = h /\ KeyOf[i.key] = k}

\* Faults: no search for a duplicate; the values are not swapped; the old key is
\* freed in place of the new one.
AddItemBlind(item) ==
    /\ table' = [table EXCEPT ![hash_reduce(item.hash, bits)] = @ \cup {item}]
    /\ UNCHANGED <<live, fault>>
AddItemKeepsVal(item) ==
    LET b == hash_reduce(item.hash, bits)
    IN IF Found(b, item.hash, KeyOf[item.key]) = {}
       THEN AddItemBlind(item)
       ELSE Free({item.key, item.val}) /\ UNCHANGED table
AddItemFreesOldKey(item) ==
    LET b == hash_reduce(item.hash, bits)
        dups == Found(b, item.hash, KeyOf[item.key])
    IN IF dups = {}
       THEN AddItemBlind(item)
       ELSE \E dup \in dups :
            /\ table' = [table EXCEPT
                  ![b] = (@ \ {dup}) \cup {[dup EXCEPT !.val = item.val]}]
            /\ Free({dup.key, dup.val})

\* add_item: an item with an equal key gets the new value, and the new key and
\* the old value are freed.
AddItem(item) ==
    LET b == hash_reduce(item.hash, bits)
        dups == Found(b, item.hash, KeyOf[item.key])
    IN IF dups = {}
       THEN /\ table' = [table EXCEPT ![b] = @ \cup {item}]
            /\ UNCHANGED <<live, fault>>
       ELSE \E dup \in dups :
            /\ table' = [table EXCEPT
                  ![b] = (@ \ {dup}) \cup {[dup EXCEPT !.val = item.val]}]
            /\ Free({item.key, dup.val})

-----------------------------------------------------------------------------
(* a_hash_put. *)

\* Fault: the table is extended one item too late.
MustExtendLate == count = 0 \/ 2^bits < count
MustExtend == count = 0 \/ 2^bits < count + 1
Extended == IF count > 0 THEN bits + 1 ELSE bits

\* The callers' pointers: not the table's, if it frees what it holds.
MayPut(k, v) ==
    /\ pc = "idle"
    /\ count < Cap
    /\ frees => k \notin live \ client /\ v \notin live \ client

Call(k, v) ==
    /\ MayPut(k, v)
    /\ arg' = <<k, v>>
    /\ client' = IF frees THEN client \cup {k, v} ELSE client
    /\ live' = IF frees THEN live \cup {k, v} ELSE live
    /\ UNCHANGED <<frees, fault>>

PutPlain(k, v) ==
    /\ Call(k, v)
    /\ ~MustExtend
    /\ pc' = "add"
    /\ UNCHANGED <<table, bits, count, rest, done>>

\* Fault: the chains are copied to the bigger table and not rehashed.
PutExtendCopies(k, v) ==
    /\ Call(k, v)
    /\ MustExtend
    /\ bits' = Extended
    /\ table' = [b \in Chains(bits') |-> IF b \in DOMAIN table THEN table[b] ELSE {}]
    /\ rest' = {}
    /\ pc' = "rehash"
    /\ UNCHANGED <<count, done>>

PutExtend(k, v) ==
    /\ Call(k, v)
    /\ MustExtend
    /\ bits' = Extended
    /\ table' = [b \in Chains(bits') |-> {}]
    /\ rest' = Chained
    /\ pc' = "rehash"
    /\ UNCHANGED <<count, done>>

\* The old table is kept.
PutExtendFail(k, v) ==
    /\ Call(k, v)
    /\ MustExtend
    /\ bits' = IF Extended > 0 THEN Extended - 1 ELSE 0
    /\ done' = <<"failed put">>
    /\ UNCHANGED <<pc, table, count, rest>>

Rehash ==
    /\ pc = "rehash"
    /\ \E item \in rest :
        /\ AddItem(item)
        /\ rest' = rest \ {item}
    /\ UNCHANGED <<frees, pc, bits, count, arg, done, client>>

RehashDone ==
    /\ pc = "rehash"
    /\ rest = {}
    /\ pc' = "add"
    /\ UNCHANGED <<frees, table, bits, count, rest, arg, done, live, client, fault>>

Add ==
    /\ pc = "add"
    /\ AddItem([key |-> arg[1], hash |-> HashOf[KeyOf[arg[1]]], val |-> arg[2]])
    /\ count' = count + 1
    /\ client' = IF frees THEN client \ {arg[1], arg[2]} ELSE client
    /\ done' = <<"put", KeyOf[arg[1]], arg[2]>>
    /\ pc' = "idle"
    /\ arg' = <<>>
    /\ UNCHANGED <<frees, bits, rest>>

\* item_new fails: the key and the value stay the callers'.
AddFail ==
    /\ pc = "add"
    /\ done' = <<"failed put">>
    /\ pc' = "idle"
    /\ arg' = <<>>
    /\ UNCHANGED <<frees, table, bits, count, rest, live, client, fault>>

-----------------------------------------------------------------------------
(* The other operations. *)

FoundFor(k) == Found(hash_reduce(HashOf[k], bits), HashOf[k], k)
Ready == pc = "idle" /\ table # NoTable

Get(k) ==
    /\ Ready
    /\ done' = <<"get", k, IF FoundFor(k) = {}
                          THEN NULL
                          ELSE (CHOOSE i \in FoundFor(k) : TRUE).val>>
    /\ UNCHANGED <<frees, pc, table, bits, count, rest, arg, live, client, fault>>

Unlinked(k, i) == [table EXCEPT ![hash_reduce(HashOf[k], bits)] = @ \ {i}]

\* The key is freed, the value goes to the caller.  The count stays.
Remove(k) ==
    /\ Ready
    /\ \/ /\ FoundFor(k) = {}
          /\ done' = <<"remove", k, NULL>>
          /\ UNCHANGED <<table, live, client, fault>>
       \/ \E i \in FoundFor(k) :
          /\ table' = Unlinked(k, i)
          /\ done' = <<"remove", k, i.val>>
          /\ Free({i.key, NULL})
          /\ client' = IF frees THEN client \cup {i.val} ELSE client
    /\ UNCHANGED <<frees, pc, bits, count, rest, arg>>

\* a_hash_remove, and val_free of what it returned.
Delete(k) ==
    /\ Ready
    /\ done' = <<"delete", k>>
    /\ \/ /\ FoundFor(k) = {}
          /\ Free({NULL})
          /\ UNCHANGED table
       \/ \E i \in FoundFor(k) :
          /\ table' = Unlinked(k, i)
          /\ Free({i.key, NULL, i.val})
    /\ UNCHANGED <<frees, pc, bits, count, rest, arg, client>>

Clean ==
    /\ pc = "idle"
    /\ Free({i.key : i \in Chained} \cup {i.val : i \in Chained})
    /\ table' = NoTable
    /\ bits' = 0
    /\ count' = 0
    /\ done' = <<"clean">>
    /\ UNCHANGED <<frees, pc, rest, arg, client>>

Next ==
    \/ \E k \in Ptr, v \in Val : PutPlain(k, v) \/ PutExtend(k, v) \/ PutExtendFail(k, v)
    \/ Rehash
    \/ RehashDone
    \/ Add
    \/ AddFail
    \/ \E k \in Key : Get(k) \/ Remove(k) \/ Delete(k)
    \/ Clean

Spec == Init /\ [][Next]_vars

-----------------------------------------------------------------------------
(* Properties. *)

\* The state has its shape; a pending put is between the two tables only while
\* it rehashes.
TypeOK ==
    /\ frees \in BOOLEAN
    /\ pc \in {"idle", "rehash", "add"}
    /\ bits \in Nat
    /\ count \in Nat
    /\ table = NoTable \/ table \in [Chains(bits) -> SUBSET Item]
    /\ pc # "idle" => table # NoTable /\ arg \in Ptr \X Val
    /\ rest \in SUBSET Item
    /\ pc # "rehash" => rest = {}
    /\ fault \in BOOLEAN

\* Every item is in the chain its key's hash leads a search to, also while the
\* table is being extended.
Bucketed ==
    \A b \in DOMAIN table : \A i \in table[b] :
        i.hash = HashOf[KeyOf[i.key]] /\ b = hash_reduce(i.hash, bits)

\* No key is twice in the table, nor in the old and the new table at once.
KeysUnique ==
    /\ \A i, j \in Items : KeyOf[i.key] = KeyOf[j.key] => i = j
    /\ rest \cap Chained = {}

\* The table never has more items than chains, though a_hash_remove does not
\* decrement the count the extension is decided by.
LoadBounded == pc = "idle" => Cardinality(Chained) <= 2^bits

\* Nothing is freed twice, and nothing that is still in the table.
NoFault == ~fault

\* Nothing is freed twice, and what is allocated and not the callers' is in the
\* table: the duplicate, the failing and the rehashing paths leak no key and no
\* value, and free none that is still referenced.
Ownership ==
    /\ NoFault
    /\ frees => live \ client = {i.key : i \in Items} \cup {i.val : i \in Items}

\* The table is a dictionary, through duplicates, extension and failures.
Value(k) == IF \E i \in Items : KeyOf[i.key] = k
            THEN (CHOOSE i \in Items : KeyOf[i.key] = k).val
            ELSE NULL
Dictionary == INSTANCE Dict WITH dict <- [k \in Key |-> Value(k)]
RefinesDict == Dictionary!Spec
=============================================================================
