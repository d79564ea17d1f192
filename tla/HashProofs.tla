----------------------------- MODULE HashProofs -----------------------------
(***************************************************************************)
(* Proofs about Hash: where the items are (Structure), who owns what       *)
(* (Memory), that the table is a dictionary (Implements), and that it has  *)
(* as many chains as items (LoadHolds).                                    *)
(***************************************************************************)
EXTENDS Hash, FiniteSetTheorems, TLAPS

Hashed(i) == i.hash = HashOf[KeyOf[i.key]]
Filled == table \in [Chains(bits) -> SUBSET Item]

\* The inductive invariant of the table.  bits and the table lag behind count
\* only until the first put.
SInv ==
    /\ TypeOK
    /\ Bucketed
    /\ KeysUnique
    /\ \A i \in rest : Hashed(i)
    /\ count = 0 => bits = 0
    /\ count # 0 => table # NoTable

\* hash_reduce yields an index into the table.
LEMMA ReducedInTable == ASSUME NEW h, NEW n PROVE hash_reduce(h, n) \in Chains(n)
  BY DEF hash_reduce, Chains

\* A table with chains is not the table without.
LEMMA FilledIsTable == Filled => table # NoTable /\ DOMAIN table = Chains(bits)
<1>1. hash_reduce({}, bits) \in Chains(bits)
  BY ReducedInTable
<1>2. DOMAIN NoTable = {}
  BY DEF NoTable
<1> QED
  BY <1>1, <1>2 DEF Filled

\* An item of the table is in the chain of its hash and in no other.
LEMMA InItsChain ==
  ASSUME Filled, Bucketed, NEW i \in Chained
  PROVE  /\ i \in table[hash_reduce(i.hash, bits)]
         /\ Hashed(i)
         /\ i \in Item
         /\ \A b \in DOMAIN table : i \in table[b] => b = hash_reduce(i.hash, bits)
  BY DEF Filled, Bucketed, Chained, Hashed

\* What a search of a chain finds are the items of the table with that key.
LEMMA FoundIsThere ==
  ASSUME Filled, Bucketed, NEW k \in Key,
         NEW b, b = hash_reduce(HashOf[k], bits)
  PROVE  Found(b, HashOf[k], k) = {i \in Chained : KeyOf[i.key] = k}
<1>1. b \in DOMAIN table
  BY ReducedInTable, FilledIsTable
<1>2. ASSUME NEW i \in Found(b, HashOf[k], k) PROVE i \in Chained /\ KeyOf[i.key] = k
  BY <1>1 DEF Found, Chained
<1>3. ASSUME NEW i \in Chained, KeyOf[i.key] = k PROVE i \in Found(b, HashOf[k], k)
  BY <1>3, InItsChain DEF Found, Hashed
<1> QED
  BY <1>2, <1>3

\* Taking the items R out of a chain and putting the items S into it does the
\* same to the items of the table.
LEMMA ChainChange ==
  ASSUME Filled, Bucketed, NEW b \in Chains(bits), NEW R \in SUBSET table[b],
         NEW S \in SUBSET Item,
         \A i \in S : Hashed(i) /\ b = hash_reduce(i.hash, bits),
         table' = [table EXCEPT ![b] = (table[b] \ R) \cup S],
         bits' = bits
  PROVE  Filled' /\ Bucketed' /\ Chained' = (Chained \ R) \cup S
<1>1. \A c \in Chains(bits) : table'[c] = IF c = b THEN (table[b] \ R) \cup S ELSE table[c]
  BY DEF Filled
<1>2. table' \in [Chains(bits) -> SUBSET Item]
  BY DEF Filled
<1>3. Filled' /\ DOMAIN table = Chains(bits) /\ DOMAIN table' = Chains(bits)
  BY <1>2 DEF Filled, Chains
<1>4. Bucketed'
  <2> SUFFICES ASSUME NEW c \in Chains(bits), NEW i \in table'[c]
               PROVE  Hashed(i) /\ c = hash_reduce(i.hash, bits)
    BY <1>3 DEF Bucketed, Hashed, hash_reduce
  <2>1. i \in table[c] \/ (c = b /\ i \in S)
    BY <1>1
  <2> QED
    BY <2>1, <1>3 DEF Bucketed, Hashed
<1>5. \A c \in Chains(bits) : c # b => table[c] \cap R = {}
  BY <1>3 DEF Bucketed
<1>6. ASSUME NEW i PROVE i \in Chained' <=> i \in (Chained \ R) \cup S
  BY <1>1, <1>3, <1>5 DEF Chained
<1> QED
  BY <1>3, <1>4, <1>6

\* add_item: the item joins the table, or takes the place of the one item with
\* its key, but for the key.
Merged(dup, item) == [dup EXCEPT !.val = item.val]

LEMMA AddItemEffect ==
  ASSUME Filled, Bucketed, NEW item \in Item, Hashed(item), AddItem(item),
         bits' = bits
  PROVE  /\ Filled' /\ Bucketed'
         /\ \/ /\ \A i \in Chained : KeyOf[i.key] # KeyOf[item.key]
               /\ Chained' = Chained \cup {item}
               /\ UNCHANGED <<live, fault>>
            \/ \E dup \in Chained :
               /\ KeyOf[dup.key] = KeyOf[item.key]
               /\ Chained' = (Chained \ {dup}) \cup {Merged(dup, item)}
               /\ Free({item.key, dup.val})
<1> DEFINE b == hash_reduce(item.hash, bits)
<1> DEFINE k == KeyOf[item.key]
<1>1. k \in Key /\ item.hash = HashOf[k]
  BY KeyAssumption DEF Item, Hashed
<1>2. b \in Chains(bits)
  BY ReducedInTable
<1>3. Found(b, item.hash, k) = {i \in Chained : KeyOf[i.key] = k}
  BY <1>1, FoundIsThere
<1>4. CASE Found(b, item.hash, k) = {}
  <2>1. table' = [table EXCEPT ![b] = table[b] \cup {item}] /\ UNCHANGED <<live, fault>>
    BY <1>4 DEF AddItem
  <2>2. table[b] \cup {item} = (table[b] \ {}) \cup {item}
    OBVIOUS
  <2> DEFINE R == {}
  <2> DEFINE S == {item}
  <2>4. table' = [table EXCEPT ![b] = (table[b] \ R) \cup S]
    BY <2>1, <2>2
  <2>5. R \in SUBSET table[b] /\ S \in SUBSET Item
    OBVIOUS
  <2>6. \A i \in S : Hashed(i) /\ b = hash_reduce(i.hash, bits)
    OBVIOUS
  <2> HIDE DEF R, S, b
  <2>7. Filled' /\ Bucketed' /\ Chained' = (Chained \ R) \cup S
    BY <1>2, <2>4, <2>5, <2>6, ChainChange
  <2>3. Filled' /\ Bucketed' /\ Chained' = (Chained \ {}) \cup {item}
    BY <2>7 DEF R, S
  <2> QED
    BY <1>3, <1>4, <2>1, <2>3
<1>5. CASE Found(b, item.hash, k) # {}
  <2>1. PICK dup \in Found(b, item.hash, k) :
            /\ table' = [table EXCEPT ![b] = (table[b] \ {dup}) \cup {Merged(dup, item)}]
            /\ Free({item.key, dup.val})
    BY <1>5 DEF AddItem, Merged
  <2>2. dup \in Chained /\ KeyOf[dup.key] = k /\ dup \in table[b] /\ dup.hash = item.hash
    BY <1>3 DEF Found
  <2>3. dup \in Item
    BY <2>2, InItsChain
  <2>4. Merged(dup, item) \in Item /\ Merged(dup, item).hash = item.hash
        /\ Merged(dup, item).key = dup.key
    BY <2>2, <2>3 DEF Merged, Item
  <2>5. Hashed(Merged(dup, item))
    BY <1>1, <2>2, <2>4 DEF Hashed
  <2> DEFINE R == {dup}
  <2> DEFINE S == {Merged(dup, item)}
  <2>7. table' = [table EXCEPT ![b] = (table[b] \ R) \cup S]
    BY <2>1
  <2>8. R \in SUBSET table[b] /\ S \in SUBSET Item
    BY <2>2, <2>4
  <2>9. \A i \in S : Hashed(i) /\ b = hash_reduce(i.hash, bits)
    BY <2>4, <2>5
  <2> HIDE DEF R, S, b
  <2>10. Filled' /\ Bucketed' /\ Chained' = (Chained \ R) \cup S
    BY <1>2, <2>7, <2>8, <2>9, ChainChange
  <2>6. Filled' /\ Bucketed' /\ Chained' = (Chained \ {dup}) \cup {Merged(dup, item)}
    BY <2>10 DEF R, S
  <2> QED
    BY <2>1, <2>2, <2>6
<1> QED
  BY <1>4, <1>5

\* Unlinking what a search found takes it out of the table.
LEMMA UnlinkEffect ==
  ASSUME Filled, Bucketed, NEW k \in Key, NEW i \in FoundFor(k),
         table' = Unlinked(k, i), bits' = bits
  PROVE  /\ Filled' /\ Bucketed' /\ Chained' = Chained \ {i}
         /\ i \in Chained /\ KeyOf[i.key] = k
<1> DEFINE b == hash_reduce(HashOf[k], bits)
<1> DEFINE R == {i}
<1> DEFINE S == {}
<1>1. b \in Chains(bits) /\ FoundFor(k) = {j \in Chained : KeyOf[j.key] = k}
  BY ReducedInTable, FoundIsThere DEF FoundFor
<1>2. R \in SUBSET table[b]
  BY DEF FoundFor, Found
<1>3. table' = [table EXCEPT ![b] = (table[b] \ R) \cup S]
  <2>1. table[b] \ {i} = (table[b] \ R) \cup S
    OBVIOUS
  <2> QED
    BY <2>1 DEF Unlinked
<1>4. S \in SUBSET Item /\ \A j \in S : Hashed(j) /\ b = hash_reduce(j.hash, bits)
  OBVIOUS
<1> HIDE DEF b, R, S
<1>5. Filled' /\ Bucketed' /\ Chained' = (Chained \ R) \cup S
  BY <1>1, <1>2, <1>3, <1>4, ChainChange
<1> QED
  BY <1>1, <1>5 DEF R, S

\* Ready tables have their chains.
LEMMA ReadyFilled == ASSUME SInv, table # NoTable PROVE Filled
  BY DEF SInv, TypeOK, Filled

\* The new item of a put.
NewItem == [key |-> arg[1], hash |-> HashOf[KeyOf[arg[1]]], val |-> arg[2]]

LEMMA NewItemOK ==
  ASSUME SInv, pc # "idle"
  PROVE  NewItem \in Item /\ Hashed(NewItem) /\ NewItem.key = arg[1] /\ NewItem.val = arg[2]
         /\ Filled
<1>1. arg \in Ptr \X Val /\ table # NoTable
  BY DEF SInv, TypeOK
<1>2. arg[1] \in Ptr /\ arg[2] \in Val
  BY <1>1
<1>3. HashOf[KeyOf[arg[1]]] \in SUBSET Nat
  BY <1>2, KeyAssumption
<1> QED
  BY <1>1, <1>2, <1>3, ReadyFilled DEF NewItem, Item, Hashed

LEMMA SInvInit == Init => SInv
<1> SUFFICES ASSUME Init PROVE SInv
  OBVIOUS
<1>1. DOMAIN table = {} /\ Chained = {}
  BY DEF Init, NoTable, Chained
<1>2. TypeOK
  BY DEF Init, TypeOK
<1>3. Bucketed /\ KeysUnique
  BY <1>1 DEF Init, Bucketed, KeysUnique, Items
<1> QED
  BY <1>2, <1>3 DEF Init, SInv

\* Steps that leave the items where they are.
LEMMA SInvSame ==
  ASSUME SInv, UNCHANGED <<table, bits, count, rest>>, TypeOK'
  PROVE  SInv'
<1>1. Chained' = Chained /\ Items' = Items
  BY DEF Chained, Items
<1>2. Bucketed'
  BY DEF SInv, Bucketed
<1>3. KeysUnique'
  BY <1>1 DEF SInv, KeysUnique
<1> QED
  BY <1>2, <1>3 DEF SInv, Hashed, NoTable

LEMMA SInvCall ==
  ASSUME SInv, NEW k \in Ptr, NEW v \in Val, Call(k, v)
  PROVE  /\ pc = "idle" /\ rest = {} /\ frees' \in BOOLEAN /\ fault' \in BOOLEAN
         /\ arg' \in Ptr \X Val
<1>1. pc = "idle" /\ arg' = <<k, v>> /\ UNCHANGED <<frees, fault>>
  BY DEF Call, MayPut
<1> QED
  BY <1>1 DEF SInv, TypeOK

LEMMA SInvPutPlain ==
  ASSUME SInv, NEW k \in Ptr, NEW v \in Val, PutPlain(k, v)
  PROVE  SInv'
<1>1. Call(k, v) /\ count # 0 /\ pc' = "add" /\ UNCHANGED <<table, bits, count, rest>>
  BY DEF PutPlain, MustExtend
<1>2. TypeOK'
  BY <1>1, SInvCall DEF SInv, TypeOK, Chains, NoTable
<1> QED
  BY <1>1, <1>2, SInvSame

LEMMA SInvPutExtend ==
  ASSUME SInv, NEW k \in Ptr, NEW v \in Val, PutExtend(k, v)
  PROVE  SInv'
<1>1. /\ Call(k, v) /\ bits' = Extended /\ table' = [b \in Chains(bits') |-> {}]
      /\ rest' = Chained /\ pc' = "rehash" /\ count' = count
  BY DEF PutExtend
<1>2. bits' \in Nat
  BY <1>1 DEF Extended, SInv, TypeOK
<1>3. Filled' /\ Chained' = {} /\ Bucketed'
  BY <1>1 DEF Filled, Chained, Bucketed, Chains
<1>4. table' # NoTable
  <2>1. hash_reduce({}, bits') \in DOMAIN table'
    BY <1>1, ReducedInTable DEF Chains
  <2> QED
    BY <2>1 DEF NoTable
<1>5. rest' \in SUBSET Item /\ \A i \in rest' : Hashed(i)
  <2>1. CASE table = NoTable
    BY <1>1, <2>1 DEF Chained, NoTable
  <2>2. CASE table # NoTable
    BY <1>1, <2>2, ReadyFilled, InItsChain DEF SInv
  <2> QED
    BY <2>1, <2>2
<1>6. TypeOK'
  BY <1>1, <1>2, <1>3, <1>4, <1>5, SInvCall DEF SInv, TypeOK, Filled, NoTable
<1>7. KeysUnique'
  BY <1>1, <1>3 DEF SInv, KeysUnique, Items
<1>8. count' = 0 => bits' = 0
  BY <1>1 DEF SInv, TypeOK, Extended
<1> QED
  BY <1>3, <1>4, <1>5, <1>6, <1>7, <1>8 DEF SInv, Hashed, NoTable

LEMMA SInvPutExtendFail ==
  ASSUME SInv, NEW k \in Ptr, NEW v \in Val, PutExtendFail(k, v)
  PROVE  SInv'
<1>1. /\ Call(k, v) /\ bits' = IF Extended > 0 THEN Extended - 1 ELSE 0
      /\ UNCHANGED <<pc, table, count, rest>>
  BY DEF PutExtendFail
<1>2. bits' = bits
  BY <1>1 DEF Extended, SInv, TypeOK
<1>3. TypeOK'
  BY <1>1, <1>2, SInvCall DEF SInv, TypeOK, Chains, NoTable
<1> QED
  BY <1>1, <1>2, <1>3, SInvSame

\* Rehashing moves an item: no item of the new table has its key.
LEMMA RehashEffect ==
  ASSUME SInv, Rehash
  PROVE  Filled' /\ Bucketed' /\ Items' = Items /\ rest' \in SUBSET rest
         /\ rest' \cap Chained' = {} /\ UNCHANGED <<live, fault>>
<1>1. pc = "rehash" /\ bits' = bits
  BY DEF Rehash
<1>2. PICK item \in rest : AddItem(item) /\ rest' = rest \ {item}
  BY DEF Rehash
<1>3. Filled /\ Bucketed /\ KeysUnique /\ item \in Item /\ Hashed(item)
  BY <1>1, NewItemOK DEF SInv, TypeOK
<1>4. /\ Filled' /\ Bucketed'
      /\ Chained' = Chained \cup {item} /\ UNCHANGED <<live, fault>>
  BY <1>1, <1>2, <1>3, AddItemEffect DEF KeysUnique, Items
<1> QED
  BY <1>2, <1>3, <1>4 DEF Items, KeysUnique

LEMMA SInvRehash == ASSUME SInv, Rehash PROVE SInv'
<1>1. pc = "rehash" /\ pc' = pc /\ UNCHANGED <<frees, bits, count, arg>>
  BY DEF Rehash
<1>2. Filled' /\ Bucketed' /\ Items' = Items /\ rest' \in SUBSET rest
      /\ rest' \cap Chained' = {} /\ UNCHANGED <<live, fault>>
  BY RehashEffect
<1>3. KeysUnique'
  BY <1>2 DEF SInv, KeysUnique
<1>4. table' # NoTable
  BY <1>2, FilledIsTable DEF Filled, NoTable, Chains, hash_reduce
<1>5. TypeOK'
  BY <1>1, <1>2, <1>4 DEF SInv, TypeOK, Filled, NoTable
<1> QED
  BY <1>1, <1>2, <1>3, <1>4, <1>5 DEF SInv, Hashed, NoTable

\* A put adds the new item, or merges it into the one with its key.
Added(dup) ==
    /\ KeyOf[dup.key] = KeyOf[arg[1]]
    /\ Items' = (Items \ {dup}) \cup {Merged(dup, NewItem)}
    /\ Free({arg[1], dup.val})

LEMMA AddEffect ==
  ASSUME SInv, Add
  PROVE  /\ Filled' /\ Bucketed' /\ rest = {} /\ rest' = {}
         /\ Items = Chained /\ Items' = Chained' /\ Items \in SUBSET Item
         /\ \/ /\ \A i \in Items : KeyOf[i.key] # KeyOf[arg[1]]
               /\ Items' = Items \cup {NewItem}
               /\ UNCHANGED <<live, fault>>
            \/ \E dup \in Items : Added(dup)
<1>1. pc = "add" /\ UNCHANGED <<bits, rest>> /\ AddItem(NewItem)
  BY DEF Add, NewItem
<1>2. /\ NewItem \in Item /\ Hashed(NewItem) /\ Filled /\ Bucketed /\ rest = {}
      /\ NewItem.key = arg[1]
  BY <1>1, NewItemOK DEF SInv, TypeOK
<1>3. /\ Filled' /\ Bucketed'
      /\ \/ /\ \A i \in Chained : KeyOf[i.key] # KeyOf[NewItem.key]
            /\ Chained' = Chained \cup {NewItem}
            /\ UNCHANGED <<live, fault>>
         \/ \E dup \in Chained :
            /\ KeyOf[dup.key] = KeyOf[NewItem.key]
            /\ Chained' = (Chained \ {dup}) \cup {Merged(dup, NewItem)}
            /\ Free({NewItem.key, dup.val})
  BY <1>1, <1>2, AddItemEffect
<1>4. Items = Chained /\ Items' = Chained' /\ Items \in SUBSET Item
  BY <1>1, <1>2, InItsChain DEF Items
<1> QED
  BY <1>1, <1>2, <1>3, <1>4 DEF Added

LEMMA SInvAdd == ASSUME SInv, Add PROVE SInv'
<1>1. pc = "add" /\ pc' = "idle" /\ count' = count + 1 /\ UNCHANGED <<frees, bits, rest>>
  BY DEF Add
<1>2. /\ Filled' /\ Bucketed' /\ rest = {} /\ rest' = {}
      /\ Items' = Chained' /\ Items \in SUBSET Item
      /\ \/ /\ \A i \in Items : KeyOf[i.key] # KeyOf[arg[1]]
            /\ Items' = Items \cup {NewItem}
            /\ UNCHANGED <<live, fault>>
         \/ \E dup \in Items : Added(dup)
  BY AddEffect
<1>3. \A i, j \in Items : KeyOf[i.key] = KeyOf[j.key] => i = j
  BY DEF SInv, KeysUnique
<1>4. NewItem.key = arg[1]
  BY <1>1, NewItemOK
<1>5. ASSUME \A i \in Items : KeyOf[i.key] # KeyOf[arg[1]], Items' = Items \cup {NewItem},
             NEW i \in Items', NEW j \in Items', KeyOf[i.key] = KeyOf[j.key]
      PROVE  i = j
  BY <1>3, <1>4, <1>5
<1>6. ASSUME NEW dup \in Items, Added(dup),
             NEW i \in Items', NEW j \in Items', KeyOf[i.key] = KeyOf[j.key]
      PROVE  i = j
  <2>1. Merged(dup, NewItem).key = dup.key
    BY <1>2 DEF Merged, Item
  <2> QED
    BY <1>3, <1>6, <2>1 DEF Added
<1>7. \A i, j \in Items' : KeyOf[i.key] = KeyOf[j.key] => i = j
  BY <1>2, <1>5, <1>6
<1>8. KeysUnique'
  BY <1>2, <1>7 DEF KeysUnique
<1>9. fault' \in BOOLEAN
  BY <1>2 DEF SInv, TypeOK, Free, Added
<1>10. table' # NoTable
  BY <1>2, FilledIsTable DEF Filled, NoTable, Chains, hash_reduce
<1>11. TypeOK'
  BY <1>1, <1>2, <1>9, <1>10 DEF SInv, TypeOK, Filled, NoTable
<1>12. count' # 0
  BY <1>1 DEF SInv, TypeOK
<1> QED
  BY <1>1, <1>2, <1>8, <1>10, <1>11, <1>12 DEF SInv, Hashed, NoTable

\* Steps between calls that leave the table alone or take one item out of it.
LEMMA SInvUnlink ==
  ASSUME SInv, Ready, NEW k \in Key, NEW i \in FoundFor(k), table' = Unlinked(k, i),
         UNCHANGED <<frees, pc, bits, count, rest, arg>>, fault' \in BOOLEAN
  PROVE  SInv'
<1>1. Filled /\ Bucketed /\ KeysUnique /\ pc = "idle" /\ rest = {}
  BY ReadyFilled DEF SInv, TypeOK, Ready
<1>2. Filled' /\ Bucketed' /\ Chained' = Chained \ {i}
  BY <1>1, UnlinkEffect
<1>3. KeysUnique'
  BY <1>1, <1>2 DEF KeysUnique, Items
<1>4. table' # NoTable
  BY <1>2, FilledIsTable DEF Filled, NoTable, Chains, hash_reduce
<1>5. TypeOK'
  BY <1>1, <1>2, <1>4 DEF SInv, TypeOK, Filled, NoTable
<1> QED
  BY <1>1, <1>2, <1>3, <1>4, <1>5 DEF SInv, Hashed, NoTable

LEMMA SInvClean == ASSUME SInv, Clean PROVE SInv'
<1>1. pc = "idle" /\ table' = NoTable /\ bits' = 0 /\ count' = 0
      /\ UNCHANGED <<frees, pc, rest, arg>> /\ fault' \in BOOLEAN /\ rest = {}
  BY DEF Clean, Free, SInv, TypeOK
<1>2. DOMAIN table' = {} /\ Chained' = {}
  BY <1>1 DEF NoTable, Chained
<1>3. Bucketed' /\ KeysUnique'
  BY <1>1, <1>2 DEF Bucketed, KeysUnique, Items
<1>4. TypeOK'
  BY <1>1 DEF SInv, TypeOK, NoTable
<1> QED
  BY <1>1, <1>3, <1>4 DEF SInv, NoTable

THEOREM SInvNext == SInv /\ [Next]_vars => SInv'
<1> SUFFICES ASSUME SInv, [Next]_vars PROVE SInv'
  OBVIOUS
<1>1. ASSUME NEW k \in Ptr, NEW v \in Val,
             PutPlain(k, v) \/ PutExtend(k, v) \/ PutExtendFail(k, v)
      PROVE  SInv'
  BY <1>1, SInvPutPlain, SInvPutExtend, SInvPutExtendFail
<1>2. CASE Rehash \/ Add \/ Clean
  BY <1>2, SInvRehash, SInvAdd, SInvClean
<1>3. CASE RehashDone
  <2>1. TypeOK'
    BY <1>3 DEF RehashDone, SInv, TypeOK, Chains, NoTable
  <2> QED
    BY <1>3, <2>1, SInvSame DEF RehashDone
<1>4. CASE AddFail
  <2>1. TypeOK'
    BY <1>4 DEF AddFail, SInv, TypeOK, Chains, NoTable
  <2> QED
    BY <1>4, <2>1, SInvSame DEF AddFail
<1>5. ASSUME NEW k \in Key, Get(k) PROVE SInv'
  <2>1. TypeOK'
    BY <1>5 DEF Get, SInv, TypeOK, Chains, NoTable
  <2> QED
    BY <1>5, <2>1, SInvSame DEF Get
<1>6. ASSUME NEW k \in Key, Remove(k) \/ Delete(k) PROVE SInv'
  <2>1. Ready /\ UNCHANGED <<frees, pc, bits, count, rest, arg>> /\ fault' \in BOOLEAN
    BY <1>6 DEF Remove, Delete, Free, SInv, TypeOK
  <2>2. CASE UNCHANGED table
    <3>1. TypeOK'
      BY <2>1, <2>2 DEF SInv, TypeOK, Chains, NoTable
    <3> QED
      BY <2>1, <2>2, <3>1, SInvSame
  <2>3. CASE \E i \in FoundFor(k) : table' = Unlinked(k, i)
    BY <2>1, <2>3, SInvUnlink
  <2> QED
    BY <1>6, <2>2, <2>3 DEF Remove, Delete
<1>7. CASE UNCHANGED vars
  <2>1. TypeOK'
    BY <1>7 DEF vars, SInv, TypeOK, Chains, NoTable
  <2> QED
    BY <1>7, <2>1, SInvSame DEF vars
<1> QED
  BY <1>1, <1>2, <1>3, <1>4, <1>5, <1>6, <1>7 DEF Next

\* In every reachable state, of any table over any keys, each item is in the
\* chain a search for its key looks at, and no key is in the table twice, nor in
\* the old and the new table at once while extend moves the items.
THEOREM Structure == Spec => [](TypeOK /\ Bucketed /\ KeysUnique)
<1>1. SInv => TypeOK /\ Bucketed /\ KeysUnique
  BY DEF SInv
<1> QED
  BY <1>1, SInvInit, SInvNext, PTL DEF Spec

-----------------------------------------------------------------------------
(* Memory: the inductive invariant of a table with destructors.            *)

Pointers(S) == {i.key : i \in S} \cup {i.val : i \in S}

\* No two items have the same value, and the arguments of a pending put are the
\* callers'.
OInv ==
    /\ SInv
    /\ NoFault
    /\ Ownership
    /\ frees => \A i, j \in Items : i.val = j.val => i = j
    /\ frees /\ pc # "idle" => {arg[1], arg[2]} \subseteq live \cap client

LEMMA ItemsTyped == ASSUME SInv PROVE Items \in SUBSET Item
<1>1. CASE table = NoTable
  BY <1>1 DEF SInv, TypeOK, Items, Chained, NoTable
<1>2. CASE table # NoTable
  BY <1>2, ReadyFilled, InItsChain DEF SInv, TypeOK, Items
<1> QED
  BY <1>1, <1>2

\* What a put and a removal do to the pointers of the items.
LEMMA PointersPlus ==
  ASSUME NEW S \in SUBSET Item, NEW i \in Item
  PROVE  Pointers(S \cup {i}) = Pointers(S) \cup {i.key, i.val}
  BY DEF Pointers

LEMMA PointersMinus ==
  ASSUME NEW S \in SUBSET Item, NEW i \in S,
         \A j \in S : KeyOf[i.key] = KeyOf[j.key] => i = j,
         \A j \in S : i.val = j.val => i = j
  PROVE  Pointers(S \ {i}) = Pointers(S) \ {i.key, i.val}
<1>1. \A j \in S : j.key \in Ptr /\ j.val \in Val
  BY DEF Item
<1>2. \A j \in S : j # i => j.key \notin {i.key, i.val} /\ j.val \notin {i.key, i.val}
  BY <1>1, NullAssumption
<1> QED
  BY <1>2 DEF Pointers

\* Steps that move no item into or out of the table.
LEMMA OInvSame ==
  ASSUME OInv, SInv', Items' = Items, fault' = fault, frees' = frees,
         frees => live' \ client' = live \ client,
         frees /\ pc' # "idle" => {arg'[1], arg'[2]} \subseteq live' \cap client'
  PROVE  OInv'
BY DEF OInv, NoFault, Ownership

LEMMA OInvCall ==
  ASSUME OInv, NEW k \in Ptr, NEW v \in Val, Call(k, v)
  PROVE  /\ UNCHANGED <<frees, fault>>
         /\ frees => live' \ client' = live \ client
         /\ frees => {arg'[1], arg'[2]} \subseteq live' \cap client'
BY DEF Call, MayPut

LEMMA OInvAdd == ASSUME OInv, Add PROVE OInv'
<1>1. SInv /\ SInv' /\ pc = "add" /\ pc' = "idle" /\ frees' = frees /\ Items \in SUBSET Item
  BY SInvAdd, ItemsTyped DEF OInv, Add
<1>2. NewItem \in Item /\ NewItem.key = arg[1] /\ NewItem.val = arg[2]
      /\ arg[1] \in Ptr /\ arg[2] \in Val
  BY <1>1, NewItemOK DEF Item
<1>3. \/ /\ \A i \in Items : KeyOf[i.key] # KeyOf[arg[1]]
         /\ Items' = Items \cup {NewItem}
         /\ UNCHANGED <<live, fault>>
      \/ \E dup \in Items : Added(dup)
  BY <1>1, AddEffect
<1>4. CASE ~frees
  <2>1. ~fault
    BY DEF OInv, NoFault
  <2>2. ~fault'
    BY <1>3, <1>4, <2>1 DEF Added, Free
  <2> QED
    BY <1>1, <1>4, <2>2 DEF OInv, NoFault, Ownership
<1>5. CASE frees
  <2>1. /\ live \ client = Pointers(Items) /\ {arg[1], arg[2]} \subseteq live \cap client
        /\ \A i, j \in Items : i.val = j.val => i = j
        /\ client' = client \ {arg[1], arg[2]}
    BY <1>1, <1>5 DEF OInv, Ownership, Add, Pointers
  <2>2. \A i \in Items : i.key \in live /\ i.val \in live /\ i.val # arg[2] /\ i.key # arg[1]
    BY <2>1 DEF Pointers
  <2>3. ASSUME Items' = Items \cup {NewItem}, UNCHANGED <<live, fault>>
        PROVE  OInv'
    <3>1. Pointers(Items') = Pointers(Items) \cup {arg[1], arg[2]}
      BY <1>1, <1>2, <2>3, PointersPlus
    <3>2. live' \ client' = Pointers(Items')
      BY <2>1, <2>3, <3>1
    <3>3. \A i, j \in Items' : i.val = j.val => i = j
      BY <1>2, <2>1, <2>2, <2>3
    <3> QED
      BY <1>1, <2>3, <3>2, <3>3 DEF OInv, NoFault, Ownership, Pointers
  <2>4. ASSUME NEW dup \in Items, Added(dup) PROVE OInv'
    <3> DEFINE m == Merged(dup, NewItem)
    <3>1. m \in Item /\ m.key = dup.key /\ m.val = arg[2] /\ dup \in Item
      BY <1>1, <1>2 DEF Merged, Item
    <3>2. Items' = (Items \ {dup}) \cup {m}
      BY <2>4 DEF Added
    <3>3. Pointers(Items \ {dup}) = Pointers(Items) \ {dup.key, dup.val}
      BY <1>1, <2>1, PointersMinus DEF SInv, KeysUnique
    <3>4. Pointers(Items') = (Pointers(Items) \ {dup.key, dup.val}) \cup {dup.key, arg[2]}
      BY <1>1, <3>1, <3>2, <3>3, PointersPlus
    <3>5. arg[1] \in live /\ dup.val \in live
      BY <2>1, <2>2
    <3>6. fault' = fault /\ live' = live \ {arg[1], dup.val}
      BY <1>5, <2>4, <3>5 DEF Added, Free, OInv, NoFault, SInv, TypeOK
    <3>7. live' \ client' = Pointers(Items')
      <4>1. dup.key \in Pointers(Items) /\ dup.val # dup.key /\ dup.val # arg[2]
            /\ arg[1] # dup.key /\ arg[1] # arg[2]
        BY <1>2, <2>2, <3>1, NullAssumption DEF Pointers, Item
      <4> QED
        BY <2>1, <3>4, <3>6, <4>1
    <3>8. \A i, j \in Items' : i.val = j.val => i = j
      BY <2>1, <2>2, <3>1, <3>2
    <3> QED
      BY <1>1, <3>6, <3>7, <3>8 DEF OInv, NoFault, Ownership, Pointers
  <2> QED
    BY <1>3, <2>3, <2>4
<1> QED
  BY <1>4, <1>5

\* A removal takes the pointers of one item from the table; the value goes to the
\* caller, or is freed with the key.
LEMMA OInvUnlink ==
  ASSUME OInv, SInv', Ready, NEW k \in Key, NEW i \in FoundFor(k),
         table' = Unlinked(k, i), UNCHANGED <<frees, pc, bits, rest>>,
         \/ Free({i.key, NULL}) /\ client' = IF frees THEN client \cup {i.val} ELSE client
         \/ Free({i.key, NULL, i.val}) /\ client' = client
  PROVE  OInv'
<1>1. SInv /\ Filled /\ Bucketed /\ rest = {} /\ pc' = "idle" /\ Items \in SUBSET Item
  BY ReadyFilled, ItemsTyped DEF OInv, SInv, TypeOK, Ready
<1>2. Items' = Items \ {i} /\ i \in Items
  BY <1>1, UnlinkEffect DEF Items
<1>3. i.key \in Ptr /\ i.val \in Val /\ i.key # NULL /\ i.val # NULL /\ ~fault
  BY <1>1, <1>2, NullAssumption DEF Item, OInv, NoFault
<1>4. CASE ~frees
  <2>1. ~fault'
    BY <1>3, <1>4 DEF Free
  <2> QED
    BY <1>4, <2>1 DEF OInv, NoFault, Ownership
<1>5. CASE frees
  <2>1. live \ client = Pointers(Items) /\ \A x, y \in Items : x.val = y.val => x = y
    BY <1>5 DEF OInv, Ownership, Pointers
  <2>2. {i.key, i.val} \subseteq Pointers(Items)
    BY <1>2 DEF Pointers
  <2>3. NULL \notin Pointers(Items)
    BY <1>1, NullAssumption DEF Pointers, Item
  <2>4. ~fault' /\ live' \ client' = Pointers(Items) \ {i.key, i.val}
    BY <1>3, <1>5, <2>1, <2>2, <2>3 DEF Free
  <2>5. Pointers(Items') = Pointers(Items) \ {i.key, i.val}
    BY <1>1, <1>2, <2>1, PointersMinus DEF SInv, KeysUnique
  <2> QED
    BY <1>1, <1>2, <2>1, <2>4, <2>5 DEF OInv, NoFault, Ownership, Pointers
<1> QED
  BY <1>4, <1>5

LEMMA OInvClean == ASSUME OInv, Clean, SInv' PROVE OInv'
<1>1. /\ pc = "idle" /\ pc' = "idle" /\ UNCHANGED <<frees, client>> /\ table' = NoTable
      /\ rest = {} /\ rest' = {} /\ Free(Pointers(Chained))
  BY DEF Clean, OInv, SInv, TypeOK, Pointers
<1>2. Items = Chained /\ Items' = {}
  BY <1>1 DEF Items, Chained, NoTable
<1>3. ~fault
  BY DEF OInv, NoFault
<1>4. frees => live \ client = Pointers(Items)
  BY DEF OInv, Ownership, Pointers
<1>5. ~fault'
  BY <1>1, <1>2, <1>3, <1>4 DEF Free
<1>6. frees => live' \ client' = Pointers(Items')
  BY <1>1, <1>2, <1>4 DEF Free, Pointers
<1> QED
  BY <1>1, <1>2, <1>5, <1>6 DEF OInv, NoFault, Ownership, Pointers

LEMMA OInvInit == Init => OInv
<1> SUFFICES ASSUME Init PROVE OInv
  OBVIOUS
<1>1. Items = {}
  BY DEF Init, NoTable, Chained, Items
<1> QED
  BY <1>1, SInvInit DEF Init, OInv, NoFault, Ownership

THEOREM OInvNext == OInv /\ [Next]_vars => OInv'
<1> SUFFICES ASSUME OInv, [Next]_vars PROVE OInv'
  OBVIOUS
<1>0. SInv /\ SInv'
  BY SInvNext DEF OInv
<1>1. ASSUME NEW k \in Ptr, NEW v \in Val,
             PutPlain(k, v) \/ PutExtend(k, v) \/ PutExtendFail(k, v)
      PROVE  OInv'
  <2>1. Call(k, v) /\ rest = {}
    BY <1>0, <1>1, SInvCall DEF PutPlain, PutExtend, PutExtendFail
  <2>2. Items' = Items
    <3>1. CASE PutExtend(k, v)
      <4>1. Chained' = {} /\ rest' = Chained
        BY <3>1 DEF PutExtend, Chained
      <4> QED
        BY <2>1, <4>1 DEF Items
    <3> QED
      BY <1>1, <3>1 DEF PutPlain, PutExtendFail, Items, Chained
  <2> QED
    BY <1>0, <2>1, <2>2, OInvCall, OInvSame
<1>2. CASE Add
  BY <1>2, OInvAdd
<1>3. CASE Clean
  BY <1>0, <1>3, OInvClean
<1>4. CASE Rehash
  <2>1. Items' = Items /\ UNCHANGED <<live, fault>>
    BY <1>0, <1>4, RehashEffect
  <2> QED
    BY <1>0, <1>4, <2>1, OInvSame DEF Rehash, OInv
<1>5. CASE RehashDone \/ AddFail
  <2>1. /\ Items' = Items /\ fault' = fault /\ frees' = frees /\ live' = live /\ client' = client
        /\ pc # "idle" /\ (pc' # "idle" => arg' = arg)
    BY <1>5 DEF RehashDone, AddFail, Items, Chained
  <2>2. frees => {arg[1], arg[2]} \subseteq live \cap client
    BY <2>1 DEF OInv
  <2>3. frees /\ pc' # "idle" => {arg'[1], arg'[2]} \subseteq live' \cap client'
    BY <2>1, <2>2
  <2> QED
    BY <1>0, <2>1, <2>3, OInvSame
<1>6. CASE UNCHANGED vars
  <2>1. Items' = Items
    BY <1>6 DEF vars, Items, Chained
  <2>2. fault' = fault /\ frees' = frees /\ pc' = pc /\ arg' = arg
        /\ live' = live /\ client' = client
    BY <1>6 DEF vars
  <2>3. frees /\ pc # "idle" => {arg[1], arg[2]} \subseteq live \cap client
    BY DEF OInv
  <2> QED
    BY <1>0, <2>1, <2>2, <2>3, OInvSame
<1>7. ASSUME NEW k \in Key, Get(k) \/ Remove(k) \/ Delete(k) PROVE OInv'
  <2>1. Ready /\ UNCHANGED <<frees, pc, bits, rest>> /\ pc' = "idle"
    BY <1>7 DEF Get, Remove, Delete, Ready
  <2>2. ASSUME UNCHANGED table, client' = client, (live' = live /\ fault' = fault) \/ Free({NULL})
        PROVE  OInv'
    <3>1. Items' = Items
      BY <2>1, <2>2 DEF Items, Chained
    <3>2. frees => NULL \notin live \ client
      BY <1>0, ItemsTyped, NullAssumption DEF OInv, Ownership, Item
    <3>3. fault' = fault
      BY <1>0, <2>2 DEF Free, SInv, TypeOK
    <3>4. frees => live' \ client' = live \ client
      BY <2>2, <3>2 DEF Free
    <3> QED
      BY <1>0, <2>1, <3>1, <3>3, <3>4, OInvSame
  <2>3. ASSUME NEW i \in FoundFor(k), table' = Unlinked(k, i),
               \/ Free({i.key, NULL}) /\ client' = IF frees THEN client \cup {i.val} ELSE client
               \/ Free({i.key, NULL, i.val}) /\ client' = client
        PROVE  OInv'
    BY <1>0, <2>1, <2>3, OInvUnlink
  <2>4. CASE Get(k)
    BY <2>2, <2>4 DEF Get
  <2>5. CASE Remove(k)
    BY <2>2, <2>3, <2>5 DEF Remove
  <2>6. CASE Delete(k)
    BY <2>2, <2>3, <2>6 DEF Delete
  <2> QED
    BY <1>7, <2>4, <2>5, <2>6
<1> QED
  BY <1>1, <1>2, <1>3, <1>4, <1>5, <1>6, <1>7 DEF Next

\* In every reachable state nothing was freed twice or while the table holds it,
\* and with destructors the table holds exactly what is allocated and not the
\* callers'.
THEOREM Memory == Spec => [](NoFault /\ Ownership)
<1>1. OInv => NoFault /\ Ownership
  BY DEF OInv
<1> QED
  BY <1>1, OInvInit, OInvNext, PTL DEF Spec

-----------------------------------------------------------------------------
(* Refinement: the table is a dictionary.                                   *)

ValueIn(S, k) == IF \E i \in S : KeyOf[i.key] = k
                 THEN (CHOOSE i \in S : KeyOf[i.key] = k).val
                 ELSE NULL

OnePerKey(S) == \A i, j \in S : KeyOf[i.key] = KeyOf[j.key] => i = j

\* The value of a key is that of its only item.
LEMMA ValueOfItem ==
  ASSUME NEW S, OnePerKey(S), NEW i \in S
  PROVE  ValueIn(S, KeyOf[i.key]) = i.val
<1> DEFINE c == CHOOSE j \in S : KeyOf[j.key] = KeyOf[i.key]
<1>1. c \in S /\ KeyOf[c.key] = KeyOf[i.key]
  OBVIOUS
<1>2. c = i
  BY <1>1 DEF OnePerKey
<1>3. ValueIn(S, KeyOf[i.key]) = c.val
  BY DEF ValueIn
<1> QED
  BY <1>2, <1>3

LEMMA ValueOfNone ==
  ASSUME NEW S, NEW k, \A i \in S : KeyOf[i.key] # k
  PROVE  ValueIn(S, k) = NULL
  BY DEF ValueIn

\* Items with other keys do not count.
LEMMA ValueKept ==
  ASSUME NEW S, NEW T, OnePerKey(S), OnePerKey(T), NEW k,
         \A i \in S : KeyOf[i.key] = k => i \in T,
         \A i \in T : KeyOf[i.key] = k => i \in S
  PROVE  ValueIn(T, k) = ValueIn(S, k)
<1>1. CASE \E i \in S : KeyOf[i.key] = k
  BY <1>1, ValueOfItem
<1>2. CASE \A i \in S : KeyOf[i.key] # k
  BY <1>2, ValueOfNone
<1> QED
  BY <1>1, <1>2

LEMMA ValueIsIn ==
  /\ [k \in Key |-> Value(k)] = [k \in Key |-> ValueIn(Items, k)]
  /\ [k \in Key |-> Value(k)]' = [k \in Key |-> ValueIn(Items', k)]
  BY DEF Value, ValueIn

\* A put that adds an item or merges it changes the value of its key only.
LEMMA DictAdd ==
  ASSUME SInv, SInv', Add
  PROVE  Dictionary!Put(KeyOf[arg[1]], arg[2]) /\ KeyOf[arg[1]] \in Key /\ arg[2] \in Val
<1> DEFINE a == KeyOf[arg[1]]
<1>1. pc = "add" /\ done' = <<"put", a, arg[2]>> /\ arg[1] \in Ptr /\ arg[2] \in Val
  BY DEF Add, SInv, TypeOK
<1>2. a \in Key
  BY <1>1, KeyAssumption
<1>3. NewItem \in Item /\ NewItem.key = arg[1] /\ NewItem.val = arg[2]
  BY <1>1, NewItemOK DEF NewItem
<1>4. OnePerKey(Items) /\ OnePerKey(Items')
  BY DEF SInv, KeysUnique, OnePerKey
<1> DEFINE Stored == \E i \in Items' : KeyOf[i.key] = a /\ i.val = arg[2]
<1> DEFINE OthersKept == /\ \A i \in Items : KeyOf[i.key] # a => i \in Items'
                         /\ \A i \in Items' : KeyOf[i.key] # a => i \in Items
<1>5. Stored /\ OthersKept
  <2>1. CASE Items' = Items \cup {NewItem}
    BY <1>3, <2>1
  <2>2. ASSUME NEW dup \in Items, Added(dup) PROVE Stored /\ OthersKept
    <3>1. dup \in Item
      BY ItemsTyped
    <3>2. Merged(dup, NewItem).key = dup.key /\ Merged(dup, NewItem).val = arg[2]
      BY <1>3, <3>1 DEF Merged, Item
    <3> QED
      BY <2>2, <3>2 DEF Added
  <2> QED
    BY <2>1, <2>2, AddEffect
<1>6. ValueIn(Items', a) = arg[2]
  BY <1>4, <1>5, ValueOfItem
<1>7. \A k \in Key : k # a => ValueIn(Items', k) = ValueIn(Items, k)
  BY <1>4, <1>5, ValueKept
<1>8. [k \in Key |-> ValueIn(Items', k)]
        = [[k \in Key |-> ValueIn(Items, k)] EXCEPT ![a] = arg[2]]
  BY <1>2, <1>6, <1>7
<1> QED
  BY <1>1, <1>2, <1>8, ValueIsIn DEF Dictionary!Put

\* What a search finds is what the dictionary has.
LEMMA DictFound ==
  ASSUME SInv, Ready, NEW k \in Key
  PROVE  /\ FoundFor(k) = {} => ValueIn(Items, k) = NULL
         /\ \A i \in FoundFor(k) : ValueIn(Items, k) = i.val
<1>1. Filled /\ Bucketed /\ Items = Chained /\ OnePerKey(Items)
  BY ReadyFilled DEF SInv, TypeOK, Ready, Items, KeysUnique, OnePerKey
<1>2. FoundFor(k) = {i \in Items : KeyOf[i.key] = k}
  BY <1>1, FoundIsThere DEF FoundFor
<1>3. FoundFor(k) = {} => ValueIn(Items, k) = NULL
  BY <1>2, ValueOfNone
<1>4. \A i \in FoundFor(k) : ValueIn(Items, k) = i.val
  BY <1>1, <1>2, ValueOfItem
<1> QED
  BY <1>3, <1>4

LEMMA DictUnlink ==
  ASSUME SInv, SInv', Ready, NEW k \in Key, UNCHANGED <<bits, rest>>,
         \/ FoundFor(k) = {} /\ UNCHANGED table
         \/ \E i \in FoundFor(k) : table' = Unlinked(k, i)
  PROVE  [j \in Key |-> Value(j)]' = [[j \in Key |-> Value(j)] EXCEPT ![k] = NULL]
<1>1. Filled /\ Bucketed /\ Items = Chained /\ OnePerKey(Items) /\ OnePerKey(Items')
      /\ Items' = Chained'
  BY ReadyFilled DEF SInv, TypeOK, Ready, Items, KeysUnique, OnePerKey
<1>2. FoundFor(k) = {i \in Items : KeyOf[i.key] = k}
  BY <1>1, FoundIsThere DEF FoundFor
<1> DEFINE Gone == \A i \in Items' : KeyOf[i.key] # k
<1> DEFINE OthersKept == /\ \A i \in Items : KeyOf[i.key] # k => i \in Items'
                         /\ \A i \in Items' : i \in Items
<1>3. Gone /\ OthersKept
  <2>1. CASE FoundFor(k) = {} /\ UNCHANGED table
    BY <1>1, <1>2, <2>1 DEF Chained
  <2>2. ASSUME NEW i \in FoundFor(k), table' = Unlinked(k, i) PROVE Gone /\ OthersKept
    <3>1. Items' = Items \ {i} /\ KeyOf[i.key] = k
      BY <1>1, <2>2, UnlinkEffect
    <3> QED
      BY <1>1, <1>2, <3>1 DEF OnePerKey
  <2> QED
    BY <2>1, <2>2
<1>4. ValueIn(Items', k) = NULL
  BY <1>3, ValueOfNone
<1>5. \A j \in Key : j # k => ValueIn(Items', j) = ValueIn(Items, j)
  BY <1>1, <1>3, ValueKept
<1>6. [j \in Key |-> ValueIn(Items', j)] = [[j \in Key |-> ValueIn(Items, j)] EXCEPT ![k] = NULL]
  BY <1>4, <1>5
<1> QED
  BY <1>6, ValueIsIn

\* Steps that move no item into or out of the table.
LEMMA DictSame ==
  ASSUME Items' = Items
  PROVE  [k \in Key |-> Value(k)]' = [k \in Key |-> Value(k)]
  BY ValueIsIn

LEMMA DictInit == Init => Dictionary!Init
<1> SUFFICES ASSUME Init PROVE Dictionary!Init
  OBVIOUS
<1>1. Items = {}
  BY DEF Init, NoTable, Chained, Items
<1>2. \A k \in Key : Value(k) = NULL
  BY <1>1 DEF Value
<1> QED
  BY <1>2 DEF Init, Dictionary!Init

LEMMA DictNext ==
  ASSUME SInv, SInv', [Next]_vars
  PROVE  [Dictionary!Next]_(Dictionary!vars)
<1>1. ASSUME NEW k \in Ptr, NEW v \in Val,
             PutPlain(k, v) \/ PutExtend(k, v) \/ PutExtendFail(k, v)
      PROVE  [Dictionary!Next]_(Dictionary!vars)
  <2>1. Items' = Items
    <3>1. CASE PutExtend(k, v)
      <4>1. Chained' = {} /\ rest' = Chained /\ rest = {}
        BY <3>1, SInvCall DEF PutExtend, Chained
      <4> QED
        BY <4>1 DEF Items
    <3> QED
      BY <1>1, <3>1 DEF PutPlain, PutExtendFail, Items, Chained
  <2>2. done' = done \/ done' = <<"failed put">>
    BY <1>1 DEF PutPlain, PutExtend, PutExtendFail
  <2> QED
    BY <2>1, <2>2, DictSame DEF Dictionary!vars, Dictionary!Next, Dictionary!PutFail
<1>2. CASE Rehash
  <2>1. Items' = Items /\ done' = done
    BY <1>2, RehashEffect DEF Rehash
  <2> QED
    BY <2>1, DictSame DEF Dictionary!vars
<1>3. CASE RehashDone \/ UNCHANGED vars
  <2>1. Items' = Items /\ done' = done
    BY <1>3 DEF RehashDone, vars, Items, Chained
  <2> QED
    BY <2>1, DictSame DEF Dictionary!vars
<1>4. CASE Add
  BY <1>4, DictAdd DEF Dictionary!Next
<1>5. CASE AddFail
  <2>1. Items' = Items /\ done' = <<"failed put">>
    BY <1>5 DEF AddFail, Items, Chained
  <2> QED
    BY <2>1, DictSame DEF Dictionary!Next, Dictionary!PutFail
<1>6. ASSUME NEW k \in Key, Get(k) PROVE Dictionary!Get(k)
  <2>1. Ready /\ Items' = Items
    BY <1>6 DEF Get, Items, Chained
  <2>2. done' = <<"get", k, ValueIn(Items, k)>>
    BY <1>6, <2>1, DictFound DEF Get
  <2> QED
    BY <2>1, <2>2, DictSame, ValueIsIn DEF Dictionary!Get
<1>7. ASSUME NEW k \in Key, Remove(k) PROVE Dictionary!Remove(k)
  <2>1. /\ Ready /\ UNCHANGED <<bits, rest>>
        /\ \/ FoundFor(k) = {} /\ UNCHANGED table
           \/ \E i \in FoundFor(k) : table' = Unlinked(k, i)
    BY <1>7 DEF Remove
  <2>2. done' = <<"remove", k, ValueIn(Items, k)>>
    BY <1>7, <2>1, DictFound DEF Remove
  <2> QED
    BY <2>1, <2>2, DictUnlink, ValueIsIn DEF Dictionary!Remove
<1>8. ASSUME NEW k \in Key, Delete(k) PROVE Dictionary!Delete(k)
  <2>1. /\ Ready /\ UNCHANGED <<bits, rest>> /\ done' = <<"delete", k>>
        /\ \/ FoundFor(k) = {} /\ UNCHANGED table
           \/ \E i \in FoundFor(k) : table' = Unlinked(k, i)
    BY <1>8 DEF Delete
  <2> QED
    BY <2>1, DictUnlink DEF Dictionary!Delete
<1>9. CASE Clean
  <2>1. table' = NoTable /\ rest' = {} /\ done' = <<"clean">>
    BY <1>9 DEF Clean, SInv, TypeOK
  <2>2. Items' = {}
    BY <2>1 DEF Items, Chained, NoTable
  <2>3. [k \in Key |-> ValueIn(Items', k)] = [k \in Key |-> NULL]
    BY <2>2, ValueOfNone
  <2> QED
    BY <2>1, <2>3, ValueIsIn DEF Dictionary!Next, Dictionary!Clean
<1> QED
  BY <1>1, <1>2, <1>3, <1>4, <1>5, <1>6, <1>7, <1>8, <1>9 DEF Next, Dictionary!Next

\* Every behaviour of the table, with its extensions and failures, is one of a
\* dictionary: what get and remove return is what the last put of the key stored.
THEOREM Implements == Spec => RefinesDict
<1>1. SInv /\ SInv' /\ [Next]_vars => [Dictionary!Next]_(Dictionary!vars)
  BY DictNext
<1> QED
  BY <1>1, DictInit, SInvInit, SInvNext, PTL DEF Spec, RefinesDict, Dictionary!Spec

-----------------------------------------------------------------------------
(* The load of the table. *)

\* Twice as many chains have an index of one more bit.
LEMMA TwiceAsMany ==
  ASSUME NEW n \in Nat
  PROVE  2^n \in Nat /\ 1 <= 2^n /\ 2^(n + 1) = 2 * 2^n
<1> DEFINE S == 1..n
           A == SUBSET S
           f == [X \in A |-> X \cup {n + 1}]
           B == {f[X] : X \in A}
<1>1. IsFiniteSet(S) /\ Cardinality(S) = n
  BY FS_Interval
<1>2. IsFiniteSet(A) /\ Cardinality(A) = 2^n
  BY <1>1, FS_SUBSET
<1>3. 2^n \in Nat /\ 2^n # 0
  <2>1. {} \in A
    OBVIOUS
  <2> HIDE DEF A
  <2> QED
    BY <1>2, <2>1, FS_CardinalityType, FS_EmptySet
<1>4. SUBSET (1..(n + 1)) = A \cup B
  <2>1. 1..(n + 1) = S \cup {n + 1}
    OBVIOUS
  <2>2. ASSUME NEW Y \in SUBSET (S \cup {n + 1}) PROVE Y \in A \cup B
    <3>1. CASE n + 1 \in Y
      <4>1. Y \ {n + 1} \in A /\ Y = f[Y \ {n + 1}]
        BY <3>1
      <4> QED
        BY <4>1
    <3>2. CASE n + 1 \notin Y
      BY <3>2
    <3> QED
      BY <3>1, <3>2
  <2>3. B \subseteq SUBSET (S \cup {n + 1})
    OBVIOUS
  <2>4. A \subseteq SUBSET (S \cup {n + 1})
    OBVIOUS
  <2> HIDE DEF A, B, S
  <2>5. SUBSET (S \cup {n + 1}) = A \cup B
    BY <2>2, <2>3, <2>4
  <2> QED
    BY <2>1, <2>5
<1>5. A \cap B = {}
  BY n + 1 \notin S
<1>6. IsFiniteSet(B) /\ Cardinality(B) = Cardinality(A)
  <2>1. \A X, Y \in A : f[X] = f[Y] => X = Y
    <3> SUFFICES ASSUME NEW X \in A, NEW Y \in A, X \cup {n + 1} = Y \cup {n + 1} PROVE X = Y
      OBVIOUS
    <3>1. n + 1 \notin X /\ n + 1 \notin Y
      OBVIOUS
    <3> QED
      BY <3>1
  <2>2. f \in [A -> B] /\ \A Y \in B : \E X \in A : f[X] = Y
    OBVIOUS
  <2> HIDE DEF A, B, f
  <2>3. f \in Bijection(A, B)
    BY <2>1, <2>2 DEF Bijection, Injection, Surjection, IsInjective
  <2> QED
    BY <1>2, <2>3, FS_Bijection DEF ExistsBijection
<1>7. Cardinality(A \cup B) = Cardinality(A) + Cardinality(B) - Cardinality(A \cap B)
  <2> HIDE DEF A, B
  <2> QED
    BY <1>2, <1>6, FS_Union
<1>8. Cardinality(SUBSET (1..(n + 1))) = 2^(n + 1)
  <2>1. IsFiniteSet(1..(n + 1)) /\ Cardinality(1..(n + 1)) = n + 1
    BY FS_Interval
  <2> QED
    BY <2>1, FS_SUBSET
<1>9. Cardinality(A \cap B) = 0
  BY <1>5, FS_EmptySet
<1> HIDE DEF A, B
<1>10. Cardinality(A \cup B) = 2^(n + 1)
  BY <1>4, <1>8
<1> QED
  BY <1>2, <1>3, <1>6, <1>7, <1>9, <1>10

\* There are at most as many items as were put since the table was clean, and
\* a chain for each of those, and for the one that is being put.
LInv ==
    /\ IsFiniteSet(Items)
    /\ Cardinality(Items) <= count
    /\ count <= 2^bits
    /\ pc # "idle" => count + 1 <= 2^bits

\* The items get fewer, or one more is counted.
LEMMA Fewer ==
  ASSUME IsFiniteSet(Items), Cardinality(Items) <= count, count \in Nat, count' \in Nat,
         \/ Items' \subseteq Items /\ count <= count'
         \/ \E i : Items' \subseteq Items \cup {i} /\ count' = count + 1
  PROVE  IsFiniteSet(Items)' /\ Cardinality(Items)' <= count'
<1>1. Cardinality(Items) \in Nat
  BY FS_CardinalityType
<1>2. ASSUME NEW T, T \subseteq Items, count <= count'
      PROVE  IsFiniteSet(T) /\ Cardinality(T) <= count'
  BY <1>1, <1>2, FS_Subset, FS_CardinalityType
<1>3. ASSUME NEW i, NEW T, T \subseteq Items \cup {i}, count' = count + 1
      PROVE  IsFiniteSet(T) /\ Cardinality(T) <= count'
  <2>1. /\ IsFiniteSet(Items \cup {i}) /\ Cardinality(Items \cup {i}) \in Nat
        /\ Cardinality(Items \cup {i}) <= Cardinality(Items) + 1
    BY <1>1, FS_AddElement, FS_CardinalityType
  <2>2. IsFiniteSet(T) /\ Cardinality(T) <= Cardinality(Items \cup {i}) /\ Cardinality(T) \in Nat
    BY <1>3, <2>1, FS_Subset, FS_CardinalityType
  <2> QED
    BY <1>1, <1>3, <2>1, <2>2
<1> QED
  BY <1>2, <1>3

LEMMA LInvPutExtend ==
  ASSUME SInv, LInv, NEW k \in Ptr, NEW v \in Val, PutExtend(k, v)
  PROVE  LInv'
<1>1. /\ Call(k, v) /\ bits' = Extended /\ table' = [b \in Chains(bits') |-> {}]
      /\ rest' = Chained /\ pc' = "rehash" /\ count' = count
  BY DEF PutExtend
<1>2. Items' = Items
  <2>1. rest = {} /\ Chained' = {}
    BY <1>1, SInvCall DEF Chained, Chains
  <2> QED
    BY <1>1, <2>1 DEF Items
<1>3. count \in Nat /\ bits \in Nat
  BY DEF SInv, TypeOK
<1>4. count + 1 <= 2^bits'
  <2>1. CASE count = 0
    BY <1>1, <1>3, <2>1, TwiceAsMany DEF Extended
  <2>2. CASE count # 0
    <3>1. bits' = bits + 1
      BY <1>1, <1>3, <2>2 DEF Extended
    <3> QED
      BY <1>3, <2>2, <3>1, TwiceAsMany DEF LInv
  <2> QED
    BY <2>1, <2>2
<1>5. 2^bits' \in Nat
  BY <1>1, <1>3, TwiceAsMany DEF Extended
<1> QED
  BY <1>1, <1>2, <1>3, <1>4, <1>5 DEF LInv

LEMMA LInvNext == SInv /\ SInv' /\ LInv /\ [Next]_vars => LInv'
<1> SUFFICES ASSUME SInv, SInv', LInv, [Next]_vars PROVE LInv'
  OBVIOUS
<1>1. count \in Nat /\ bits \in Nat /\ count' \in Nat /\ 2^bits \in Nat /\ 1 <= 2^bits
  BY TwiceAsMany DEF SInv, TypeOK
<1>2. ASSUME UNCHANGED <<bits, count>>, Items' \subseteq Items,
             pc' # "idle" => pc # "idle"
      PROVE  LInv'
  BY <1>1, <1>2, Fewer DEF LInv
<1>3. UNCHANGED <<table, rest>> => Items' = Items
  BY DEF Items, Chained
<1>4. ASSUME NEW k \in Ptr, NEW v \in Val, PutPlain(k, v) PROVE LInv'
  <2>1. UNCHANGED <<table, bits, count, rest>> /\ ~(2^bits < count + 1)
    BY <1>4 DEF PutPlain, MustExtend
  <2> QED
    BY <1>1, <1>3, <2>1 DEF LInv
<1>5. ASSUME NEW k \in Ptr, NEW v \in Val, PutExtendFail(k, v) PROVE LInv'
  <2>1. UNCHANGED <<pc, table, count, rest>> /\ bits' = IF Extended > 0 THEN Extended - 1 ELSE 0
    BY <1>5 DEF PutExtendFail
  <2>2. bits' = bits
    BY <1>1, <2>1 DEF Extended, SInv
  <2> QED
    BY <1>2, <1>3, <2>1, <2>2
<1>6. CASE Rehash
  BY <1>2, <1>6, RehashEffect DEF Rehash
<1>7. CASE RehashDone
  BY <1>2, <1>3, <1>7 DEF RehashDone
<1>8. CASE Add
  <2>1. count' = count + 1 /\ pc = "add" /\ pc' = "idle" /\ bits' = bits
    BY <1>8 DEF Add
  <2>2. \E i : Items' \subseteq Items \cup {i}
    BY <1>8, AddEffect DEF Added
  <2>3. IsFiniteSet(Items)' /\ Cardinality(Items)' <= count'
    BY <1>1, <2>1, <2>2, Fewer DEF LInv
  <2> QED
    BY <1>1, <2>1, <2>3 DEF LInv
<1>9. CASE AddFail
  BY <1>2, <1>3, <1>9 DEF AddFail
<1>10. ASSUME NEW k \in Key, Get(k) PROVE LInv'
  BY <1>2, <1>3, <1>10 DEF Get
<1>11. ASSUME NEW k \in Key, Remove(k) \/ Delete(k) PROVE LInv'
  <2>1. Ready /\ UNCHANGED <<pc, bits, count, rest>>
    BY <1>11 DEF Remove, Delete
  <2>2. CASE UNCHANGED table
    BY <1>2, <1>3, <2>1, <2>2
  <2>3. CASE \E i \in FoundFor(k) : table' = Unlinked(k, i)
    <3>1. Filled /\ Bucketed
      BY <2>1, ReadyFilled DEF SInv, Ready
    <3>2. Items' \subseteq Items
      BY <2>1, <2>3, <3>1, UnlinkEffect DEF Items
    <3> QED
      BY <1>2, <2>1, <3>2
  <2> QED
    BY <1>11, <2>2, <2>3 DEF Remove, Delete
<1>12. CASE Clean
  <2>1. table' = NoTable /\ bits' = 0 /\ count' = 0 /\ rest = {} /\ UNCHANGED <<pc, rest>> /\ pc = "idle"
    BY <1>12 DEF Clean, SInv, TypeOK
  <2>2. Items' = {}
    BY <2>1 DEF Items, Chained, NoTable
  <2> QED
    BY <2>1, <2>2, FS_EmptySet, TwiceAsMany DEF LInv
<1>13. CASE UNCHANGED vars
  BY <1>2, <1>3, <1>13 DEF vars
<1> QED
  BY <1>4, <1>5, <1>6, <1>7, <1>8, <1>9, <1>10, <1>11, <1>12, <1>13, LInvPutExtend DEF Next

\* The table never has more items than chains, though removing one does not
\* decrement the count that extend goes by.
THEOREM LoadHolds == Spec => []LoadBounded
<1>1. Init => LInv
  <2> SUFFICES ASSUME Init PROVE LInv
    OBVIOUS
  <2>1. Items = {} /\ count = 0 /\ bits = 0 /\ pc = "idle"
    BY DEF Init, Items, Chained, NoTable
  <2> QED
    BY <2>1, FS_EmptySet, TwiceAsMany DEF LInv
<1>2. SInv /\ LInv => LoadBounded
  <2> SUFFICES ASSUME SInv, LInv, pc = "idle" PROVE Cardinality(Chained) <= 2^bits
    BY DEF LoadBounded
  <2>1. count \in Nat /\ 2^bits \in Nat
    BY TwiceAsMany DEF SInv, TypeOK
  <2>2. Cardinality(Chained) <= Cardinality(Items) /\ Cardinality(Chained) \in Nat
        /\ Cardinality(Items) \in Nat
    BY FS_Subset, FS_CardinalityType DEF Items, LInv
  <2> QED
    BY <2>1, <2>2 DEF LInv
<1> QED
  BY <1>1, <1>2, SInvInit, SInvNext, LInvNext, PTL DEF Spec
=============================================================================
