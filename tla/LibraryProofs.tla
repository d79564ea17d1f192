--------------------------- MODULE LibraryProofs ---------------------------
(***************************************************************************)
(* Theorems about Library: what the heap, its strings, the log, the        *)
(* resolver and the vector promise their programs, and what the older      *)
(* stores do (cleaning up, telling errors, reading and writing, dying, and *)
(* files by path), for every value of the constants.                       *)
(*                                                                         *)
(* A store is changed by its own client only, so the proof of each is one  *)
(* of its own module's invariant under that module's actions.              *)
(***************************************************************************)
EXTENDS Library, FiniteSetTheorems, SequenceTheorems, WellFoundedInduction, TLAPS

-----------------------------------------------------------------------------
(* The heap and its strings. *)

\* Every block is held or lost, and every string is in a block, within it unless
\* something was written where it should not.
HeapInv ==
    /\ DOMAIN heap \subseteq Block
    /\ \A b \in DOMAIN heap : heap[b] \in Nat
    /\ held \cup lost = DOMAIN heap
    /\ held \cap lost = {}
    /\ lost # {} => sloppy
    /\ fault => zeroes
    /\ DOMAIN text \subseteq DOMAIN heap
    /\ \A b \in DOMAIN text : text[b] \in Nat
    /\ wild \/ hung => sloppy
    /\ ~wild => \A b \in DOMAIN text : text[b] < heap[b]
    /\ client = "blocks" => DOMAIN text = {}

\* What malloc and realloc do to it, when the size is the right one.
LEMMA GetsKeeps ==
  ASSUME HeapInv, NEW b, NEW in \in held \cup {NULL}, NEW bytes \in Nat, Gets(b, in, bytes),
         held' = (held \ {in}) \cup {b}, lost' = lost
  PROVE  /\ DOMAIN heap' \subseteq Block
         /\ \A c \in DOMAIN heap' : heap'[c] \in Nat
         /\ held' \cup lost' = DOMAIN heap'
         /\ held' \cap lost' = {}
         /\ \A c \in DOMAIN heap \ {in} : c \in DOMAIN heap' /\ c # b /\ heap'[c] = heap[c]
         /\ b \in DOMAIN heap' /\ heap'[b] = bytes
<1>1. NULL \notin held \cup lost
  BY BlockAssumption DEF HeapInv
<1>2. in \notin lost
  BY <1>1 DEF HeapInv
<1>3. /\ DOMAIN heap' = (DOMAIN heap \ {in}) \cup {b}
      /\ b \in Block /\ b \notin DOMAIN heap \ {in}
      /\ \A c \in DOMAIN heap' : heap'[c] = IF c = b THEN bytes ELSE heap[c]
  BY DEF Gets, Allocated
<1>4. b \notin lost
  BY <1>2, <1>3 DEF HeapInv
<1> QED
  BY <1>2, <1>3, <1>4 DEF HeapInv

\* A block that is freed is the caller's, or none.
LEMMA FreedKeeps ==
  ASSUME HeapInv, NEW in \in held \cup {NULL},
         heap' = [b \in DOMAIN heap \ {in} |-> heap[b]], held' = held \ {in}, lost' = lost
  PROVE  /\ DOMAIN heap' \subseteq Block
         /\ \A c \in DOMAIN heap' : heap'[c] \in Nat
         /\ held' \cup lost' = DOMAIN heap'
         /\ held' \cap lost' = {}
         /\ \A c \in DOMAIN heap \ {in} : c \in DOMAIN heap' /\ heap'[c] = heap[c]
<1>1. in \notin lost
  BY BlockAssumption DEF HeapInv
<1> QED
  BY <1>1 DEF HeapInv

\* A client that has no strings.
LEMMA BlocksKeep ==
  ASSUME HeapInv, client = "blocks", UNCHANGED client, UNCHANGED strings, Next
  PROVE  HeapInv'
<1>0. UNCHANGED <<client, sloppy, libc, text, lost, wild, hung>> /\ DOMAIN text = {}
  BY DEF strings, HeapInv
<1> DEFINE Shaped == /\ DOMAIN heap \subseteq Block
                     /\ \A b \in DOMAIN heap : heap[b] \in Nat
                     /\ held \cup lost = DOMAIN heap
                     /\ held \cap lost = {}
<1>1. Shaped' /\ (fault' => zeroes') => HeapInv'
  BY <1>0 DEF HeapInv
<1>2. ASSUME NEW bytes \in Nat, NEW b, NEW in \in held \cup {NULL}, Gets(b, in, bytes),
             held' = (held \ {in}) \cup {b}
      PROVE  Shaped'
  BY <1>0, <1>2, GetsKeeps
<1>3. ASSUME NEW in \in held \cup {NULL}, heap' = [b \in DOMAIN heap \ {in} |-> heap[b]], held' = held \ {in}
      PROVE  Shaped'
  BY <1>0, <1>3, FreedKeeps
<1>4. UNCHANGED <<heap, held>> => Shaped'
  BY <1>0 DEF HeapInv
<1>5. NULL \notin held /\ held \subseteq DOMAIN heap
  BY BlockAssumption DEF HeapInv
<1> HIDE DEF Shaped
<1>6. ASSUME NEW bytes \in Sizes, Malloc(bytes) \/ MallocNULL(bytes)
      PROVE  HeapInv'
  <2>1. CASE UNCHANGED <<heap, held>>
    BY <1>1, <1>4, <1>6, <2>1 DEF Malloc, MallocNULL, Others, HeapInv
  <2>2. CASE \E b \in Block : Gets(b, NULL, bytes) /\ Return(b)
    <3>1. PICK b \in Block : Gets(b, NULL, bytes) /\ Return(b)
      BY <2>2
    <3>2. held' = (held \ {NULL}) \cup {b} /\ bytes \in Nat
      BY <1>5, <3>1, SizesAssumption DEF Return
    <3> QED
      BY <1>1, <1>2, <1>6, <3>1, <3>2 DEF Malloc, MallocNULL, Others, HeapInv
  <2> QED
    BY <1>6, <2>1, <2>2 DEF Malloc, MallocNULL, ReturnNULL
<1>7. ASSUME NEW bytes \in Sizes, NEW in \in Block \cup {NULL}, Realloc(in, bytes)
      PROVE  HeapInv'
  <2>1. in \in held \cup {NULL} /\ UNCHANGED <<zeroes, fault>> /\ bytes \in Nat
    BY <1>7, SizesAssumption DEF Realloc, Others
  <2>2. CASE \E b \in Block : Gets(b, in, bytes) /\ held' = (held \ {in}) \cup {b}
    BY <1>1, <1>2, <2>1, <2>2 DEF HeapInv
  <2>3. CASE heap' = Left(in, bytes) /\ held' = IF bytes = 0 THEN held \ {in} ELSE held
    BY <1>1, <1>3, <1>4, <2>1, <2>3 DEF Left, Allocated, HeapInv
  <2> QED
    BY <1>7, <2>2, <2>3 DEF Realloc
<1>8. ASSUME NEW in \in Block \cup {NULL}, Free(in)
      PROVE  HeapInv'
  BY <1>1, <1>3, <1>8 DEF Free, Freed, Allocated, Others, HeapInv
<1>9. ASSUME NEW bytes \in Sizes, NEW in \in Block \cup {NULL}, ReallocFree(in, bytes)
      PROVE  HeapInv'
  <2>1. in \in held \cup {NULL} /\ UNCHANGED zeroes /\ bytes \in Nat /\ (bytes = 0 => zeroes)
    BY <1>9, SizesAssumption DEF ReallocFree
  <2>2. CASE (\E b \in Block : Gets(b, in, bytes) /\ held' = (held \ {in}) \cup {b}) /\ UNCHANGED fault
    BY <1>1, <1>2, <2>1, <2>2 DEF HeapInv
  <2>3. CASE /\ heap' = [b \in DOMAIN Left(in, bytes) \ {in} |-> heap[b]]
             /\ fault' = (in \notin DOMAIN Left(in, bytes) \cup {NULL})
             /\ held' = held \ {in}
    <3>1. DOMAIN Left(in, bytes) = IF bytes = 0 THEN DOMAIN heap \ {in} ELSE DOMAIN heap
      BY DEF Left, Allocated
    <3>2. heap' = [b \in DOMAIN heap \ {in} |-> heap[b]]
      BY <2>3, <3>1
    <3>3. fault' => zeroes
      BY <1>5, <2>1, <2>3, <3>1
    <3> QED
      BY <1>1, <1>3, <2>1, <2>3, <3>2, <3>3
  <2> QED
    BY <1>9, <2>2, <2>3 DEF ReallocFree
<1>10. ASSUME NEW bytes \in Nat, NEW in \in held \cup {NULL}, XGets(in, bytes), UNCHANGED <<zeroes, fault>>
       PROVE  HeapInv'
  <2>1. CASE UNCHANGED <<heap, held>>
    BY <1>1, <1>4, <1>10, <2>1 DEF HeapInv
  <2>2. CASE \E b \in Block : Gets(b, in, bytes) /\ held' = (held \ {in}) \cup {b}
    BY <1>1, <1>2, <1>10, <2>2 DEF HeapInv
  <2> QED
    BY <1>10, <2>1, <2>2 DEF XGets
<1>11. ASSUME NEW bytes \in Sizes, XMalloc(bytes) \/ XMallocNULL(bytes)
       PROVE  HeapInv'
  <2>1. bytes \in Nat /\ NULL \in held \cup {NULL}
    BY SizesAssumption
  <2>2. CASE ReturnNULL /\ UNCHANGED <<zeroes, fault>>
    BY <1>1, <1>4, <2>2 DEF ReturnNULL, HeapInv
  <2> QED
    BY <1>10, <1>11, <2>1, <2>2 DEF XMalloc, XMallocNULL
<1>12. ASSUME NEW bytes \in Sizes, NEW in \in Block \cup {NULL}, XRealloc(in, bytes)
       PROVE  HeapInv'
  <2>1. in \in held \cup {NULL} /\ UNCHANGED <<zeroes, fault>> /\ bytes \in Nat
    BY <1>12, SizesAssumption DEF XRealloc
  <2>2. CASE Freed(in) /\ held' = held \ {in}
    BY <1>1, <1>3, <2>1, <2>2 DEF Freed, Allocated, HeapInv
  <2> QED
    BY <1>10, <1>12, <2>1, <2>2 DEF XRealloc
<1> QED
  BY <1>6, <1>7, <1>8, <1>9, <1>11, <1>12 DEF Next

\* A string of n characters in a new block.
LEMMA NewStringKeeps ==
  ASSUME HeapInv, client # "blocks", NEW n \in Nat, NEW len \in Nat, n < len, NEW b,
         Gets(b, NULL, len), Return(b), Holds(b, NULL, n),
         UNCHANGED <<client, sloppy, zeroes, fault, lost, wild>>, hung' => sloppy
  PROVE  HeapInv'
<1>1. NULL \notin DOMAIN heap /\ NULL \notin held
  BY BlockAssumption DEF HeapInv
<1>2. held' = (held \ {NULL}) \cup {b}
  BY <1>1 DEF Return
<1>3. /\ DOMAIN heap' \subseteq Block
      /\ \A c \in DOMAIN heap' : heap'[c] \in Nat
      /\ held' \cup lost' = DOMAIN heap'
      /\ held' \cap lost' = {}
      /\ \A c \in DOMAIN heap \ {NULL} : c \in DOMAIN heap' /\ c # b /\ heap'[c] = heap[c]
      /\ b \in DOMAIN heap' /\ heap'[b] = len
  BY <1>2, GetsKeeps
<1>4. /\ DOMAIN text' = DOMAIN text \cup {b}
      /\ text'[b] = n
      /\ \A c \in DOMAIN text : c # b /\ text'[c] = text[c]
  BY <1>1, <1>3 DEF Holds, HeapInv
<1> QED
  BY <1>1, <1>3, <1>4 DEF HeapInv

LEMMA StrcatKeeps ==
  ASSUME HeapInv, client # "blocks", UNCHANGED client, NEW n \in Nat, NEW orig, StrcatRealloc(orig, n)
  PROVE  HeapInv'
<1>1. /\ orig \in (DOMAIN text \cap held) \cup {NULL}
      /\ orig = NULL => sloppy
      /\ UNCHANGED <<client, sloppy, zeroes, fault, hung>> /\ ~wild /\ ~hung
  BY DEF StrcatRealloc, Going, Steady
<1>2. NULL \notin DOMAIN heap
  BY BlockAssumption DEF HeapInv
<1>3. Strlen(orig) \in Nat
  BY <1>1 DEF HeapInv, Strlen
<1>4. ASSUME NEW b \in Block, Gets(b, orig, Strlen(orig) + n + 1), Appended(b, orig, n)
      PROVE  HeapInv'
  <2>1. PICK old \in (IF orig = NULL THEN {0, 1} ELSE {text[orig]}) :
           Holds(b, orig, old + n) /\ wild' = (old > Strlen(orig))
    BY <1>4 DEF Appended
  <2>2. old \in Nat
    BY <1>1, <2>1 DEF HeapInv
  <2>3. held' = (held \ {orig}) \cup {b} /\ lost' = lost
    BY <1>4 DEF Appended
  <2>4. /\ DOMAIN heap' \subseteq Block
        /\ \A c \in DOMAIN heap' : heap'[c] \in Nat
        /\ held' \cup lost' = DOMAIN heap'
        /\ held' \cap lost' = {}
        /\ \A c \in DOMAIN heap \ {orig} : c \in DOMAIN heap' /\ c # b /\ heap'[c] = heap[c]
        /\ b \in DOMAIN heap' /\ heap'[b] = Strlen(orig) + n + 1
    <3> DEFINE len == Strlen(orig) + n + 1
    <3>1. orig \in held \cup {NULL} /\ len \in Nat /\ Gets(b, orig, len)
      BY <1>1, <1>3, <1>4
    <3> HIDE DEF len
    <3>2. /\ DOMAIN heap' \subseteq Block
          /\ \A c \in DOMAIN heap' : heap'[c] \in Nat
          /\ held' \cup lost' = DOMAIN heap'
          /\ held' \cap lost' = {}
          /\ \A c \in DOMAIN heap \ {orig} : c \in DOMAIN heap' /\ c # b /\ heap'[c] = heap[c]
          /\ b \in DOMAIN heap' /\ heap'[b] = len
      BY <2>3, <3>1, GetsKeeps
    <3> QED
      BY <3>2 DEF len
  <2>5. /\ DOMAIN text' = (DOMAIN text \ {orig}) \cup {b}
        /\ text'[b] = old + n
        /\ \A c \in DOMAIN text \ {orig} : c # b /\ text'[c] = text[c]
    BY <2>1, <2>4 DEF Holds, HeapInv
  <2>6. wild' => sloppy
    <3>1. CASE orig = NULL
      BY <1>1, <3>1
    <3>2. CASE orig # NULL
      <4>1. ~(old > Strlen(orig))
        BY <1>3, <2>1, <2>2, <3>2 DEF Strlen
      <4> QED
        BY <2>1, <4>1, Zenon
    <3> QED
      BY <3>1, <3>2
  <2>7. ~wild' => text'[b] < heap'[b]
    <3> SUFFICES ASSUME ~wild' PROVE text'[b] < heap'[b]
      OBVIOUS
    <3>1. ~(old > Strlen(orig))
      BY <2>1, Zenon
    <3> QED
      BY <1>3, <2>2, <2>4, <2>5, <3>1
  <2> QED
    BY <1>1, <2>2, <2>3, <2>4, <2>5, <2>6, <2>7 DEF HeapInv
<1>5. CASE AppendFailed(orig)
  <2>1. UNCHANGED <<heap, text, wild>>
    BY <1>5 DEF AppendFailed
  <2>2. CASE UNCHANGED <<held, lost>>
    BY <1>1, <2>1, <2>2 DEF HeapInv
  <2>3. CASE sloppy /\ held' = held \ {orig} /\ lost' = lost \cup ({orig} \ {NULL})
    BY <1>1, <1>2, <2>1, <2>3 DEF HeapInv
  <2> QED
    BY <1>5, <2>2, <2>3 DEF AppendFailed
<1>6. CASE NotAppended(orig)
  BY <1>1, <1>6 DEF HeapInv, NotAppended
<1> QED
  BY <1>4, <1>5, <1>6 DEF StrcatRealloc

LEMMA MemcatKeeps ==
  ASSUME HeapInv, client # "blocks", UNCHANGED client, NEW n \in Nat, NEW a, MemcatRealloc(a, n)
  PROVE  HeapInv'
<1> DEFINE bytes == n + IF a = NULL THEN 0 ELSE heap[a]
<1>1. /\ a \in (held \ DOMAIN text) \cup {NULL} /\ Realloc(a, bytes)
      /\ UNCHANGED <<client, sloppy, text, lost, wild, hung>>
  BY DEF MemcatRealloc, strings
<1>2. UNCHANGED <<zeroes, fault>> /\ bytes \in Nat /\ a \in held \cup {NULL}
  BY <1>1 DEF Realloc, Others, HeapInv
<1>3. a \notin DOMAIN text
  BY <1>1, BlockAssumption DEF HeapInv
<1> HIDE DEF bytes
<1>4. CASE \E b \in Block : Gets(b, a, bytes) /\ held' = (held \ {a}) \cup {b}
  <2>1. PICK b \in Block : Gets(b, a, bytes) /\ held' = (held \ {a}) \cup {b}
    BY <1>4
  <2>2. /\ DOMAIN heap' \subseteq Block
        /\ \A c \in DOMAIN heap' : heap'[c] \in Nat
        /\ held' \cup lost' = DOMAIN heap'
        /\ held' \cap lost' = {}
        /\ \A c \in DOMAIN heap \ {a} : c \in DOMAIN heap' /\ c # b /\ heap'[c] = heap[c]
    BY <1>1, <1>2, <2>1, GetsKeeps
  <2> QED
    BY <1>1, <1>2, <1>3, <2>2 DEF HeapInv
<1>5. CASE heap' = Left(a, bytes) /\ held' = IF bytes = 0 THEN held \ {a} ELSE held
  <2>1. CASE bytes = 0
    <3>1. /\ DOMAIN heap' \subseteq Block
          /\ \A c \in DOMAIN heap' : heap'[c] \in Nat
          /\ held' \cup lost' = DOMAIN heap'
          /\ held' \cap lost' = {}
          /\ \A c \in DOMAIN heap \ {a} : c \in DOMAIN heap' /\ heap'[c] = heap[c]
      BY <1>1, <1>2, <1>5, <2>1, FreedKeeps DEF Left, Allocated
    <3> QED
      BY <1>1, <1>2, <1>3, <3>1 DEF HeapInv
  <2>2. CASE bytes # 0
    BY <1>1, <1>2, <1>5, <2>2 DEF Left, HeapInv
  <2> QED
    BY <2>1, <2>2
<1> QED
  BY <1>1, <1>4, <1>5 DEF Realloc

\* The calls that make a string or leave everything.
LEMMA MakersKeep ==
  ASSUME HeapInv, client # "blocks", UNCHANGED client, NEW n \in Nat, NEW empty, NEW impossible,
         Barename(n) \/ Fullpath \/ VsprintfMalloc(empty, impossible, n)
  PROVE  HeapInv'
<1>1. ASSUME NEW k \in Nat, NewString(k), UNCHANGED <<sloppy, zeroes, fault, lost, wild, hung>>
      PROVE  HeapInv'
  <2>1. PICK b \in Block : Gets(b, NULL, k + 1) /\ Return(b) /\ Holds(b, NULL, k)
    BY <1>1 DEF NewString
  <2>2. hung' => sloppy
    BY <1>1 DEF HeapInv
  <2> QED
    BY <1>1, <2>1, <2>2, NewStringKeeps
<1>2. CASE Nothing /\ UNCHANGED <<sloppy, zeroes, fault, lost, wild, hung>>
  BY <1>2 DEF Nothing, ReturnNULL, HeapInv
<1>3. CASE Barename(n)
  BY <1>1, <1>2, <1>3 DEF Barename, Steady
<1>4. CASE Fullpath
  BY <1>2, <1>4 DEF Fullpath, Steady
<1>5. CASE VsprintfMalloc(empty, impossible, n)
  <2>1. /\ UNCHANGED <<sloppy, zeroes, fault, lost, wild>>
        /\ empty \/ impossible => sloppy
        /\ empty => n = 0
    BY <1>5 DEF VsprintfMalloc, Steady
  <2>2. CASE FindLenHangs(empty, impossible) /\ UNCHANGED <<heap, held, ret, text>>
    BY <2>1, <2>2, <1>5 DEF FindLenHangs, HeapInv
  <2>3. ASSUME NEW len \in FindLen(empty, n), NEW b \in Block,
               Gets(b, NULL, len), Return(b), Holds(b, NULL, n), UNCHANGED hung
        PROVE  HeapInv'
    <3>1. len \in Nat /\ n < len
      BY <2>1, <2>3, MaxLenAssumption DEF FindLen
    <3>2. hung' => sloppy
      BY <2>3 DEF HeapInv
    <3> QED
      BY <2>1, <2>3, <3>1, <3>2, NewStringKeeps
  <2> QED
    BY <1>2, <1>5, <2>1, <2>2, <2>3 DEF VsprintfMalloc
<1> QED
  BY <1>3, <1>4, <1>5

LEMMA CuttersKeep ==
  ASSUME HeapInv, client # "blocks", UNCHANGED client, NEW s \in Block,
         Chomp(s) \/ Strchomp(s) \/ FreeString(s)
  PROVE  HeapInv'
<1>1. ASSUME s \in DOMAIN text, NEW n \in 0..text[s], Holds(s, s, n),
             UNCHANGED <<sloppy, zeroes, fault, heap, held, lost, wild, hung>>
      PROVE  HeapInv'
  <2>1. text[s] \in Nat /\ n \in Nat /\ n <= text[s]
    BY <1>1 DEF HeapInv
  <2>2. /\ DOMAIN text' = DOMAIN text
        /\ \A c \in DOMAIN text : text'[c] = IF c = s THEN n ELSE text[c]
    BY <1>1 DEF Holds
  <2> QED
    BY <1>1, <2>1, <2>2 DEF HeapInv
<1>2. CASE Chomp(s)
  BY <1>1, <1>2 DEF Chomp, Steady
<1>3. CASE Strchomp(s)
  <2>1. /\ s \in DOMAIN text /\ text[s] \in Nat /\ (text[s] = 0 => sloppy)
        /\ UNCHANGED <<sloppy, zeroes, fault, heap, held, lost, hung>>
    BY <1>3 DEF Strchomp, Steady, HeapInv
  <2>2. CASE \E n \in {text[s], text[s] - 1} : Holds(s, s, n) /\ UNCHANGED wild /\ text[s] > 0
    BY <1>1, <2>1, <2>2
  <2>3. CASE text[s] = 0 /\ wild' = TRUE /\ UNCHANGED text
    BY <2>1, <2>3 DEF HeapInv
  <2> QED
    BY <1>3, <2>2, <2>3 DEF Strchomp
<1>4. CASE FreeString(s)
  <2>1. /\ s \in held /\ heap' = [b \in DOMAIN heap \ {s} |-> heap[b]] /\ held' = held \ {s}
        /\ text' = [b \in DOMAIN text \ {s} |-> text[b]]
        /\ UNCHANGED <<sloppy, zeroes, fault, lost, wild, hung>>
    BY <1>4 DEF FreeString, Free, Freed, Allocated, Others
  <2>2. /\ DOMAIN heap' \subseteq Block
        /\ \A c \in DOMAIN heap' : heap'[c] \in Nat
        /\ held' \cup lost' = DOMAIN heap'
        /\ held' \cap lost' = {}
        /\ \A c \in DOMAIN heap \ {s} : c \in DOMAIN heap' /\ heap'[c] = heap[c]
    BY <2>1, FreedKeeps
  <2> QED
    BY <2>1, <2>2 DEF HeapInv
<1> QED
  BY <1>2, <1>3, <1>4

LEMMA HeapInvHolds == LibSpec => []HeapInv
<1>1. LibInit => HeapInv
  BY DEF LibInit, Init, StringsInit, HeapInv
<1>2. HeapInv /\ [LibNext]_libVars => HeapInv'
  <2> SUFFICES ASSUME HeapInv, [LibNext]_libVars PROVE HeapInv'
    OBVIOUS
  <2>1. CASE client = "blocks" /\ UNCHANGED client /\ Next /\ UNCHANGED strings
    BY <2>1, BlocksKeep
  <2>2. CASE client # "blocks" /\ UNCHANGED client /\ StringsNext
    <3>1. 0..MaxLen \subseteq Nat
      BY MaxLenAssumption
    <3> QED
      BY <2>2, <3>1, StrcatKeeps, MemcatKeeps, MakersKeep, CuttersKeep DEF StringsNext
  <2>3. CASE UNCHANGED <<client, vars, strings>>
    BY <2>3 DEF vars, strings, HeapInv
  <2> QED
    BY <2>1, <2>2, <2>3 DEF LibNext, libVars
<1> QED
  BY <1>1, <1>2, PTL DEF LibSpec

\* Every block is the callers', or is the string of a caller that overwrote its only
\* pointer, and none is freed twice, whatever is asked of a/mem.c and a/util.c in
\* whatever order.
THEOREM BlocksAccounted == LibSpec => []Accounted
<1>1. HeapInv => Accounted
  BY DEF HeapInv, Accounted, Allocated
<1> QED
  BY <1>1, HeapInvHolds, PTL

\* Every string and its terminator are within their block, of whatever length.
THEOREM StringsAreFit == LibSpec => []StringsFit
<1>1. HeapInv => StringsFit
  BY DEF HeapInv, StringsFit, Allocated
<1> QED
  BY <1>1, HeapInvHolds, PTL

-----------------------------------------------------------------------------
(* The log. *)

\* A program that pairs its starts and cleanups has, while its log lives, the
\* pointers that the cleanup of its type closes.
LogInv ==
    /\ target \in {"unix", "win32"}
    /\ paired \in BOOLEAN
    /\ live \in BOOLEAN
    /\ L!LogSafe
    /\ paired /\ live =>
          /\ type = "file" => slot = "file"
          /\ type = "syslog" /\ target = "win32" => slot = "name" /\ handle = "open"

LEMMA LogStarts ==
  ASSUME LogInv, L!InitSyslog \/ L!InitStderr \/ L!InitNull \/ L!InitFile
  PROVE  LogInv'
<1>1. CASE L!InitSyslog
  BY <1>1 DEF LogInv, L!LogSafe, L!InitSyslog, L!Starts, L!Started
<1>2. CASE L!InitStderr
  BY <1>2 DEF LogInv, L!LogSafe, L!InitStderr, L!Starts, L!Started
<1>3. CASE L!InitNull
  BY <1>3 DEF LogInv, L!LogSafe, L!InitNull, L!Starts, L!Started
<1>4. CASE L!InitFile
  BY <1>4 DEF LogInv, L!LogSafe, L!InitFile, L!Starts, L!Started
<1> QED
  BY <1>1, <1>2, <1>3, <1>4

LEMMA LogEnds == ASSUME LogInv, L!Cleanup PROVE LogInv'
<1>1. UNCHANGED <<target, paired>> /\ live' = FALSE /\ sent' = "none" /\ bad = "nothing"
  BY DEF L!Cleanup
<1>2. paired => live
  BY DEF L!Cleanup
<1>3. CASE type = "syslog" /\ L!CleanupSyslog
  BY <1>1, <1>2, <1>3 DEF LogInv, L!LogSafe, L!CleanupSyslog
<1>4. CASE type = "file" /\ L!CleanupFile
  BY <1>1, <1>2, <1>4 DEF LogInv, L!LogSafe, L!CleanupFile
<1>5. CASE UNCHANGED bad
  BY <1>1, <1>5 DEF LogInv, L!LogSafe
<1> QED
  BY <1>3, <1>4, <1>5 DEF L!Cleanup

LEMMA LogWrites == ASSUME LogInv, L!LogStr \/ L!Log \/ L!LogError PROVE LogInv'
<1>1. UNCHANGED <<target, paired, type, slot, handle, live>> /\ bad = "nothing"
  BY DEF L!LogStr, L!Log, L!LogError, L!Writes
<1>2. CASE L!LogStr
  BY <1>1, <1>2 DEF LogInv, L!LogSafe, L!LogStr, L!ToStderr, L!Told, L!Sent
<1>3. CASE L!Log
  BY <1>1, <1>3 DEF LogInv, L!LogSafe, L!Log, L!LogEvent, L!ToStderr, L!Told, L!Sent
<1>4. CASE L!LogError
  BY <1>1, <1>2, <1>4 DEF LogInv, L!LogSafe, L!LogError, L!Told, L!Sent
<1> QED
  BY <1>2, <1>3, <1>4

\* A program that starts a log only when it has none, and writes to it and cleans
\* it up only when that worked, closes and frees everything once, whatever fails.
THEOREM LogIsSafe == LibSpec => []LogSafe
<1>1. LibInit => LogInv
  BY DEF LibInit, L!Init, LogInv, L!LogSafe
<1>2. LogInv /\ [LibNext]_libVars => LogInv'
  <2> SUFFICES ASSUME LogInv, [LibNext]_libVars PROVE LogInv'
    OBVIOUS
  <2>1. CASE L!Next
    BY <2>1, LogStarts, LogEnds, LogWrites DEF L!Next
  <2>2. CASE UNCHANGED log
    BY <2>2 DEF log, LogInv, L!LogSafe
  <2> QED
    BY <2>1, <2>2 DEF LibNext, libVars
<1>3. LogInv => LogSafe
  BY DEF LogInv, LogSafe
<1> QED
  BY <1>1, <1>2, <1>3, PTL DEF LibSpec

-----------------------------------------------------------------------------
(* The resolver. *)

\* After one "small" the reported length is the name's, and a buffer that is two
\* larger is taken.
ResolveInv ==
    /\ name \in Nat /\ slack \in Nat /\ buf \in Nat /\ outlen \in Nat
    /\ room \in Nat /\ used \in Nat /\ tries \in Nat
    /\ used <= room
    /\ answer = "none" => outlen = buf
    /\ slack >= 2 /\ name # 0 =>
          /\ tries <= 1
          /\ tries = 0 => answer # "small"
          /\ tries = 1 /\ answer = "small" => outlen = name
          /\ tries = 1 /\ answer = "none" => buf >= name + 2

LEMMA ResolveAnswers ==
  ASSUME ResolveInv, R!Reverse
  PROVE  ResolveInv'
<1>1. UNCHANGED <<orip, name, slack, buf>> /\ answer = "none" /\ outlen = buf
  BY DEF R!Reverse, ResolveInv
<1>2. CASE name # 0 /\ R!Named
  BY <1>1, <1>2 DEF ResolveInv, R!Named, R!Writes, R!Unwritten, R!Answers
<1>3. CASE name = 0 /\ R!InetNtoa
  BY <1>1, <1>3 DEF ResolveInv, R!InetNtoa, R!Writes, R!Unwritten, R!Answers, R!Quad
<1>4. CASE UNCHANGED outlen /\ R!Unwritten("error")
  BY <1>1, <1>4 DEF ResolveInv, R!Unwritten, R!Answers
<1> QED
  BY <1>2, <1>3, <1>4 DEF R!Reverse, R!ReverseResolve, R!ReverseResolveOrIp

\* A buffer two larger than the reported length is never refused, for any name
\* and whatever the caller began with, and no name is written beyond its end.
THEOREM RetrySucceeds == LibSpec => []RetryHelps
<1>1. LibInit => ResolveInv
  BY ResolverAssumption DEF LibInit, R!Init, ResolveInv
<1>2. ResolveInv /\ [LibNext]_libVars => ResolveInv'
  <2> SUFFICES ASSUME ResolveInv, [LibNext]_libVars PROVE ResolveInv'
    OBVIOUS
  <2>1. CASE R!Reverse
    BY <2>1, ResolveAnswers
  <2>2. CASE R!Retry
    BY <2>2, ResolverAssumption DEF ResolveInv, R!Retry
  <2>3. CASE R!Forward
    BY <2>3 DEF ResolveInv, R!Forward, R!InetAton, R!Answers
  <2>4. CASE UNCHANGED resolve
    BY <2>4 DEF resolve, ResolveInv
  <2> QED
    BY <2>1, <2>2, <2>3, <2>4 DEF LibNext, libVars, R!Next
<1>3. ResolveInv => RetryHelps
  BY DEF ResolveInv, RetryHelps, R!RetryHelps
<1> QED
  BY <1>1, <1>2, <1>3, PTL DEF LibSpec

-----------------------------------------------------------------------------
(* Cleaning up. *)

\* What is open is yet to be tried while a_clean works, and nothing is open once it
\* has returned; it has failed when there is something it could not close.
CleanInv ==
    /\ resource \in [Resource -> {"open", "closed", "unsure"}]
    /\ stack \in Seq(Code)
    /\ mallocError \in BOOLEAN
    /\ cstatus \in {"none", "good", "error"}
    /\ cstatus = "error" <=> \E r \in Resource : resource[r] = "unsure"
    /\ epc # "clean" /\ cstatus # "none" => \A r \in Resource : resource[r] # "open"
    /\ epc = "add" => todo \in Seq(Code) /\ todo # <<>>
    /\ epc = "clean" =>
          /\ cstatus # "none"
          /\ todo \in Seq(Resource) /\ todo # <<>>
          /\ \A r \in Resource : resource[r] = "open" => \E k \in 1..Len(todo) : todo[k] = r
          /\ cstatus = "error" => mallocError = TRUE \/ stack # <<>>

LEMMA AddItemKeeps ==
  ASSUME stack \in Seq(Code), mallocError \in BOOLEAN, NEW code \in Code, E!AddItem(code)
  PROVE  /\ stack' \in Seq(Code) /\ mallocError' \in BOOLEAN
         /\ code # 0 => mallocError' = TRUE \/ stack' # <<>>
<1>1. <<code>> \o stack \in Seq(Code) /\ <<code>> \o stack # <<>> /\ <<>> \in Seq(Code)
  OBVIOUS
<1> QED
  BY <1>1, Zenon DEF E!AddItem

\* The arguments of a_clean are every resource, once.
LEMMA AllAreGiven ==
  ASSUME NEW s \in E!SetToSeqs(Resource)
  PROVE  /\ s \in Seq(Resource) /\ s # <<>>
         /\ \A r \in Resource : \E k \in 1..Len(s) : s[k] = r
<1> DEFINE n == Cardinality(Resource)
<1>1. n \in Nat /\ n # 0
  BY ResourceAssumption, FS_CardinalityType, FS_EmptySet
<1>2. s \in [1..n -> Resource] /\ \A i, j \in 1..n : i # j => s[i] # s[j]
  BY DEF E!SetToSeqs, E!Cardinality, Cardinality
<1>3. s \in Injection(1..n, Resource)
  BY <1>2 DEF Injection, IsInjective
<1>4. Cardinality(1..n) = n
  BY <1>1, FS_Interval
<1>5. s \in Surjection(1..n, Resource)
  BY <1>3, <1>4, FS_Injection, ResourceAssumption
<1>6. \A r \in Resource : \E k \in 1..n : s[k] = r
  BY <1>5 DEF Surjection
<1> HIDE DEF n
<1>7. s \in Seq(Resource) /\ Len(s) = n
  BY <1>1, <1>2
<1> QED
  BY <1>1, <1>6, <1>7

LEMMA AddKeeps == ASSUME CleanInv, E!Add PROVE CleanInv'
<1>1. epc = "add" /\ todo \in Seq(Code) /\ todo # <<>> /\ stack \in Seq(Code)
  BY DEF CleanInv, E!Add
<1>2. Head(todo) \in Code /\ Tail(todo) \in Seq(Code)
  BY <1>1
<1>3. stack' \in Seq(Code) /\ mallocError' \in BOOLEAN
  BY <1>1, <1>2, AddItemKeeps DEF CleanInv, E!Add
<1>4. /\ epc' \in {"idle", "add"} /\ UNCHANGED <<resource, cstatus>>
      /\ epc' = "add" => todo' # <<>> /\ todo' = Tail(todo)
  BY DEF E!Add
<1> QED
  BY <1>1, <1>2, <1>3, <1>4 DEF CleanInv

LEMMA CleanStepKeeps == ASSUME CleanInv, E!Clean PROVE CleanInv'
<1> DEFINE r == Head(todo)
<1>1. epc = "clean" /\ todo \in Seq(Resource) /\ todo # <<>> /\ stack \in Seq(Code)
  BY DEF CleanInv, E!Clean
<1>2. r \in Resource /\ Tail(todo) \in Seq(Resource)
  BY <1>1
<1>3. /\ todo' = Tail(todo) /\ epc' \in {"idle", "clean"}
      /\ epc' = "clean" <=> Tail(todo) # <<>>
  BY DEF E!Clean
<1>4. /\ resource' \in [Resource -> {"open", "closed", "unsure"}] /\ resource'[r] # "open"
      /\ \A q \in Resource \ {r} : resource'[q] = resource[q]
      /\ stack' \in Seq(Code) /\ mallocError' \in BOOLEAN
      /\ cstatus' \in {"good", "error"}
      /\ cstatus' = "error" <=> \E q \in Resource : resource'[q] = "unsure"
      /\ cstatus' = "error" => mallocError' = TRUE \/ stack' # <<>>
  <2> HIDE DEF r
  <2>1. CASE resource[r] # "open" /\ E!Status(TRUE) /\ UNCHANGED <<resource, stack, mallocError>>
    BY <1>1, <1>2, <2>1 DEF CleanInv, E!Status
  <2>2. CASE /\ resource[r] = "open" /\ resource' = [resource EXCEPT ![r] = "closed"] /\ E!Status(TRUE)
             /\ UNCHANGED <<stack, mallocError>>
    BY <1>1, <1>2, <2>2 DEF CleanInv, E!Status
  <2>3. CASE /\ resource[r] = "open" /\ resource' = [resource EXCEPT ![r] = "unsure"] /\ E!Status(FALSE)
             /\ IF mallocError
                THEN UNCHANGED <<stack, mallocError>>
                ELSE \E code \in Code \ {0} : E!AddItem(code)
    <3>1. cstatus' = "error"
      BY <2>3 DEF E!Status
    <3>2. /\ resource' \in [Resource -> {"open", "closed", "unsure"}] /\ resource'[r] = "unsure"
          /\ \A q \in Resource \ {r} : resource'[q] = resource[q]
      BY <1>2, <2>3 DEF CleanInv
    <3>3. ASSUME NEW code \in Code \ {0}, E!AddItem(code)
          PROVE  /\ stack' \in Seq(Code) /\ mallocError' \in BOOLEAN
                 /\ mallocError' = TRUE \/ stack' # <<>>
      BY <1>1, <3>3, AddItemKeeps DEF CleanInv
    <3>4. /\ stack' \in Seq(Code) /\ mallocError' \in BOOLEAN
          /\ mallocError' = TRUE \/ stack' # <<>>
      <4>1. CASE mallocError
        <5>1. UNCHANGED <<stack, mallocError>> /\ mallocError = TRUE
          BY <2>3, <4>1, Zenon DEF CleanInv
        <5> QED
          BY <1>1, <5>1
      <4>2. CASE ~mallocError
        BY <2>3, <3>3, <4>2, Zenon
      <4> QED
        BY <4>1, <4>2
    <3> QED
      BY <1>2, <3>1, <3>2, <3>4
  <2> QED
    BY <2>1, <2>2, <2>3 DEF E!Clean, r
<1>5. \A q \in Resource : resource'[q] = "open" => \E k \in 1..Len(Tail(todo)) : Tail(todo)[k] = q
  <2> SUFFICES ASSUME NEW q \in Resource, resource'[q] = "open"
               PROVE  \E k \in 1..Len(Tail(todo)) : Tail(todo)[k] = q
    OBVIOUS
  <2>1. q # r /\ resource[q] = "open"
    BY <1>4
  <2>2. PICK k \in 1..Len(todo) : todo[k] = q
    BY <1>1, <2>1 DEF CleanInv
  <2>3. k # 1 /\ Len(todo) \in Nat
    BY <1>1, <2>1, <2>2
  <2>4. k - 1 \in 1..Len(Tail(todo)) /\ Tail(todo)[k - 1] = todo[k]
    BY <1>1, <2>2, <2>3
  <2> QED
    BY <2>2, <2>4
<1>6. Tail(todo) = <<>> => \A q \in Resource : resource'[q] # "open"
  <2> SUFFICES ASSUME Tail(todo) = <<>>, NEW q \in Resource, resource'[q] = "open"
               PROVE  FALSE
    OBVIOUS
  <2>1. PICK k \in 1..Len(Tail(todo)) : Tail(todo)[k] = q
    BY <1>5
  <2>2. Len(Tail(todo)) = 0
    OBVIOUS
  <2> QED
    BY <2>1, <2>2
<1> HIDE DEF r
<1> QED
  BY <1>2, <1>3, <1>4, <1>5, <1>6 DEF CleanInv

LEMMA CleanInvHolds == LibSpec => []CleanInv
<1>1. LibInit => CleanInv
  <2> SUFFICES ASSUME E!Init PROVE CleanInv
    BY DEF LibInit, OldInit
  <2>1. <<>> \in Seq(Code)
    OBVIOUS
  <2> QED
    BY <2>1 DEF E!Init, CleanInv
<1>2. CleanInv /\ [LibNext]_libVars => CleanInv'
  <2> SUFFICES ASSUME CleanInv, [LibNext]_libVars PROVE CleanInv'
    OBVIOUS
  <2>1. ASSUME NEW codes \in E!BoundedSeq(Code, 2), codes # <<>>, E!AddVargs(codes)
        PROVE  CleanInv'
    <3>1. PICK m \in 0..2 : codes \in [1..m -> Code]
      BY DEF E!BoundedSeq, E!SeqOf
    <3>2. codes \in Seq(Code)
      BY <3>1
    <3> QED
      BY <2>1, <3>2 DEF CleanInv, E!AddVargs
  <2>2. CASE E!Add
    BY <2>2, AddKeeps
  <2>3. CASE E!Str \/ E!Clear
    <3>1. /\ UNCHANGED <<resource, cstatus, mallocError>> /\ epc = "idle" /\ epc' = "idle"
          /\ stack' = <<>> /\ <<>> \in Seq(Code)
      BY <2>3 DEF E!Str, E!Clear
    <3> QED
      BY <3>1 DEF CleanInv
  <2>4. ASSUME NEW resources \in E!SetToSeqs(Resource), E!CleanVargs(resources)
        PROVE  CleanInv'
    BY <2>4, AllAreGiven DEF CleanInv, E!CleanVargs
  <2>5. CASE E!Clean
    BY <2>5, CleanStepKeeps
  <2>6. CASE E!Open
    BY <2>6 DEF CleanInv, E!Open
  <2>7. CASE UNCHANGED errors
    BY <2>7 DEF CleanInv, errors
  <2> QED
    BY <2>1, <2>2, <2>3, <2>4, <2>5, <2>6, <2>7 DEF LibNext, OldNext, libVars, oldVars, E!Next
<1> QED
  BY <1>1, <1>2, PTL DEF LibSpec

\* a_clean tries everything, whatever fails, and returns an error exactly when
\* something failed; then there is an error on the stack, or there was no memory.
THEOREM TriesEverything == LibSpec => []CleanTells
<1>1. CleanInv => CleanTells
  BY DEF CleanInv, CleanTells, E!CleanTells
<1> QED
  BY <1>1, CleanInvHolds, PTL

-----------------------------------------------------------------------------
(* Reading and writing. *)

\* The greatest number of a set.
LEMMA MaxIs ==
    ASSUME NEW S \in SUBSET Int, NEW x \in S, \A y \in S : y <= x
    PROVE  F!Max(S) = x
<1>1. PICK m : m = CHOOSE z \in S : \A y \in S : z >= y
  OBVIOUS
<1>2. \E z \in S : \A y \in S : z >= y
  OBVIOUS
<1>3. m \in S /\ \A y \in S : m >= y
  BY <1>1, <1>2, Zenon
<1>4. m = x
  BY <1>3
<1> QED
  BY <1>1, <1>4 DEF F!Max

\* What flail begins with.
Unflailed(args) == [closed |-> {}, freed |-> {}, deleted |-> {}, args |-> args]
\* flail of two letters does the one, and then the other.
LEMMA FlailTwo ==
    ASSUME NEW l, NEW m, NEW args
    PROVE  F!Flail(<<l, m>>, args) = F!Letter(F!Letter(Unflailed(args), l), m)
<1> DEFINE two == <<l, m>>
           base == Unflailed(args)
           Like(g) == g = [s \in SUBSET (DOMAIN two) |->
                             IF s = {} THEN base ELSE F!Letter(g[s \ {F!Max(s)}], two[F!Max(s)])]
           f == CHOOSE g : Like(g)
           Folded == [s \in SUBSET (DOMAIN two) |->
                   IF s = {} THEN base
                   ELSE IF s = {1} THEN F!Letter(base, l)
                   ELSE IF s = {2} THEN F!Letter(base, m)
                   ELSE F!Letter(F!Letter(base, l), m)]
<1>1. F!Flail(two, args) = f[DOMAIN two]
  BY DEF F!Flail, F!FoldLeft, F!MapThenFoldSet, Unflailed
<1>2. DOMAIN two = {1, 2} /\ two[1] = l /\ two[2] = m
  OBVIOUS
<1>3. F!Max({1}) = 1 /\ F!Max({2}) = 2 /\ F!Max({1, 2}) = 2
  <2>1. F!Max({1}) = 1
    BY MaxIs
  <2>2. F!Max({2}) = 2
    BY MaxIs
  <2>3. F!Max({1, 2}) = 2
    BY MaxIs
  <2> QED
    BY <2>1, <2>2, <2>3
<1>4. \A s \in SUBSET {1, 2} : s = {} \/ s = {1} \/ s = {2} \/ s = {1, 2}
  OBVIOUS
<1> HIDE DEF two, base
<1>5. Like(Folded)
  <2> SUFFICES ASSUME NEW s \in SUBSET (DOMAIN two)
               PROVE  Folded[s] = IF s = {} THEN base ELSE F!Letter(Folded[s \ {F!Max(s)}], two[F!Max(s)])
    OBVIOUS
  <2>1. Folded[{}] = base /\ Folded[{1}] = F!Letter(base, l) /\ Folded[{2}] = F!Letter(base, m)
    BY <1>2
  <2>2. Folded[{1, 2}] = F!Letter(Folded[{1}], m)
    BY <1>2
  <2>3. {1} \ {1} = {} /\ {2} \ {2} = {} /\ {1, 2} \ {2} = {1}
    OBVIOUS
  <2> HIDE DEF Folded
  <2> QED
    BY <1>2, <1>3, <1>4, <2>1, <2>2, <2>3
<1>6. Like(f)
  <2> HIDE DEF Like
  <2> QED
    BY <1>5
<1> HIDE DEF f
<1>7. f[{}] = base /\ f[{1}] = F!Letter(f[{}], l) /\ f[{1, 2}] = F!Letter(f[{1}], m)
  <2>1. {1} \ {1} = {} /\ {1, 2} \ {2} = {1} /\ {1} # {} /\ {1, 2} # {}
    OBVIOUS
  <2> QED
    BY <1>2, <1>3, <1>6, <2>1
<1> QED
  BY <1>1, <1>2, <1>7 DEF two, base
\* As long as no write failed, what arrived is the text up to the position that
\* was written to last.
WriteInv ==
    /\ wpc \in {"idle", "loop", "done"}
    /\ werrors \in Nat
    /\ wpc = "idle" => wtmp = 0 /\ wlen = Length /\ stream = <<>> /\ werrors = 0
    /\ wpc # "done" => wret = "none"
    /\ wpc = "loop" => wtmp \in Int /\ wlen \in Int /\ writelen \in Int
    /\ wpc = "loop" /\ werrors = 0 => /\ wtmp \in Nat /\ writelen \in 0..wlen
                                      /\ writelen = 0 => wlen = 0
                                      /\ wtmp + wlen = Length
                                      /\ stream = F!From(1, wtmp + writelen)
    /\ wret = "success" /\ werrors = 0 => stream = F!From(1, Length)
    /\ wret = "error" => stream = <<>>

LEMMA FromIs ==
    ASSUME NEW i \in Int, NEW k \in Nat
    PROVE  /\ F!From(i, k) \in Seq(Int) /\ Len(F!From(i, k)) = k
           /\ \A j \in 1..k : F!From(i, k)[j] = i + j - 1
BY DEF F!From

\* Two parts that are each what r is there make r.
LEMMA ConcatIs ==
    ASSUME NEW S, NEW p \in Seq(S), NEW q \in Seq(S), NEW r \in Seq(S), Len(p) + Len(q) = Len(r),
           \A k \in 1..Len(p) : p[k] = r[k], \A k \in 1..Len(q) : q[k] = r[Len(p) + k]
    PROVE  p \o q = r
<1>1. p \o q \in Seq(S) /\ Len(p \o q) = Len(r)
  OBVIOUS
<1>2. ASSUME NEW k \in 1..Len(r) PROVE (p \o q)[k] = r[k]
  <2>1. CASE k \in 1..Len(p)
    BY <2>1
  <2>2. CASE k \notin 1..Len(p)
    <3>1. k - Len(p) \in 1..Len(q) /\ k = Len(p) + (k - Len(p))
      BY <2>2
    <3>2. (p \o q)[k] = q[k - Len(p)]
      BY <2>2, <3>1
    <3> QED
      BY <3>1, <3>2
  <2> QED
    BY <2>1, <2>2
<1> DEFINE t == p \o q
<1> HIDE DEF t
<1>3. t \in Seq(S) /\ Len(t) = Len(r) /\ \A k \in 1..Len(t) : t[k] = r[k]
  BY <1>1, <1>2 DEF t
<1>4. t = r
  BY <1>3, SeqEqual
<1> QED
  BY <1>4 DEF t

LEMMA FromFrom ==
    ASSUME NEW m \in Nat, NEW n \in Nat
    PROVE  F!From(1, m) \o F!From(m + 1, n) = F!From(1, m + n)
<1> DEFINE p == F!From(1, m)
           q == F!From(m + 1, n)
           r == F!From(1, m + n)
<1>1. p \in Seq(Int) /\ Len(p) = m /\ \A j \in 1..m : p[j] = 1 + j - 1
  BY FromIs
<1>2. q \in Seq(Int) /\ Len(q) = n /\ \A j \in 1..n : q[j] = (m + 1) + j - 1
  BY FromIs
<1>3. r \in Seq(Int) /\ Len(r) = m + n /\ \A j \in 1..(m + n) : r[j] = 1 + j - 1
  <2>1. m + n \in Nat /\ 1 \in Int
    OBVIOUS
  <2>2. \A l \in Nat : /\ F!From(1, l) \in Seq(Int) /\ Len(F!From(1, l)) = l
                       /\ \A j \in 1..l : F!From(1, l)[j] = 1 + j - 1
    BY <2>1, FromIs, Zenon
  <2> QED
    BY <2>1, <2>2, Zenon
<1> HIDE DEF p, q, r
<1>4. Len(p) + Len(q) = Len(r)
  BY <1>1, <1>2, <1>3
<1>5. \A k \in 1..Len(p) : p[k] = r[k]
  BY <1>1, <1>3
<1>6. \A k \in 1..Len(q) : q[k] = r[Len(p) + k]
  BY <1>1, <1>2, <1>3
<1>7. p \o q = r
  BY <1>1, <1>2, <1>3, <1>4, <1>5, <1>6, ConcatIs
<1> QED
  BY <1>7 DEF p, q, r

LEMMA WriteStep ==
    ASSUME WriteInv, F!WriteFirst \/ F!WriteNext \/ F!WriteEnds
    PROVE  WriteInv'
<1>1. CASE F!WriteFirst
  <2>1. /\ wpc = "idle" /\ wtmp = 0 /\ wlen = Length /\ stream = <<>> /\ werrors = 0 /\ wret = "none"
        /\ wtmp' = 0 /\ wlen' = Length /\ werrors' = 0
    BY <1>1 DEF WriteInv, F!WriteFirst
  <2>2. CASE writelen' = -1 /\ UNCHANGED stream
    <3>1. wpc' = "done" /\ wret' = "error"
      BY <1>1, <2>2 DEF F!WriteFirst
    <3> QED
      BY <2>1, <2>2, <3>1 DEF WriteInv
  <2>3. CASE \E took \in 0..wlen : /\ took = 0 => wlen = 0
                                  /\ writelen' = took /\ stream' = stream \o F!From(1, took)
    <3>1. PICK took \in 0..wlen : /\ took = 0 => wlen = 0
                                 /\ writelen' = took /\ stream' = stream \o F!From(1, took)
      BY <2>3
    <3>2. took \in Nat /\ took \in 0..Length /\ (took = 0 => Length = 0)
      BY <2>1, <3>1, FilesAssumption
    <3>3. stream' = F!From(1, took)
      <4>1. F!From(1, took) \in Seq(Int)
        BY <3>2 DEF F!From
      <4>2. <<>> \o F!From(1, took) = F!From(1, took)
        BY <4>1
      <4> QED
        BY <2>1, <3>1, <4>2
    <3>4. wpc' = "loop" /\ wret' = "none"
      BY <1>1, <2>1, <3>1, <3>2 DEF F!WriteFirst
    <3> QED
      BY <2>1, <3>1, <3>2, <3>3, <3>4, FilesAssumption DEF WriteInv
  <2> QED
    BY <1>1, <2>2, <2>3 DEF F!WriteFirst, F!Write
<1>2. CASE F!WriteNext
  <2>1. /\ wpc = "loop" /\ wpc' = "loop" /\ wret = "none" /\ wret' = "none" /\ writelen # wlen
        /\ wtmp' = wtmp + writelen /\ wlen' = wlen - writelen
        /\ wtmp \in Int /\ wlen \in Int /\ writelen \in Int /\ werrors \in Nat
        /\ werrors' = IF writelen' < 0 THEN werrors + 1 ELSE werrors
    BY <1>2 DEF WriteInv, F!WriteNext
  <2>2. CASE writelen' = -1 /\ UNCHANGED stream
    BY <2>1, <2>2 DEF WriteInv
  <2>3. CASE \E took \in 0..wlen' :
               /\ took = 0 => wlen' = 0
               /\ writelen' = took /\ stream' = stream \o F!From(wtmp' + 1, took)
    <3>1. PICK took \in 0..wlen' :
               /\ took = 0 => wlen' = 0
               /\ writelen' = took /\ stream' = stream \o F!From(wtmp' + 1, took)
      BY <2>3
    <3>2. took \in Nat /\ took <= wlen' /\ (took = 0 => wlen' = 0) /\ werrors' = werrors
      BY <2>1, <3>1
    <3>3. ASSUME werrors = 0
          PROVE  /\ wtmp' \in Nat /\ took \in 0..wlen' /\ wtmp' + wlen' = Length
                 /\ stream' = F!From(1, wtmp' + took)
      <4>1. wtmp \in Nat /\ writelen \in 0..wlen /\ wtmp + wlen = Length /\ stream = F!From(1, wtmp')
        BY <2>1, <3>3 DEF WriteInv
      <4>2. wtmp' \in Nat /\ wtmp' + wlen' = Length
        BY <2>1, <4>1
      <4>3. F!From(1, wtmp') \o F!From(wtmp' + 1, took) = F!From(1, wtmp' + took)
        BY <3>2, <4>2, FromFrom
      <4> QED
        BY <3>1, <4>1, <4>2, <4>3
    <3> QED
      BY <2>1, <3>1, <3>2, <3>3 DEF WriteInv
  <2> QED
    BY <1>2, <2>2, <2>3 DEF F!WriteNext, F!Write
<1>3. CASE F!WriteEnds
  <2>1. /\ wpc = "loop" /\ writelen = wlen /\ wpc' = "done" /\ wret' = "success"
        /\ UNCHANGED <<wtmp, wlen, writelen, stream, werrors>>
    BY <1>3 DEF F!WriteEnds
  <2> QED
    BY <2>1 DEF WriteInv
<1> QED
  BY <1>1, <1>2, <1>3

\* What was read and what is left are the file, and there is a block when there is
\* something in it to return.
ReadInv ==
    /\ rpc \in {"idle", "read", "close"}
    /\ rpc # "idle" => rret = "none"
    /\ rpc = "read" => /\ rbuf \in Seq(Int) /\ rest \in Seq(Int)
                       /\ Len(rbuf) + Len(rest) = Length
                       /\ \A k \in 1..Len(rbuf) : rbuf[k] = k
                       /\ \A k \in 1..Len(rest) : rest[k] = Len(rbuf) + k
    /\ rpc = "close" => rheap /\ rbuf = F!From(1, Length)
    /\ rret = "text" => rbuf = F!From(1, Length) /\ "fd" \notin fds
    /\ rpc = "idle" => (rheap <=> rret = "text")

\* The letter m frees the block.
LEMMA FlailFrees ==
    ASSUME NEW a, NEW b, NEW c
    PROVE  a \in F!Flail(<<"m", "r">>, <<a, b, c>>).freed
<1> DEFINE args == <<a, b, c>>
<1>1. F!Flail(<<"m", "r">>, args) = F!Letter(F!Letter(Unflailed(args), "m"), "r")
  BY FlailTwo
<1>2. Head(args) = a
  OBVIOUS
<1> HIDE DEF args
<1>3. F!Letter(Unflailed(args), "m").freed = {a}
  BY <1>2 DEF F!Letter, F!Takes, Unflailed
<1>4. F!Letter(F!Letter(Unflailed(args), "m"), "r") = F!Letter(Unflailed(args), "m")
  BY DEF F!Letter, F!Takes
<1> QED
  BY <1>1, <1>3, <1>4 DEF args

LEMMA ReadSomeMoves ==
    ASSUME rbuf \in Seq(Int), rest \in Seq(Int), Len(rbuf) + Len(rest) = Length,
           \A k \in 1..Len(rbuf) : rbuf[k] = k,
           \A k \in 1..Len(rest) : rest[k] = Len(rbuf) + k,
           NEW n \in 1..Len(rest),
           rbuf' = rbuf \o SubSeq(rest, 1, n), rest' = SubSeq(rest, n + 1, Len(rest))
    PROVE  /\ rbuf' \in Seq(Int) /\ rest' \in Seq(Int) /\ Len(rbuf') + Len(rest') = Length
           /\ \A k \in 1..Len(rbuf') : rbuf'[k] = k
           /\ \A k \in 1..Len(rest') : rest'[k] = Len(rbuf') + k
<1> DEFINE p == SubSeq(rest, 1, n)
           q == SubSeq(rest, n + 1, Len(rest))
<1>1. p \in Seq(Int) /\ Len(p) = n /\ \A k \in 1..n : p[k] = rest[k]
  OBVIOUS
<1>2. q \in Seq(Int) /\ Len(q) = Len(rest) - n /\ \A k \in 1..(Len(rest) - n) : q[k] = rest[n + k]
  OBVIOUS
<1> HIDE DEF p, q
<1>3. rbuf' = rbuf \o p /\ rest' = q
  BY DEF p, q
<1>4. rbuf' \in Seq(Int) /\ Len(rbuf') = Len(rbuf) + n
  BY <1>1, <1>3
<1>5. ASSUME NEW k \in 1..Len(rbuf') PROVE rbuf'[k] = k
  <2>1. CASE k \in 1..Len(rbuf)
    BY <2>1, <1>1, <1>3
  <2>2. CASE k \notin 1..Len(rbuf)
    <3>1. k - Len(rbuf) \in 1..n /\ k - Len(rbuf) \in 1..Len(rest)
      BY <2>2, <1>4
    <3>2. rbuf'[k] = p[k - Len(rbuf)]
      BY <2>2, <1>1, <1>3, <3>1
    <3> QED
      BY <1>1, <3>1, <3>2
  <2> QED
    BY <2>1, <2>2
<1>6. ASSUME NEW k \in 1..Len(rest') PROVE rest'[k] = Len(rbuf') + k
  <2>1. k \in 1..(Len(rest) - n) /\ n + k \in 1..Len(rest)
    BY <1>2, <1>3
  <2>2. rest'[k] = rest[n + k]
    BY <1>2, <1>3, <2>1
  <2> QED
    BY <2>1, <2>2, <1>4
<1>7. Len(rbuf') + Len(rest') = Length
  <2>1. Len(rbuf) \in Nat /\ Len(rest) \in Nat /\ n \in Nat
    OBVIOUS
  <2>2. Len(rest') = Len(rest) - n
    BY ONLY <1>2, <1>3
  <2> QED
    BY ONLY <1>4, <2>1, <2>2, Len(rbuf) + Len(rest) = Length
<1> QED
  BY <1>2, <1>3, <1>4, <1>5, <1>6, <1>7

LEMMA ReadStep ==
    ASSUME ReadInv,
           F!Open \/ F!ReadSome \/ F!ReadEnds \/ F!ReadFails \/ F!Close \/ F!FreeText
    PROVE  ReadInv'
<1>0. ASSUME NEW ls, NEW args, NEW open, F!Fails(ls, args, FALSE, open)
      PROVE  ReadInv'
  <2>1. ~rheap' /\ rret' = "NULL" /\ rpc' = "idle"
    BY <1>0, Zenon DEF F!Fails
  <2> QED
    BY <2>1 DEF ReadInv
<1>1. CASE F!Open
  <2>1. CASE /\ rpc' = "read" /\ rest' = F!From(1, Length) /\ rret' = "none" /\ rbuf' = <<>>
    <3>1. /\ rest' \in Seq(Int) /\ Len(rest') = Length
          /\ \A k \in 1..Len(rest') : rest'[k] = 0 + k
      BY <2>1, FilesAssumption DEF F!From
    <3>2. rbuf' \in Seq(Int) /\ Len(rbuf') = 0
      BY <2>1
    <3> QED
      BY <2>1, <3>1, <3>2, FilesAssumption DEF ReadInv
  <2> QED
    BY <1>1, <1>0, <2>1 DEF F!Open
<1>2. CASE F!ReadSome
  <2>1. rpc = "read" /\ rpc' = "read" /\ rret' = rret
    BY <1>2 DEF F!ReadSome
  <2>2. PICK n \in 1..Len(rest) : rbuf' = rbuf \o SubSeq(rest, 1, n) /\ rest' = SubSeq(rest, n + 1, Len(rest))
    BY <1>2 DEF F!ReadSome
  <2>3. /\ rbuf' \in Seq(Int) /\ rest' \in Seq(Int) /\ Len(rbuf') + Len(rest') = Length
        /\ \A k \in 1..Len(rbuf') : rbuf'[k] = k
        /\ \A k \in 1..Len(rest') : rest'[k] = Len(rbuf') + k
    BY <2>1, <2>2, ReadSomeMoves DEF ReadInv
  <2> QED
    BY <2>1, <2>3 DEF ReadInv
<1>3. CASE F!ReadEnds
  <2>1. /\ rpc = "read" /\ rest = <<>> /\ rheap' /\ rpc' = "close" /\ UNCHANGED <<rbuf, rret>>
    BY <1>3, Zenon DEF F!ReadEnds
  <2>2. rbuf = F!From(1, Length)
    <3>1. rbuf \in Seq(Int) /\ Len(rbuf) = Length /\ \A k \in 1..Length : rbuf[k] = k
      BY <2>1 DEF ReadInv
    <3>2. F!From(1, Length) \in Seq(Int) /\ Len(F!From(1, Length)) = Length
      BY FilesAssumption DEF F!From
    <3>3. \A k \in 1..Length : F!From(1, Length)[k] = k
      BY FilesAssumption DEF F!From
    <3> QED
      BY <3>1, <3>2, <3>3
  <2> QED
    BY <2>1, <2>2 DEF ReadInv
<1>4. CASE F!ReadFails
  BY <1>4, <1>0 DEF F!ReadFails
<1>5. CASE F!Close
  <2>1. rpc = "close" /\ rheap /\ rbuf = F!From(1, Length)
    BY <1>5 DEF F!Close, ReadInv
  <2>2. CASE /\ fds' = fds \ {"fd"} /\ rret' = "text" /\ rpc' = "idle"
             /\ UNCHANGED <<rheap, rbuf, rest>>
    BY <2>1, <2>2 DEF ReadInv
  <2>3. ASSUME NEW open, F!Fails(<<"m", "r">>, <<"file", "stdin", "filename">>, rheap, open)
        PROVE  ReadInv'
    <3> DEFINE args == <<"file", "stdin", "filename">>
    <3>1. "file" \in F!Flail(<<"m", "r">>, args).freed
      BY FlailFrees
    <3> HIDE DEF args
    <3>2. ~rheap' /\ rret' = "NULL" /\ rpc' = "idle"
      BY <2>3, <3>1, Zenon DEF F!Fails, args
    <3> QED
      BY <3>2 DEF ReadInv
  <2> QED
    BY <1>5, <2>2, <2>3 DEF F!Close
<1>6. CASE F!FreeText
  BY <1>6 DEF F!FreeText, ReadInv
<1> QED
  BY <1>1, <1>2, <1>3, <1>4, <1>5, <1>6

\* A write that succeeded without an error on the way has sent the text once, and a
\* read that succeeded returns the whole file.
THEOREM StreamsWhole == LibSpec => []StreamsExact
<1>1. LibInit => WriteInv /\ ReadInv
  BY DEF LibInit, OldInit, F!Init, WriteInv, ReadInv
<1>2. WriteInv /\ ReadInv /\ [LibNext]_libVars => WriteInv' /\ ReadInv'
  <2> SUFFICES ASSUME WriteInv, ReadInv, [LibNext]_libVars PROVE WriteInv' /\ ReadInv'
    OBVIOUS
  <2>1. UNCHANGED F!writer => WriteInv'
    BY DEF F!writer, WriteInv
  <2>2. UNCHANGED F!reader => ReadInv'
    BY DEF F!reader, ReadInv
  <2>3. UNCHANGED files => UNCHANGED F!writer /\ UNCHANGED F!reader
    BY DEF files, F!writer, F!reader
  <2> QED
    BY <2>1, <2>2, <2>3, WriteStep, ReadStep DEF LibNext, OldNext, libVars, oldVars, F!Next
<1>3. WriteInv /\ ReadInv => StreamsExact
  BY DEF WriteInv, ReadInv, StreamsExact, F!StreamsExact
<1> QED
  BY <1>1, <1>2, <1>3, PTL DEF LibSpec

-----------------------------------------------------------------------------
(* The vector. *)

\* A set of numbers has a least one.
LEMMA FirstOf ==
    ASSUME NEW S \in SUBSET Nat, S # {}
    PROVE  \E i \in S : \A j \in S : i <= j
<1>1. PICK x \in S : \A y \in S : ~ (<<y, x>> \in OpToRel(<, Nat))
  BY NatLessThanWellFounded, WFMin
<1>2. ASSUME NEW y \in S PROVE x <= y
  <2>1. <<y, x>> \in Nat \X Nat /\ <<y, x>>[1] = y /\ <<y, x>>[2] = x
    OBVIOUS
  <2>2. ~(y < x)
    BY <1>1, <2>1 DEF OpToRel
  <2> QED
    BY <2>2
<1> QED
  BY <1>2

LEMMA GreatestIs ==
    ASSUME NEW S \in SUBSET Int, NEW x \in S, \A y \in S : y <= x
    PROVE  V!Max(S) = x
BY MaxIs DEF V!Max, F!Max

\* The recursion of the fold that a_iovec_size is.
SizeOf(s, g, m) == \A T \in SUBSET (1..m) :
    g[T] = IF T = {} THEN 0 ELSE g[T \ {V!Max(T)}] + s[V!Max(T)].size

LEMMA SizeExists ==
    ASSUME NEW s, NEW n \in Nat
    PROVE  \E g : SizeOf(s, g, n)
<1> DEFINE Bad == {m \in Nat : ~ \E g : SizeOf(s, g, m)}
<1> SUFFICES ASSUME Bad # {} PROVE FALSE
  OBVIOUS
<1>1. PICK m \in Bad : \A k \in Bad : m <= k
  <2> HIDE DEF Bad
  <2> QED
    BY FirstOf, Bad \in SUBSET Nat DEF Bad
<1>2. CASE m = 0
  <2> DEFINE g == [T \in SUBSET (1..m) |-> 0]
  <2>1. SUBSET (1..m) = {{}}
    BY <1>2
  <2>2. SizeOf(s, g, m)
    BY <2>1 DEF SizeOf
  <2> QED
    BY <2>2
<1>3. CASE m # 0
  <2>1. m - 1 \in Nat /\ m - 1 \notin Bad
    BY <1>1, <1>3
  <2>2. PICK g : SizeOf(s, g, m - 1)
    BY <2>1
  <2> DEFINE h == [T \in SUBSET (1..m) |->
                     IF m \in T THEN g[T \ {m}] + s[m].size ELSE g[T]]
  <2>3. ASSUME NEW T \in SUBSET (1..m)
        PROVE  h[T] = IF T = {} THEN 0 ELSE h[T \ {V!Max(T)}] + s[V!Max(T)].size
    <3>1. CASE m \in T
      <4>1. V!Max(T) = m
        BY <3>1, GreatestIs
      <4>2. h[T] = g[T \ {m}] + s[m].size /\ h[T \ {m}] = g[T \ {m}]
        BY <3>1
      <4> HIDE DEF h
      <4> QED
        BY <3>1, <4>1, <4>2
    <3>2. CASE m \notin T
      <4>1. T \in SUBSET (1..(m - 1))
        BY <2>1, <3>2
      <4>2. g[T] = IF T = {} THEN 0 ELSE g[T \ {V!Max(T)}] + s[V!Max(T)].size
        BY <2>2, <4>1 DEF SizeOf
      <4>3. h[T] = g[T] /\ h[T \ {V!Max(T)}] = g[T \ {V!Max(T)}]
        BY <3>2
      <4> HIDE DEF h
      <4> QED
        BY <4>2, <4>3
    <3> QED
      BY <3>1, <3>2
  <2> HIDE DEF h
  <2>4. SizeOf(s, h, m)
    BY <2>3 DEF SizeOf
  <2> QED
    BY <2>4
<1> QED
  BY <1>2, <1>3

\* a_iovec_size adds up; t are the sums on the way.
LEMMA SizeIs ==
    ASSUME NEW n \in Nat, NEW s, DOMAIN s = 1..n,
           NEW t, t[0] = 0, \A k \in 1..n : t[k] = t[k - 1] + s[k].size
    PROVE  V!IovecSize(s) = t[n]
<1> DEFINE Like(g) == g = [T \in SUBSET (DOMAIN s) |->
                             IF T = {} THEN 0 ELSE g[T \ {V!Max(T)}] + s[V!Max(T)].size]
           f == CHOOSE g : Like(g)
<1>1. V!IovecSize(s) = f[DOMAIN s]
  BY DEF V!IovecSize, V!FoldLeft, V!MapThenFoldSet
<1>2. PICK g : SizeOf(s, g, n)
  BY SizeExists
<1> DEFINE Folded == [T \in SUBSET (DOMAIN s) |-> g[T]]
<1>3. Like(Folded)
  <2> SUFFICES ASSUME NEW T \in SUBSET (DOMAIN s)
               PROVE  g[T] = IF T = {} THEN 0 ELSE Folded[T \ {V!Max(T)}] + s[V!Max(T)].size
    OBVIOUS
  <2>1. Folded[T \ {V!Max(T)}] = g[T \ {V!Max(T)}]
    OBVIOUS
  <2> HIDE DEF Folded
  <2> QED
    BY <1>2, <2>1 DEF SizeOf
<1>4. Like(f)
  <2> HIDE DEF Like
  <2> QED
    BY <1>3
<1> HIDE DEF f
<1>5. SizeOf(s, f, n)
  BY <1>4 DEF SizeOf
<1> DEFINE Bad == {k \in 0..n : f[1..k] # t[k]}
<1>6. Bad = {}
  <2> SUFFICES ASSUME Bad # {} PROVE FALSE
    OBVIOUS
  <2>1. PICK k \in Bad : \A j \in Bad : k <= j
    <3>1. Bad \in SUBSET Nat
      OBVIOUS
    <3> HIDE DEF Bad
    <3> QED
      BY <3>1, FirstOf
  <2>2. CASE k = 0
    <3>1. 1..k = {} /\ {} \in SUBSET (1..n)
      BY <2>2
    <3>2. f[{}] = 0
      BY <3>1, <1>5 DEF SizeOf
    <3> QED
      BY <2>2, <3>1, <3>2
  <2>3. CASE k # 0
    <3>1. k - 1 \in 0..n /\ k - 1 \notin Bad /\ k \in 1..n
      BY <2>1, <2>3
    <3>2. f[1..(k - 1)] = t[k - 1]
      BY <3>1
    <3>3. V!Max(1..k) = k
      <4>1. 1..k \in SUBSET Int /\ k \in 1..k /\ \A y \in 1..k : y <= k
        BY <3>1
      <4> QED
        BY <4>1, GreatestIs
    <3>4. (1..k) \ {k} = 1..(k - 1) /\ 1..k # {} /\ 1..k \in SUBSET (1..n)
      <4>1. k \in 1..k /\ k \in Nat
        BY <3>1
      <4>2. (1..k) \ {k} = 1..(k - 1)
        BY <4>1
      <4>3. 1..k \in SUBSET (1..n)
        BY <3>1
      <4> QED
        BY <4>1, <4>2, <4>3
    <3>5. f[1..k] = f[1..(k - 1)] + s[k].size
      BY <1>5, <3>3, <3>4 DEF SizeOf
    <3> QED
      BY <3>1, <3>2, <3>5
  <2> QED
    BY <2>2, <2>3
<1>7. f[1..n] = t[n]
  BY <1>6
<1> QED
  BY <1>1, <1>7

Entry == [next : Item \cup {NULL}, ptr : Data, size : Data, owned : BOOLEAN]

\* c are the items of the chain, which hold the buffers a.
Links(its, h, tl, a, c) ==
    /\ \A i \in DOMAIN its : its[i] \in Entry
    /\ a \in Seq(V!Buffer)
    /\ c \in Seq(Item) /\ Len(c) = Len(a)
    /\ \A k \in 1..Len(c) : c[k] \in DOMAIN its
    /\ \A i \in DOMAIN its : \E k \in 1..Len(c) : c[k] = i
    /\ \A j, k \in 1..Len(c) : c[j] = c[k] => j = k
    /\ \A k \in 1..Len(c) : /\ its[c[k]].ptr = a[k].ptr /\ its[c[k]].size = a[k].ptr
                            /\ its[c[k]].owned = a[k].owned
                            /\ its[c[k]].next = IF k = Len(c) THEN NULL ELSE c[k + 1]
    /\ h = IF Len(c) = 0 THEN NULL ELSE c[1]
    /\ tl = IF Len(c) = 0 THEN NULL ELSE c[Len(c)]

\* The vector has as many items as buffers.
LEMMA LinksMany ==
    ASSUME NEW its, NEW h, NEW tl, NEW a, NEW c, Links(its, h, tl, a, c)
    PROVE  IsFiniteSet(DOMAIN its) /\ Cardinality(DOMAIN its) = Len(c)
<1> DEFINE Its == DOMAIN its
           N == Len(c)
<1>1. N \in Nat /\ c \in [1..N -> Its]
  BY DEF Links
<1>2. \A j, k \in 1..N : c[j] = c[k] => j = k
  BY DEF Links
<1>3. \A i \in Its : \E k \in 1..N : c[k] = i
  BY DEF Links
<1> HIDE DEF Its, N
<1>4. c \in Bijection(1..N, Its)
  BY <1>1, <1>2, <1>3 DEF Bijection, Injection, IsInjective, Surjection
<1>5. IsFiniteSet(1..N) /\ Cardinality(1..N) = N
  BY <1>1, FS_Interval
<1>6. ExistsBijection(1..N, Its)
  BY <1>4 DEF ExistsBijection
<1>7. IsFiniteSet(Its) /\ Cardinality(Its) = N
  BY <1>5, <1>6, FS_Bijection
<1> QED
  BY <1>7 DEF Its, N

\* The first m of a sequence, one more of them, and all of them.
LEMMA FirstOnes ==
    ASSUME NEW S, NEW s \in Seq(S), NEW m \in 0..Len(s)
    PROVE  /\ SubSeq(s, 1, m) \in Seq(S) /\ Len(SubSeq(s, 1, m)) = m
           /\ \A k \in 1..m : SubSeq(s, 1, m)[k] = s[k]
           /\ m < Len(s) => Append(SubSeq(s, 1, m), s[m + 1]) = SubSeq(s, 1, m + 1)
           /\ m = Len(s) => SubSeq(s, 1, m) = s
OBVIOUS

LEMMA ChainIs ==
    ASSUME NEW a, NEW c, Links(items, head, tail, a, c)
    PROVE  V!Chain = c
<1> DEFINE N == Len(c)
           First == IF head = NULL THEN <<>> ELSE <<head>>
           Following(prev) == IF prev = <<>> \/ items[V!Last(prev)].next = NULL THEN prev
                              ELSE Append(prev, items[V!Last(prev)].next)
           Like(g) == g = [n \in 0..Cardinality(DOMAIN items) |->
                             IF n = 0 THEN First ELSE Following(g[n - 1])]
           f == CHOOSE g : Like(g)
           Prefix(n) == SubSeq(c, 1, IF n < N THEN n + 1 ELSE N)
           Folded == [n \in 0..N |-> Prefix(n)]
<1>1. V!Chain = f[Cardinality(DOMAIN items)]
  BY DEF V!Chain, V!Cardinality, Cardinality
<1>2. Cardinality(DOMAIN items) = N /\ N \in Nat /\ c \in Seq(Item)
  <2>1. N \in Nat /\ c \in Seq(Item)
    BY DEF Links
  <2> QED
    BY <2>1, LinksMany
<1>3. Prefix(0) = First
  <2>1. CASE N = 0
    <3>1. head = NULL /\ SubSeq(c, 1, 0) = c /\ c = <<>>
      BY <1>2, <2>1, FirstOnes DEF Links
    <3> QED
      BY <2>1, <3>1
  <2>2. CASE N # 0
    <3>1. 1 \in 1..N /\ c[1] \in Item
      BY <1>2, <2>2
    <3>2. head = c[1] /\ head # NULL
      BY <2>2, <3>1, VecAssumption DEF Links
    <3>3. SubSeq(c, 1, 1) = <<c[1]>>
      <4> DEFINE one == SubSeq(c, 1, 1)
      <4>1. 1 \in 0..Len(c) /\ 1 \in 1..1
        BY <1>2, <2>2
      <4>2. one \in Seq(Item) /\ Len(one) = 1 /\ \A k \in 1..1 : one[k] = c[k]
        BY <1>2, <4>1, FirstOnes
      <4> HIDE DEF one
      <4>3. one[1] = c[1]
        BY <4>1, <4>2
      <4>4. one = <<c[1]>>
        BY <4>2, <4>3
      <4> QED
        BY <4>4 DEF one
    <3> QED
      BY <1>2, <2>2, <3>2, <3>3
  <2> QED
    BY <2>1, <2>2
<1>4. ASSUME NEW n \in 1..N PROVE Prefix(n) = Following(Prefix(n - 1))
  <2> DEFINE prev == SubSeq(c, 1, n)
  <2>1. Prefix(n - 1) = prev
    BY <1>2
  <2>2. prev \in Seq(Item) /\ Len(prev) = n /\ prev[n] = c[n] /\ prev # <<>>
    <3>1. n \in 0..Len(c) /\ n \in 1..n
      BY <1>2
    <3>2. prev \in Seq(Item) /\ Len(prev) = n /\ \A k \in 1..n : prev[k] = c[k]
      BY <1>2, <3>1, FirstOnes
    <3> HIDE DEF prev
    <3> QED
      BY <3>1, <3>2
  <2>3. V!Last(prev) = c[n]
    BY <2>2 DEF V!Last
  <2>4. items[c[n]].next = IF n = N THEN NULL ELSE c[n + 1]
    BY DEF Links
  <2>5. CASE n = N
    <3>1. Prefix(n) = prev
      BY <1>2, <2>5
    <3> HIDE DEF prev, Prefix
    <3> QED
      BY <2>1, <2>3, <2>4, <2>5, <3>1
  <2>6. CASE n # N
    <3>1. n + 1 \in 1..N /\ n \in 0..Len(c) /\ n < N
      BY <1>2, <2>6
    <3>2. Append(prev, c[n + 1]) = SubSeq(c, 1, n + 1)
      BY <1>2, <3>1, FirstOnes
    <3>3. Prefix(n) = SubSeq(c, 1, n + 1)
      BY <3>1
    <3>4. c[n + 1] # NULL
      BY <1>2, <3>1, VecAssumption
    <3> HIDE DEF prev, Prefix
    <3> QED
      BY <2>1, <2>2, <2>3, <2>4, <2>6, <3>2, <3>3, <3>4
  <2> QED
    BY <2>5, <2>6
<1> HIDE DEF First, Following, Prefix
<1>5. Like(Folded)
  <2> SUFFICES ASSUME NEW n \in 0..N
               PROVE  Folded[n] = IF n = 0 THEN First ELSE Following(Folded[n - 1])
    BY <1>2
  <2>1. n # 0 => n \in 1..N /\ Folded[n - 1] = Prefix(n - 1)
    BY <1>2
  <2>2. Folded[n] = Prefix(n)
    OBVIOUS
  <2> HIDE DEF Folded
  <2> QED
    BY <1>3, <1>4, <2>1, <2>2
<1>6. Like(f)
  <2> HIDE DEF Like
  <2> QED
    BY <1>5
<1> HIDE DEF f
<1>7. f[0] = First /\ \A n \in 1..N : f[n] = Following(f[n - 1])
  BY <1>2, <1>6
<1> DEFINE Bad == {n \in 0..N : f[n] # Prefix(n)}
<1>8. Bad = {}
  <2> SUFFICES ASSUME Bad # {} PROVE FALSE
    OBVIOUS
  <2>1. PICK n \in Bad : \A j \in Bad : n <= j
    <3>1. Bad \in SUBSET Nat
      OBVIOUS
    <3> HIDE DEF Bad
    <3> QED
      BY <3>1, FirstOf
  <2>2. n # 0
    BY <1>3, <1>7
  <2>3. n \in 1..N /\ n - 1 \in 0..N /\ n - 1 \notin Bad
    BY <1>2, <2>1, <2>2
  <2> QED
    BY <1>4, <1>7, <2>1, <2>3
<1>9. f[N] = Prefix(N)
  BY <1>2, <1>8
<1>10. Prefix(N) = c
  BY <1>2, FirstOnes DEF Prefix
<1> QED
  BY <1>1, <1>2, <1>9, <1>10


\* t[k] is the size of the first k buffers of a.
Totals(a, t, total) ==
    /\ t[0] = 0
    /\ \A k \in 0..Len(a) : t[k] \in Nat
    /\ \A k \in 1..Len(a) : t[k] = t[k - 1] + a[k].ptr
    /\ total = t[Len(a)]

LEMMA BufferIs ==
    ASSUME NEW b \in V!Buffer
    PROVE  b.ptr \in Data /\ b.ptr \in Nat /\ b.owned \in BOOLEAN
<1>1. b.ptr \in Data /\ b.owned \in BOOLEAN
  BY DEF V!Buffer
<1> QED
  BY <1>1, VecAssumption

LEMMA AppendTotals ==
    ASSUME NEW a \in Seq(V!Buffer), NEW t, NEW total, Totals(a, t, total), NEW b \in V!Buffer
    PROVE  \E u : Totals(Append(a, b), u, total + b.ptr)
<1> DEFINE N == Len(a)
           ab == Append(a, b)
           u == [k \in 0..(N + 1) |-> IF k = N + 1 THEN t[N] + b.ptr ELSE t[k]]
<1>1. b.ptr \in Nat /\ N \in Nat
  BY BufferIs
<1>2. Len(ab) = N + 1 /\ ab[N + 1] = b /\ \A k \in 1..N : ab[k] = a[k]
  BY AppendProperties
<1>3. t[0] = 0 /\ total = t[N] /\ \A k \in 0..N : t[k] \in Nat
  BY DEF Totals
<1>4. \A k \in 1..N : t[k] = t[k - 1] + a[k].ptr
  BY DEF Totals
<1>5. u[N + 1] = t[N] + b.ptr /\ \A k \in 0..N : u[k] = t[k]
  BY <1>1
<1> HIDE DEF u, ab, N
<1>6. u[0] = 0 /\ \A k \in 0..(N + 1) : u[k] \in Nat
  BY <1>1, <1>3, <1>5
<1>7. ASSUME NEW k \in 1..(N + 1) PROVE u[k] = u[k - 1] + ab[k].ptr
  <2>1. CASE k = N + 1
    BY <1>1, <1>2, <1>5, <2>1
  <2>2. CASE k # N + 1
    <3>1. k \in 1..N /\ k - 1 \in 0..N /\ k \in 0..N
      BY <1>1, <2>2
    <3> QED
      BY <1>2, <1>4, <1>5, <3>1
  <2> QED
    BY <2>1, <2>2
<1> QED
  BY <1>1, <1>2, <1>3, <1>5, <1>6, <1>7 DEF Totals, ab

LEMMA PrependTotals ==
    ASSUME NEW a \in Seq(V!Buffer), NEW t, NEW total, Totals(a, t, total), NEW b \in V!Buffer
    PROVE  \E u : Totals(<<b>> \o a, u, total + b.ptr)
<1> DEFINE N == Len(a)
           ba == <<b>> \o a
           u == [k \in 0..(N + 1) |-> IF k = 0 THEN 0 ELSE b.ptr + t[k - 1]]
<1>1. b.ptr \in Nat /\ N \in Nat
  BY BufferIs
<1>2. Len(ba) = N + 1 /\ ba[1] = b /\ \A k \in 2..(N + 1) : ba[k] = a[k - 1]
  BY <1>1
<1>3. t[0] = 0 /\ total = t[N] /\ \A k \in 0..N : t[k] \in Nat
  BY DEF Totals
<1>4. \A k \in 1..N : t[k] = t[k - 1] + a[k].ptr
  BY DEF Totals
<1>5. u[0] = 0 /\ \A k \in 1..(N + 1) : u[k] = b.ptr + t[k - 1]
  BY <1>1
<1> HIDE DEF u, ba, N
<1>6. \A k \in 0..(N + 1) : u[k] \in Nat
  BY <1>1, <1>3, <1>5
<1>7. ASSUME NEW k \in 1..(N + 1) PROVE u[k] = u[k - 1] + ba[k].ptr
  <2>1. CASE k = 1
    BY <1>1, <1>2, <1>3, <1>5, <2>1
  <2>2. CASE k # 1
    <3>1. k \in 2..(N + 1) /\ k - 1 \in 1..N /\ k - 1 \in 1..(N + 1) /\ k - 1 \in 0..N /\ k - 2 \in 0..N
      BY <1>1, <2>2
    <3>2. t[k - 1] = t[(k - 1) - 1] + a[k - 1].ptr
      BY <1>4, <3>1
    <3>3. u[k] = b.ptr + t[k - 1] /\ u[k - 1] = b.ptr + t[(k - 1) - 1]
      BY <1>5, <3>1
    <3>4. ba[k] = a[k - 1]
      BY <1>2, <3>1
    <3>5. t[k - 1] \in Nat /\ t[(k - 1) - 1] \in Nat /\ (k - 1) - 1 = k - 2
      BY <1>3, <3>1
    <3>6. a[k - 1].ptr \in Nat
      <4>1. a[k - 1] \in V!Buffer
        BY <3>1 DEF N
      <4> QED
        BY <4>1, BufferIs
    <3> QED
      BY <1>1, <3>2, <3>3, <3>4, <3>5, <3>6
  <2> QED
    BY <2>1, <2>2
<1>8. u[N + 1] = total + b.ptr
  BY <1>1, <1>3, <1>5
<1> QED
  BY <1>1, <1>2, <1>5, <1>6, <1>7, <1>8 DEF Totals, ba

\* The items its with their last, tl, followed by i.
Relinked(new, its, tl, i) ==
    \A j \in DOMAIN its : new[j] = IF j = tl THEN [its[j] EXCEPT !.next = i] ELSE its[j]

\* The new item comes last.
LEMMA AppendLinks ==
    ASSUME NEW its, NEW h, NEW tl, NEW a, NEW c, Links(its, h, tl, a, c),
           NEW b \in V!Buffer, NEW i \in Item, i \notin DOMAIN its, NEW new,
           DOMAIN new = DOMAIN its \cup {i},
           new[i] = [next |-> NULL, ptr |-> b.ptr, size |-> b.ptr, owned |-> b.owned],
           Relinked(new, its, tl, i)
    PROVE  Links(new, IF Len(a) = 0 THEN i ELSE h, i, Append(a, b), Append(c, i))
<1> DEFINE N == Len(c)
           ab == Append(a, b)
           ci == Append(c, i)
<1>1. N \in Nat /\ N = Len(a) /\ a \in Seq(V!Buffer) /\ c \in Seq(Item)
  BY DEF Links
<1>2. /\ ab \in Seq(V!Buffer) /\ Len(ab) = N + 1 /\ ab[N + 1] = b
      /\ \A k \in 1..N : ab[k] = a[k]
  BY <1>1
<1>3. /\ ci \in Seq(Item) /\ Len(ci) = N + 1 /\ ci[N + 1] = i
      /\ \A k \in 1..N : ci[k] = c[k]
  BY <1>1
<1>4. /\ \A k \in 1..N : c[k] \in DOMAIN its
      /\ \A j \in DOMAIN its : \E k \in 1..N : c[k] = j
      /\ \A j, k \in 1..N : c[j] = c[k] => j = k
  BY DEF Links
<1>5. \A k \in 1..N : /\ its[c[k]].ptr = a[k].ptr /\ its[c[k]].size = a[k].ptr
                      /\ its[c[k]].owned = a[k].owned
                      /\ its[c[k]].next = IF k = N THEN NULL ELSE c[k + 1]
  BY DEF Links
<1>6. \A j \in DOMAIN its : its[j] \in Entry
  BY DEF Links
<1>7. (N = 0 => tl = NULL /\ h = NULL) /\ (N # 0 => tl = c[N] /\ h = c[1])
  BY DEF Links
<1>8. ASSUME NEW j \in DOMAIN its
      PROVE  /\ new[j] \in Entry /\ new[j].ptr = its[j].ptr /\ new[j].size = its[j].size
             /\ new[j].owned = its[j].owned
             /\ new[j].next = IF j = tl THEN i ELSE its[j].next
  <2>1. its[j] \in Entry
    BY <1>6
  <2>2. new[j] = IF j = tl THEN [its[j] EXCEPT !.next = i] ELSE its[j]
    BY DEF Relinked
  <2> QED
    BY <2>1, <2>2 DEF Entry
<1> HIDE DEF N, ab, ci
<1>9. new[i] \in Entry
  BY VecAssumption DEF Entry, V!Buffer
<1>10. \A k \in 1..N : c[k] # i
  BY <1>4
<1>11. ASSUME NEW k \in 1..(N + 1)
       PROVE  /\ new[ci[k]].ptr = ab[k].ptr /\ new[ci[k]].size = ab[k].ptr
              /\ new[ci[k]].owned = ab[k].owned
              /\ new[ci[k]].next = IF k = N + 1 THEN NULL ELSE ci[k + 1]
  <2>1. CASE k = N + 1
    BY <1>2, <1>3, <2>1
  <2>2. CASE k # N + 1
    <3>1. k \in 1..N /\ ci[k] = c[k] /\ ab[k] = a[k] /\ c[k] \in DOMAIN its
      <4>1. k \in 1..N
        BY <1>1, <2>2
      <4> QED
        BY <1>2, <1>3, <1>4, <4>1
    <3>2. /\ new[c[k]].ptr = its[c[k]].ptr /\ new[c[k]].size = its[c[k]].size
          /\ new[c[k]].owned = its[c[k]].owned
      BY <1>8, <3>1
    <3>3. new[c[k]].ptr = a[k].ptr /\ new[c[k]].size = a[k].ptr /\ new[c[k]].owned = a[k].owned
      BY <1>5, <3>1, <3>2
    <3>4. new[c[k]].next = IF c[k] = tl THEN i ELSE its[c[k]].next
      BY <1>8, <3>1
    <3>5. CASE k = N
      <4>1. c[k] = tl /\ ci[k + 1] = i
        BY <1>1, <1>3, <1>7, <3>1, <3>5
      <4> QED
        BY <2>2, <3>1, <3>3, <3>4, <4>1
    <3>6. CASE k # N
      <4>1. N # 0 /\ N \in 1..N /\ c[k] # c[N] /\ k + 1 \in 1..N
        <5>1. N # 0 /\ N \in 1..N /\ k + 1 \in 1..N
          BY <1>1, <3>1, <3>6
        <5>2. c[k] # c[N]
          BY <1>4, <3>1, <3>6, <5>1
        <5> QED
          BY <5>1, <5>2
      <4>2. c[k] # tl /\ ci[k + 1] = c[k + 1]
        BY <1>3, <1>7, <4>1
      <4>3. its[c[k]].next = c[k + 1]
        BY <1>5, <3>1, <3>6
      <4> QED
        BY <2>2, <3>1, <3>3, <3>4, <4>2, <4>3
    <3> QED
      BY <3>5, <3>6
  <2> QED
    BY <2>1, <2>2
<1>12. ASSUME NEW k \in 1..(N + 1) PROVE ci[k] \in DOMAIN new
  <2>1. k = N + 1 \/ k \in 1..N
    BY <1>1
  <2> QED
    BY <1>3, <1>4, <2>1
<1>13. \A j \in DOMAIN new : \E k \in 1..(N + 1) : ci[k] = j
  <2> SUFFICES ASSUME NEW j \in DOMAIN new PROVE \E k \in 1..(N + 1) : ci[k] = j
    OBVIOUS
  <2>1. CASE j = i
    <3>1. N + 1 \in 1..(N + 1)
      BY <1>1
    <3> QED
      BY <1>3, <2>1, <3>1
  <2>2. CASE j # i
    <3>1. PICK k \in 1..N : c[k] = j
      BY <1>4, <2>2
    <3>2. k \in 1..(N + 1) /\ ci[k] = j
      BY <1>1, <1>3, <3>1
    <3> QED
      BY <3>2
  <2> QED
    BY <2>1, <2>2
<1>14. ASSUME NEW j \in 1..(N + 1), NEW k \in 1..(N + 1), ci[j] = ci[k] PROVE j = k
  <2>1. (j = N + 1 \/ j \in 1..N) /\ (k = N + 1 \/ k \in 1..N)
    BY <1>1
  <2>2. CASE j \in 1..N /\ k \in 1..N
    BY <1>3, <1>4, <1>14, <2>2
  <2>3. CASE j = N + 1 \/ k = N + 1
    BY <1>3, <1>10, <1>14, <2>1, <2>3
  <2> QED
    BY <2>1, <2>2, <2>3
<1>15. (IF Len(a) = 0 THEN i ELSE h) = ci[1]
  BY <1>1, <1>3, <1>7
<1>16. \A j \in DOMAIN new : new[j] \in Entry
  BY <1>8, <1>9
<1>17. Links(new, IF Len(a) = 0 THEN i ELSE h, i, ab, ci)
  <2>1. N + 1 = Len(ci) /\ Len(ci) = Len(ab) /\ Len(ci) # 0
    BY <1>1, <1>2, <1>3
  <2>2. ab \in Seq(V!Buffer) /\ ci \in Seq(Item) /\ i = ci[Len(ci)]
    BY <1>2, <1>3
  <2>3. /\ \A k \in 1..Len(ci) : ci[k] \in DOMAIN new
        /\ \A j \in DOMAIN new : \E k \in 1..Len(ci) : ci[k] = j
        /\ \A j, k \in 1..Len(ci) : ci[j] = ci[k] => j = k
    BY <1>12, <1>13, <1>14, <2>1
  <2>4. \A k \in 1..Len(ci) : /\ new[ci[k]].ptr = ab[k].ptr /\ new[ci[k]].size = ab[k].ptr
                              /\ new[ci[k]].owned = ab[k].owned
                              /\ new[ci[k]].next = IF k = Len(ci) THEN NULL ELSE ci[k + 1]
    BY <1>11, <2>1
  <2> QED
    BY ONLY <1>15, <1>16, <2>1, <2>2, <2>3, <2>4 DEF Links
<1> QED
  BY <1>17 DEF ab, ci

\* The new item comes first.
LEMMA PrependLinks ==
    ASSUME NEW its, NEW h, NEW tl, NEW a, NEW c, Links(its, h, tl, a, c),
           NEW b \in V!Buffer, NEW i \in Item, i \notin DOMAIN its, NEW new,
           DOMAIN new = DOMAIN its \cup {i},
           new[i] = [next |-> h, ptr |-> b.ptr, size |-> b.ptr, owned |-> b.owned],
           \A j \in DOMAIN its : new[j] = its[j]
    PROVE  Links(new, i, IF Len(a) = 0 THEN i ELSE tl, <<b>> \o a, <<i>> \o c)
<1> DEFINE N == Len(c)
           ba == <<b>> \o a
           ic == <<i>> \o c
<1>1. N \in Nat /\ N = Len(a) /\ a \in Seq(V!Buffer) /\ c \in Seq(Item)
  BY DEF Links
<1>2. /\ ba \in Seq(V!Buffer) /\ Len(ba) = N + 1 /\ ba[1] = b
      /\ \A k \in 2..(N + 1) : ba[k] = a[k - 1]
  BY <1>1
<1>3. /\ ic \in Seq(Item) /\ Len(ic) = N + 1 /\ ic[1] = i
      /\ \A k \in 2..(N + 1) : ic[k] = c[k - 1]
  BY <1>1
<1>4. /\ \A k \in 1..N : c[k] \in DOMAIN its
      /\ \A j \in DOMAIN its : \E k \in 1..N : c[k] = j
      /\ \A j, k \in 1..N : c[j] = c[k] => j = k
  BY DEF Links
<1>5. \A k \in 1..N : /\ its[c[k]].ptr = a[k].ptr /\ its[c[k]].size = a[k].ptr
                      /\ its[c[k]].owned = a[k].owned
                      /\ its[c[k]].next = IF k = N THEN NULL ELSE c[k + 1]
  BY DEF Links
<1>6. \A j \in DOMAIN its : its[j] \in Entry
  BY DEF Links
<1>7. h = (IF N = 0 THEN NULL ELSE c[1]) /\ (N # 0 => tl = c[N])
  BY DEF Links
<1> HIDE DEF N, ba, ic
<1>8. h \in Item \cup {NULL}
  BY <1>1, <1>7 DEF N
<1>9. new[i] \in Entry
  <2>1. b.ptr \in Data /\ b.owned \in BOOLEAN
    BY BufferIs
  <2> QED
    BY <1>8, <2>1 DEF Entry
<1>10. ASSUME NEW k \in 2..(N + 1)
       PROVE  k - 1 \in 1..N /\ ic[k] = c[k - 1] /\ ic[k] \in DOMAIN its /\ new[ic[k]] = its[ic[k]]
  <2>1. k - 1 \in 1..N /\ ic[k] = c[k - 1]
    BY <1>1, <1>3
  <2> QED
    BY <1>4, <2>1
<1>11. ASSUME NEW k \in 1..(N + 1)
       PROVE  /\ new[ic[k]].ptr = ba[k].ptr /\ new[ic[k]].size = ba[k].ptr
              /\ new[ic[k]].owned = ba[k].owned
              /\ new[ic[k]].next = IF k = N + 1 THEN NULL ELSE ic[k + 1]
  <2>1. CASE k = 1
    <3>1. new[ic[k]].next = h
      BY <1>3, <2>1
    <3>2. h = IF k = N + 1 THEN NULL ELSE ic[k + 1]
      <4>1. CASE N = 0
        BY <1>7, <2>1, <4>1
      <4>2. CASE N # 0
        <5>1. 2 \in 2..(N + 1) /\ k # N + 1
          BY <1>1, <2>1, <4>2
        <5> QED
          BY <1>3, <1>7, <2>1, <4>2, <5>1
      <4> QED
        BY <4>1, <4>2
    <3> QED
      BY <1>2, <1>3, <2>1, <3>1, <3>2
  <2>2. CASE k # 1
    <3>1. k \in 2..(N + 1)
      BY <1>1, <2>2
    <3>2. k - 1 \in 1..N /\ ic[k] = c[k - 1] /\ new[ic[k]] = its[c[k - 1]] /\ ba[k] = a[k - 1]
      BY <1>2, <1>10, <3>1
    <3>3. /\ its[c[k - 1]].ptr = a[k - 1].ptr /\ its[c[k - 1]].size = a[k - 1].ptr
          /\ its[c[k - 1]].owned = a[k - 1].owned
          /\ its[c[k - 1]].next = IF k - 1 = N THEN NULL ELSE c[(k - 1) + 1]
      BY <1>5, <3>2
    <3>4. (IF k - 1 = N THEN NULL ELSE c[(k - 1) + 1]) = IF k = N + 1 THEN NULL ELSE ic[k + 1]
      <4>1. CASE k = N + 1
        BY <1>1, <4>1
      <4>2. CASE k # N + 1
        <5>1. k + 1 \in 2..(N + 1) /\ (k + 1) - 1 = k /\ (k - 1) + 1 = k /\ k - 1 # N
          BY <1>1, <3>1, <4>2
        <5>2. ic[k + 1] = c[k]
          BY <1>3, <5>1
        <5> QED
          BY <4>2, <5>1, <5>2
      <4> QED
        BY <4>1, <4>2
    <3> QED
      BY <3>2, <3>3, <3>4
  <2> QED
    BY <2>1, <2>2
<1>12. \A k \in 1..(N + 1) : ic[k] \in DOMAIN new
  BY <1>1, <1>3, <1>10
<1>13. \A j \in DOMAIN new : \E k \in 1..(N + 1) : ic[k] = j
  <2> SUFFICES ASSUME NEW j \in DOMAIN new PROVE \E k \in 1..(N + 1) : ic[k] = j
    OBVIOUS
  <2>1. CASE j = i
    <3>1. 1 \in 1..(N + 1)
      BY <1>1
    <3> QED
      BY <1>3, <2>1, <3>1
  <2>2. CASE j # i
    <3>1. PICK k \in 1..N : c[k] = j
      BY <1>4, <2>2
    <3>2. k + 1 \in 2..(N + 1) /\ k + 1 \in 1..(N + 1) /\ (k + 1) - 1 = k
      BY <1>1
    <3>3. ic[k + 1] = j
      BY <1>3, <3>1, <3>2
    <3> QED
      BY <3>2, <3>3
  <2> QED
    BY <2>1, <2>2
<1>14. ASSUME NEW j \in 1..(N + 1), NEW k \in 1..(N + 1), ic[j] = ic[k] PROVE j = k
  <2>1. CASE j = 1 \/ k = 1
    <3>1. \A m \in 2..(N + 1) : ic[m] # i
      BY <1>10
    <3>2. (j = 1 \/ j \in 2..(N + 1)) /\ (k = 1 \/ k \in 2..(N + 1))
      BY <1>1
    <3> QED
      BY <1>3, <1>14, <2>1, <3>1, <3>2
  <2>2. CASE j # 1 /\ k # 1
    <3>1. j \in 2..(N + 1) /\ k \in 2..(N + 1)
      BY <1>1, <2>2
    <3>2. c[j - 1] = c[k - 1] /\ j - 1 \in 1..N /\ k - 1 \in 1..N
      BY <1>10, <1>14, <3>1
    <3>3. j - 1 = k - 1
      BY <1>4, <3>2
    <3> QED
      BY <3>1, <3>3
  <2> QED
    BY <2>1, <2>2
<1>15. (IF Len(a) = 0 THEN i ELSE tl) = ic[N + 1]
  <2>1. CASE N = 0
    BY <1>1, <1>3, <2>1
  <2>2. CASE N # 0
    <3>1. N + 1 \in 2..(N + 1) /\ (N + 1) - 1 = N
      BY <1>1, <2>2
    <3> QED
      BY <1>1, <1>3, <1>7, <2>2, <3>1
  <2> QED
    BY <2>1, <2>2
<1>16. \A j \in DOMAIN new : new[j] \in Entry
  BY <1>6, <1>9
<1>17. Links(new, i, IF Len(a) = 0 THEN i ELSE tl, ba, ic)
  <2>1. N + 1 = Len(ic) /\ Len(ic) = Len(ba) /\ Len(ic) # 0
    BY <1>1, <1>2, <1>3
  <2>2. ba \in Seq(V!Buffer) /\ ic \in Seq(Item) /\ i = ic[1]
    BY <1>2, <1>3
  <2>3. /\ \A k \in 1..Len(ic) : ic[k] \in DOMAIN new
        /\ \A j \in DOMAIN new : \E k \in 1..Len(ic) : ic[k] = j
        /\ \A j, k \in 1..Len(ic) : ic[j] = ic[k] => j = k
    BY <1>12, <1>13, <1>14, <2>1
  <2>4. \A k \in 1..Len(ic) : /\ new[ic[k]].ptr = ba[k].ptr /\ new[ic[k]].size = ba[k].ptr
                              /\ new[ic[k]].owned = ba[k].owned
                              /\ new[ic[k]].next = IF k = Len(ic) THEN NULL ELSE ic[k + 1]
    BY <1>11, <2>1
  <2> QED
    BY ONLY <1>15, <1>16, <2>1, <2>2, <2>3, <2>4 DEF Links
<1> QED
  BY <1>17 DEF ba, ic

\* The state s of the chain holds the buffers a.
Carries(s, a) ==
    /\ DOMAIN s = {"items", "head", "tail", "num", "size"}
    /\ s.num = Len(a)
    /\ \E c : Links(s.items, s.head, s.tail, a, c)
    /\ \E t : Totals(a, t, s.size)

LEMMA AppendHolds ==
    ASSUME NEW s, NEW a, Carries(s, a), NEW b \in V!Buffer, NEW i \in Item, i \notin DOMAIN s.items
    PROVE  /\ Carries(V!AppendItem(s, i, b), Append(a, b))
           /\ DOMAIN V!AppendItem(s, i, b).items = DOMAIN s.items \cup {i}
<1> DEFINE added_to == V!NewItem(s, i, b, NULL)
           new == IF s.num = 0 THEN added_to ELSE [added_to EXCEPT ![s.tail].next = i]
           r == V!AppendItem(s, i, b)
<1>1. PICK c : Links(s.items, s.head, s.tail, a, c)
  BY DEF Carries
<1>2. PICK t : Totals(a, t, s.size)
  BY DEF Carries
<1>3. DOMAIN s = {"items", "head", "tail", "num", "size"} /\ s.num = Len(a)
  BY DEF Carries
<1>4. a \in Seq(V!Buffer) /\ Len(c) = Len(a) /\ Len(a) \in Nat
  BY <1>1 DEF Links
<1>5. /\ DOMAIN r = DOMAIN s /\ r.items = new
      /\ r.head = (IF Len(a) = 0 THEN i ELSE s.head) /\ r.tail = i
      /\ r.num = Len(a) + 1 /\ r.size = s.size + b.ptr
  BY <1>3 DEF V!AppendItem
<1>6. DOMAIN added_to = DOMAIN s.items \cup {i} /\ DOMAIN new = DOMAIN s.items \cup {i}
  BY DEF V!NewItem
<1>7. /\ added_to[i] = [next |-> NULL, ptr |-> b.ptr, size |-> b.ptr, owned |-> b.owned]
      /\ \A j \in DOMAIN s.items : added_to[j] = s.items[j]
  BY DEF V!NewItem
<1> HIDE DEF added_to
<1>8. Len(a) = 0 => s.tail = NULL /\ NULL \notin DOMAIN s.items
  <2>1. ASSUME Len(a) = 0, NULL \in DOMAIN s.items PROVE FALSE
    <3>1. \E k \in 1..Len(c) : c[k] = NULL
      BY <1>1, <2>1 DEF Links
    <3> QED
      BY <1>4, <2>1, <3>1
  <2>2. Len(a) = 0 => s.tail = NULL
    BY <1>1, <1>4 DEF Links
  <2> QED
    BY <2>1, <2>2
<1>9. Len(a) # 0 => s.tail \in DOMAIN s.items
  <2> SUFFICES ASSUME Len(a) # 0 PROVE s.tail \in DOMAIN s.items
    OBVIOUS
  <2>1. Len(c) \in 1..Len(c) /\ s.tail = c[Len(c)]
    BY <1>1, <1>4 DEF Links
  <2> QED
    BY <1>1, <2>1 DEF Links
<1>10. new[i] = [next |-> NULL, ptr |-> b.ptr, size |-> b.ptr, owned |-> b.owned]
  BY <1>3, <1>6, <1>7, <1>9
<1>11. ASSUME NEW j \in DOMAIN s.items
       PROVE  new[j] = IF j = s.tail THEN [s.items[j] EXCEPT !.next = i] ELSE s.items[j]
  <2>1. CASE Len(a) = 0
    BY <1>3, <1>7, <1>8, <2>1
  <2>2. CASE Len(a) # 0
    BY <1>3, <1>6, <1>7, <2>2
  <2> QED
    BY <2>1, <2>2
<1> HIDE DEF new, r
<1>12. Links(new, IF Len(a) = 0 THEN i ELSE s.head, i, Append(a, b), Append(c, i))
  <2> DEFINE its == s.items
  <2>1. /\ i \notin DOMAIN its /\ DOMAIN new = DOMAIN its \cup {i}
        /\ Links(its, s.head, s.tail, a, c)
    BY <1>1, <1>6
  <2>2. Relinked(new, its, s.tail, i)
    BY <1>11 DEF Relinked
  <2> HIDE DEF its
  <2> QED
    BY <1>10, <2>1, <2>2, AppendLinks
<1>13. \E u : Totals(Append(a, b), u, s.size + b.ptr)
  BY <1>2, <1>4, AppendTotals
<1>14. Len(Append(a, b)) = Len(a) + 1
  BY <1>4
<1>15. DOMAIN r = {"items", "head", "tail", "num", "size"} /\ r.num = Len(Append(a, b))
  BY <1>3, <1>5, <1>14
<1>16. Links(r.items, r.head, r.tail, Append(a, b), Append(c, i))
  BY <1>5, <1>12
<1>17. \E u : Totals(Append(a, b), u, r.size)
  BY <1>5, <1>13
<1>18. Carries(r, Append(a, b))
  BY <1>15, <1>16, <1>17 DEF Carries
<1> QED
  BY <1>5, <1>6, <1>18 DEF r

LEMMA PrependHolds ==
    ASSUME NEW s, NEW a, Carries(s, a), NEW b \in V!Buffer, NEW i \in Item, i \notin DOMAIN s.items
    PROVE  /\ Carries(V!PrependItem(s, i, b), <<b>> \o a)
           /\ DOMAIN V!PrependItem(s, i, b).items = DOMAIN s.items \cup {i}
<1> DEFINE new == V!NewItem(s, i, b, s.head)
           r == V!PrependItem(s, i, b)
<1>1. PICK c : Links(s.items, s.head, s.tail, a, c)
  BY DEF Carries
<1>2. PICK t : Totals(a, t, s.size)
  BY DEF Carries
<1>3. DOMAIN s = {"items", "head", "tail", "num", "size"} /\ s.num = Len(a)
  BY DEF Carries
<1>4. a \in Seq(V!Buffer) /\ Len(a) \in Nat
  BY <1>1 DEF Links
<1>5. /\ DOMAIN r = DOMAIN s /\ r.items = new
      /\ r.head = i /\ r.tail = (IF Len(a) = 0 THEN i ELSE s.tail)
      /\ r.num = Len(a) + 1 /\ r.size = s.size + b.ptr
  BY <1>3 DEF V!PrependItem
<1>6. DOMAIN new = DOMAIN s.items \cup {i}
  BY DEF V!NewItem
<1>7. /\ new[i] = [next |-> s.head, ptr |-> b.ptr, size |-> b.ptr, owned |-> b.owned]
      /\ \A j \in DOMAIN s.items : new[j] = s.items[j]
  BY DEF V!NewItem
<1> HIDE DEF new, r
<1>8. Links(new, i, IF Len(a) = 0 THEN i ELSE s.tail, <<b>> \o a, <<i>> \o c)
  BY <1>1, <1>6, <1>7, PrependLinks
<1>9. \E u : Totals(<<b>> \o a, u, s.size + b.ptr)
  BY <1>2, <1>4, PrependTotals
<1>10. Len(<<b>> \o a) = Len(a) + 1
  BY <1>4
<1>11. DOMAIN r = {"items", "head", "tail", "num", "size"} /\ r.num = Len(<<b>> \o a)
  BY <1>3, <1>5, <1>10
<1>12. Links(r.items, r.head, r.tail, <<b>> \o a, <<i>> \o c)
  BY <1>5, <1>8
<1>13. \E u : Totals(<<b>> \o a, u, r.size)
  BY <1>5, <1>9
<1>14. Carries(r, <<b>> \o a)
  BY <1>11, <1>12, <1>13 DEF Carries
<1> QED
  BY <1>5, <1>6, <1>14 DEF r

\* With room for another item, there is one to take.
LEMMA FreshIs ==
    ASSUME NEW s, Item \ DOMAIN s.items # {}
    PROVE  V!Fresh(s) \in Item /\ V!Fresh(s) \notin DOMAIN s.items
BY DEF V!Fresh

LEMMA RoomFor ==
    /\ V!Fits(1) => Item \ DOMAIN items # {}
    /\ V!Fits(2) => /\ Item \ DOMAIN items # {}
                    /\ \A i \in Item : Item \ (DOMAIN items \cup {i}) # {}
<1> DEFINE S == Item \ DOMAIN items
<1>1. V!Fits(2) => 2 <= Cardinality(S)
  BY DEF V!Fits, V!Cardinality, Cardinality
<1>2. V!Fits(1) => 1 <= Cardinality(S)
  BY DEF V!Fits, V!Cardinality, Cardinality
<1>3. V!Fits(1) \/ V!Fits(2) => S # {}
  BY <1>1, <1>2, FS_EmptySet
<1>4. ASSUME V!Fits(2), NEW i \in Item, S \ {i} = {} PROVE FALSE
  <2>1. S = {i}
    BY <1>3, <1>4
  <2>2. Cardinality(S) = 1
    BY <2>1, FS_Singleton
  <2> QED
    BY <1>1, <1>4, <2>2
<1> QED
  BY <1>3, <1>4

\* The folds of a batch: one buffer, and two of them.
LEMMA LeastIs ==
    ASSUME NEW S \in SUBSET Int, NEW x \in S, \A y \in S : x <= y
    PROVE  V!Min(S) = x
<1>1. \A m \in S : (\A y \in S : m <= y) => m = x
  OBVIOUS
<1> QED
  BY <1>1 DEF V!Min

LEMMA AppendNone == V!AppendAll(<<>>) = V!State
<1> DEFINE Like(g) == g = [S \in SUBSET (DOMAIN <<>>) |->
                             IF S = {} THEN V!State
                             ELSE V!Append_(g[S \ {V!Max(S)}], <<>>[V!Max(S)])]
           f == CHOOSE g : Like(g)
           Folded == [S \in SUBSET (DOMAIN <<>>) |-> V!State]
<1>1. V!AppendAll(<<>>) = f[DOMAIN <<>>]
  BY DEF V!AppendAll, V!FoldLeft, V!MapThenFoldSet
<1>2. DOMAIN <<>> = {}
  OBVIOUS
<1>3. Like(Folded)
  BY <1>2
<1>4. Like(f)
  <2> HIDE DEF Like
  <2> QED
    BY <1>3
<1> HIDE DEF f
<1> QED
  BY <1>1, <1>2, <1>4

LEMMA PrependNone == V!PrependAll(<<>>) = V!State
<1> DEFINE Like(g) == g = [S \in SUBSET (DOMAIN <<>>) |->
                             IF S = {} THEN V!State
                             ELSE V!Prepend_(<<>>[V!Min(S)], g[S \ {V!Min(S)}])]
           f == CHOOSE g : Like(g)
           Folded == [S \in SUBSET (DOMAIN <<>>) |-> V!State]
<1>1. V!PrependAll(<<>>) = f[DOMAIN <<>>]
  BY DEF V!PrependAll, V!FoldRight, V!MapThenFoldSet
<1>2. DOMAIN <<>> = {}
  OBVIOUS
<1>3. Like(Folded)
  BY <1>2
<1>4. Like(f)
  <2> HIDE DEF Like
  <2> QED
    BY <1>3
<1> HIDE DEF f
<1> QED
  BY <1>1, <1>2, <1>4

LEMMA AppendOne ==
    ASSUME NEW b
    PROVE  V!AppendAll(<<b>>) = V!Append_(V!State, b)
<1> DEFINE one == <<b>>
           base == V!State
           Like(g) == g = [S \in SUBSET (DOMAIN one) |->
                             IF S = {} THEN base
                             ELSE V!Append_(g[S \ {V!Max(S)}], one[V!Max(S)])]
           f == CHOOSE g : Like(g)
           Folded == [S \in SUBSET (DOMAIN one) |-> IF S = {} THEN base ELSE V!Append_(base, b)]
<1>1. V!AppendAll(one) = f[DOMAIN one]
  BY DEF V!AppendAll, V!FoldLeft, V!MapThenFoldSet
<1>2. DOMAIN one = {1} /\ one[1] = b
  OBVIOUS
<1>3. V!Max({1}) = 1
  BY GreatestIs
<1>4. \A S \in SUBSET {1} : S = {} \/ S = {1}
  OBVIOUS
<1>5. {1} \ {1} = {} /\ {1} # {}
  OBVIOUS
<1> HIDE DEF one, base
<1>6. Like(Folded)
  <2> SUFFICES ASSUME NEW S \in SUBSET (DOMAIN one)
               PROVE  Folded[S] = IF S = {} THEN base
                             ELSE V!Append_(Folded[S \ {V!Max(S)}], one[V!Max(S)])
    OBVIOUS
  <2>1. Folded[{}] = base /\ Folded[{1}] = V!Append_(base, b)
    BY <1>2
  <2> HIDE DEF Folded
  <2> QED
    BY <1>2, <1>3, <1>4, <1>5, <2>1
<1>7. Like(f)
  <2> HIDE DEF Like
  <2> QED
    BY <1>6
<1> HIDE DEF f
<1>8. f[{}] = base /\ f[{1}] = V!Append_(f[{}], b)
  BY <1>2, <1>3, <1>5, <1>7
<1> QED
  BY <1>1, <1>2, <1>8 DEF one, base

LEMMA PrependOne ==
    ASSUME NEW b
    PROVE  V!PrependAll(<<b>>) = V!Prepend_(b, V!State)
<1> DEFINE one == <<b>>
           base == V!State
           Like(g) == g = [S \in SUBSET (DOMAIN one) |->
                             IF S = {} THEN base
                             ELSE V!Prepend_(one[V!Min(S)], g[S \ {V!Min(S)}])]
           f == CHOOSE g : Like(g)
           Folded == [S \in SUBSET (DOMAIN one) |-> IF S = {} THEN base ELSE V!Prepend_(b, base)]
<1>1. V!PrependAll(one) = f[DOMAIN one]
  BY DEF V!PrependAll, V!FoldRight, V!MapThenFoldSet
<1>2. DOMAIN one = {1} /\ one[1] = b
  OBVIOUS
<1>3. V!Min({1}) = 1
  BY LeastIs
<1>4. \A S \in SUBSET {1} : S = {} \/ S = {1}
  OBVIOUS
<1>5. {1} \ {1} = {} /\ {1} # {}
  OBVIOUS
<1> HIDE DEF one, base
<1>6. Like(Folded)
  <2> SUFFICES ASSUME NEW S \in SUBSET (DOMAIN one)
               PROVE  Folded[S] = IF S = {} THEN base
                             ELSE V!Prepend_(one[V!Min(S)], Folded[S \ {V!Min(S)}])
    OBVIOUS
  <2>1. Folded[{}] = base /\ Folded[{1}] = V!Prepend_(b, base)
    BY <1>2
  <2> HIDE DEF Folded
  <2> QED
    BY <1>2, <1>3, <1>4, <1>5, <2>1
<1>7. Like(f)
  <2> HIDE DEF Like
  <2> QED
    BY <1>6
<1> HIDE DEF f
<1>8. f[{}] = base /\ f[{1}] = V!Prepend_(b, f[{}])
  BY <1>2, <1>3, <1>5, <1>7
<1> QED
  BY <1>1, <1>2, <1>8 DEF one, base

LEMMA AppendTwo ==
    ASSUME NEW b, NEW d
    PROVE  V!AppendAll(<<b, d>>) = V!Append_(V!Append_(V!State, b), d)
<1> DEFINE two == <<b, d>>
           base == V!State
           Like(g) == g = [S \in SUBSET (DOMAIN two) |->
                             IF S = {} THEN base
                             ELSE V!Append_(g[S \ {V!Max(S)}], two[V!Max(S)])]
           f == CHOOSE g : Like(g)
           Folded == [S \in SUBSET (DOMAIN two) |->
                   IF S = {} THEN base
                   ELSE IF S = {1} THEN V!Append_(base, b)
                   ELSE IF S = {2} THEN V!Append_(base, d)
                   ELSE V!Append_(V!Append_(base, b), d)]
<1>1. V!AppendAll(two) = f[DOMAIN two]
  BY DEF V!AppendAll, V!FoldLeft, V!MapThenFoldSet
<1>2. DOMAIN two = {1, 2} /\ two[1] = b /\ two[2] = d
  OBVIOUS
<1>3. V!Max({1}) = 1 /\ V!Max({2}) = 2 /\ V!Max({1, 2}) = 2
  <2>1. V!Max({1}) = 1
    BY GreatestIs
  <2>2. V!Max({2}) = 2
    BY GreatestIs
  <2>3. V!Max({1, 2}) = 2
    BY GreatestIs
  <2> QED
    BY <2>1, <2>2, <2>3
<1>4. \A S \in SUBSET {1, 2} : S = {} \/ S = {1} \/ S = {2} \/ S = {1, 2}
  OBVIOUS
<1> HIDE DEF two, base
<1>5. Like(Folded)
  <2> SUFFICES ASSUME NEW S \in SUBSET (DOMAIN two)
               PROVE  Folded[S] = IF S = {} THEN base
                             ELSE V!Append_(Folded[S \ {V!Max(S)}], two[V!Max(S)])
    OBVIOUS
  <2>1. Folded[{}] = base /\ Folded[{1}] = V!Append_(base, b) /\ Folded[{2}] = V!Append_(base, d)
    BY <1>2
  <2>2. Folded[{1, 2}] = V!Append_(Folded[{1}], d)
    BY <1>2
  <2>3. {1} \ {1} = {} /\ {2} \ {2} = {} /\ {1, 2} \ {2} = {1}
    OBVIOUS
  <2> HIDE DEF Folded
  <2> QED
    BY <1>2, <1>3, <1>4, <2>1, <2>2, <2>3
<1>6. Like(f)
  <2> HIDE DEF Like
  <2> QED
    BY <1>5
<1> HIDE DEF f
<1>7. f[{}] = base /\ f[{1}] = V!Append_(f[{}], b) /\ f[{1, 2}] = V!Append_(f[{1}], d)
  <2>1. {1} \ {1} = {} /\ {1, 2} \ {2} = {1} /\ {1} # {} /\ {1, 2} # {}
    OBVIOUS
  <2>2. \A S \in SUBSET (DOMAIN two) :
            f[S] = IF S = {} THEN base
                   ELSE V!Append_(f[S \ {V!Max(S)}], two[V!Max(S)])
    BY <1>6
  <2> HIDE DEF Like
  <2>3. {} \in SUBSET {1, 2} /\ {1} \in SUBSET {1, 2} /\ {2} \in SUBSET {1, 2}
    OBVIOUS
  <2>4. f[{}] = base
    BY <1>2, <2>2, <2>3
  <2>5. f[{1}] = V!Append_(f[{}], b)
    BY <1>2, <1>3, <2>1, <2>2, <2>3
  <2>6. f[{1, 2}] = V!Append_(f[{1}], d)
    BY <1>2, <1>3, <2>1, <2>2, <2>3
  <2> QED
    BY <2>4, <2>5, <2>6
<1> QED
  BY <1>1, <1>2, <1>7 DEF two, base

LEMMA PrependTwo ==
    ASSUME NEW b, NEW d
    PROVE  V!PrependAll(<<b, d>>) = V!Prepend_(b, V!Prepend_(d, V!State))
<1> DEFINE two == <<b, d>>
           base == V!State
           Like(g) == g = [S \in SUBSET (DOMAIN two) |->
                             IF S = {} THEN base
                             ELSE V!Prepend_(two[V!Min(S)], g[S \ {V!Min(S)}])]
           f == CHOOSE g : Like(g)
           Folded == [S \in SUBSET (DOMAIN two) |->
                   IF S = {} THEN base
                   ELSE IF S = {1} THEN V!Prepend_(b, base)
                   ELSE IF S = {2} THEN V!Prepend_(d, base)
                   ELSE V!Prepend_(b, V!Prepend_(d, base))]
<1>1. V!PrependAll(two) = f[DOMAIN two]
  BY DEF V!PrependAll, V!FoldRight, V!MapThenFoldSet
<1>2. DOMAIN two = {1, 2} /\ two[1] = b /\ two[2] = d
  OBVIOUS
<1>3. V!Min({1}) = 1 /\ V!Min({2}) = 2 /\ V!Min({1, 2}) = 1
  <2>1. V!Min({1}) = 1
    BY LeastIs
  <2>2. V!Min({2}) = 2
    BY LeastIs
  <2>3. V!Min({1, 2}) = 1
    BY LeastIs
  <2> QED
    BY <2>1, <2>2, <2>3
<1>4. \A S \in SUBSET {1, 2} : S = {} \/ S = {1} \/ S = {2} \/ S = {1, 2}
  OBVIOUS
<1> HIDE DEF two, base
<1>5. Like(Folded)
  <2> SUFFICES ASSUME NEW S \in SUBSET (DOMAIN two)
               PROVE  Folded[S] = IF S = {} THEN base
                             ELSE V!Prepend_(two[V!Min(S)], Folded[S \ {V!Min(S)}])
    OBVIOUS
  <2>1. Folded[{}] = base /\ Folded[{1}] = V!Prepend_(b, base) /\ Folded[{2}] = V!Prepend_(d, base)
    BY <1>2
  <2>2. Folded[{1, 2}] = V!Prepend_(b, Folded[{2}])
    BY <1>2
  <2>3. {1} \ {1} = {} /\ {2} \ {2} = {} /\ {1, 2} \ {1} = {2}
    OBVIOUS
  <2> HIDE DEF Folded
  <2> QED
    BY <1>2, <1>3, <1>4, <2>1, <2>2, <2>3
<1>6. Like(f)
  <2> HIDE DEF Like
  <2> QED
    BY <1>5
<1> HIDE DEF f
<1>7. f[{}] = base /\ f[{2}] = V!Prepend_(d, f[{}]) /\ f[{1, 2}] = V!Prepend_(b, f[{2}])
  <2>1. {2} \ {2} = {} /\ {1, 2} \ {1} = {2} /\ {2} # {} /\ {1, 2} # {}
    OBVIOUS
  <2>2. \A S \in SUBSET (DOMAIN two) :
            f[S] = IF S = {} THEN base
                   ELSE V!Prepend_(two[V!Min(S)], f[S \ {V!Min(S)}])
    BY <1>6
  <2> HIDE DEF Like
  <2>3. {} \in SUBSET {1, 2} /\ {1} \in SUBSET {1, 2} /\ {2} \in SUBSET {1, 2}
    OBVIOUS
  <2>4. f[{}] = base
    BY <1>2, <2>2, <2>3
  <2>5. f[{2}] = V!Prepend_(d, f[{}])
    BY <1>2, <1>3, <2>1, <2>2, <2>3
  <2>6. f[{1, 2}] = V!Prepend_(b, f[{2}])
    BY <1>2, <1>3, <2>1, <2>2, <2>3
  <2> QED
    BY <2>4, <2>5, <2>6
<1> QED
  BY <1>1, <1>2, <1>7 DEF two, base

LEMMA TwoOf ==
    ASSUME NEW S, NEW s \in Seq(S), Len(s) = 2
    PROVE  s[1] \in S /\ s[2] \in S /\ s = <<s[1], s[2]>>
<1>1. s[1] \in S /\ s[2] \in S
  BY ElementOfSeq
<1> DEFINE p == <<s[1], s[2]>>
<1>2. p \in Seq(S) /\ Len(p) = 2 /\ p[1] = s[1] /\ p[2] = s[2]
  BY <1>1
<1> HIDE DEF p
<1>3. \A i \in 1..Len(s) : s[i] = p[i]
  BY <1>2
<1>4. s = p
  BY <1>2, <1>3, SeqEqual
<1> QED
  BY <1>1, <1>4 DEF p

LEMMA PairIs == ASSUME NEW b, NEW d PROVE <<b>> \o <<d>> = <<b, d>>
<1>1. <<b>> \in Seq({b, d}) /\ d \in {b, d}
  OBVIOUS
<1>2. Append(<<b>>, d) = <<b>> \o <<d>>
  BY <1>1, AppendIsConcat
<1>3. Append(<<b>>, d) = <<b, d>>
  <2> DEFINE p == Append(<<b>>, d)
  <2>1. Len(<<b>>) = 1 /\ <<b>>[1] = b
    OBVIOUS
  <2>2. /\ p \in Seq({b, d}) /\ Len(p) = Len(<<b>>) + 1
        /\ \A i \in 1..Len(<<b>>) : p[i] = <<b>>[i]
        /\ p[Len(<<b>>) + 1] = d
    BY <1>1, AppendProperties
  <2>3. Len(p) = 2 /\ p[1] = b /\ p[2] = d
    BY <2>1, <2>2
  <2> HIDE DEF p
  <2>4. p = <<p[1], p[2]>>
    BY <2>2, <2>3, TwoOf
  <2> QED
    BY <2>3, <2>4 DEF p
<1> QED
  BY <1>2, <1>3

\* What the vector takes of a batch, it holds.
LEMMA AppendsAll ==
    ASSUME NEW a, Carries(V!State, a), NEW took \in Seq(V!Buffer), Len(took) <= 2,
           V!Fits(Len(took))
    PROVE  Carries(V!AppendAll(took), a \o took)
<1>1. a \in Seq(V!Buffer)
  BY DEF Carries, Links
<1>2. V!State.items = items
  BY DEF V!State
<1>3. Len(took) \in 0..2
  <2>1. PICK n : n = Len(took)
    OBVIOUS
  <2>2. n \in Nat /\ n <= 2
    BY <2>1
  <2>3. n \in 0..2
    BY ONLY <2>2
  <2> QED
    BY <2>1, <2>3
<1>4. CASE Len(took) = 0
  <2>1. took = <<>> /\ a \o <<>> = a
    BY <1>1, <1>4
  <2> QED
    BY <2>1, AppendNone
<1>5. CASE Len(took) = 1
  <2>1. PICK b \in V!Buffer : took = <<b>>
    BY <1>5
  <2> DEFINE i == V!Fresh(V!State)
  <2>2. i \in Item /\ i \notin DOMAIN V!State.items
    BY <1>2, <1>5, RoomFor, FreshIs
  <2>3. Carries(V!AppendItem(V!State, i, b), Append(a, b))
    BY <2>2, AppendHolds
  <2>4. Append(a, b) = a \o took
    BY <1>1, <2>1, AppendIsConcat
  <2> QED
    BY <2>1, <2>3, <2>4, AppendOne DEF V!Append_
<1>6. CASE Len(took) = 2
  <2>1. PICK b \in V!Buffer, d \in V!Buffer : took = <<b, d>>
    BY <1>6, TwoOf
  <2> DEFINE i == V!Fresh(V!State)
             s == V!AppendItem(V!State, i, b)
             j == V!Fresh(s)
  <2>2. i \in Item /\ i \notin DOMAIN V!State.items
    BY <1>2, <1>6, RoomFor, FreshIs
  <2>3. Carries(s, Append(a, b)) /\ DOMAIN s.items = DOMAIN V!State.items \cup {i}
    BY <2>2, AppendHolds
  <2> HIDE DEF i, s
  <2>4. j \in Item /\ j \notin DOMAIN s.items
    BY <1>2, <1>6, <2>2, <2>3, RoomFor, FreshIs
  <2>5. Carries(V!AppendItem(s, j, d), Append(Append(a, b), d))
    BY <2>3, <2>4, AppendHolds
  <2>6. Append(Append(a, b), d) = a \o took
    <3>1. Append(a, b) = a \o <<b>> /\ Append(a, b) \in Seq(V!Buffer)
      BY <1>1, AppendIsConcat
    <3>2. Append(Append(a, b), d) = (a \o <<b>>) \o <<d>>
      BY <3>1, AppendIsConcat
    <3>3. (a \o <<b>>) \o <<d>> = a \o (<<b>> \o <<d>>)
      BY <1>1, ConcatAssociative
    <3>4. <<b>> \o <<d>> = took
      BY <2>1, PairIs
    <3> QED
      BY <3>2, <3>3, <3>4
  <2> QED
    BY <2>1, <2>5, <2>6, AppendTwo DEF V!Append_, s, i
<1> QED
  BY <1>3, <1>4, <1>5, <1>6

LEMMA PrependsAll ==
    ASSUME NEW a, Carries(V!State, a), NEW took \in Seq(V!Buffer), Len(took) <= 2,
           V!Fits(Len(took))
    PROVE  Carries(V!PrependAll(took), took \o a)
<1>1. a \in Seq(V!Buffer)
  BY DEF Carries, Links
<1>2. V!State.items = items
  BY DEF V!State
<1>3. Len(took) \in 0..2
  <2>1. PICK n : n = Len(took)
    OBVIOUS
  <2>2. n \in Nat /\ n <= 2
    BY <2>1
  <2>3. n \in 0..2
    BY ONLY <2>2
  <2> QED
    BY <2>1, <2>3
<1>4. CASE Len(took) = 0
  <2>1. took = <<>> /\ <<>> \o a = a
    BY <1>1, <1>4
  <2> QED
    BY <2>1, PrependNone
<1>5. CASE Len(took) = 1
  <2>1. PICK b \in V!Buffer : took = <<b>>
    BY <1>5
  <2> DEFINE i == V!Fresh(V!State)
  <2>2. i \in Item /\ i \notin DOMAIN V!State.items
    BY <1>2, <1>5, RoomFor, FreshIs
  <2>3. Carries(V!PrependItem(V!State, i, b), <<b>> \o a)
    BY <2>2, PrependHolds
  <2> QED
    BY <2>1, <2>3, PrependOne DEF V!Prepend_
<1>6. CASE Len(took) = 2
  <2>1. PICK b \in V!Buffer, d \in V!Buffer : took = <<b, d>>
    BY <1>6, TwoOf
  <2> DEFINE i == V!Fresh(V!State)
             s == V!PrependItem(V!State, i, d)
             j == V!Fresh(s)
  <2>2. i \in Item /\ i \notin DOMAIN V!State.items
    BY <1>2, <1>6, RoomFor, FreshIs
  <2>3. Carries(s, <<d>> \o a) /\ DOMAIN s.items = DOMAIN V!State.items \cup {i}
    BY <2>2, PrependHolds
  <2> HIDE DEF i, s
  <2>4. j \in Item /\ j \notin DOMAIN s.items
    BY <1>2, <1>6, <2>2, <2>3, RoomFor, FreshIs
  <2>5. Carries(V!PrependItem(s, j, b), <<b>> \o (<<d>> \o a))
    BY <2>3, <2>4, PrependHolds
  <2>6. <<b>> \o (<<d>> \o a) = took \o a
    <3>1. (<<b>> \o <<d>>) \o a = <<b>> \o (<<d>> \o a)
      BY <1>1, ConcatAssociative
    <3>2. <<b>> \o <<d>> = took
      BY <2>1, PairIs
    <3> QED
      BY <3>1, <3>2
  <2> QED
    BY <2>1, <2>5, <2>6, PrependTwo DEF V!Prepend_, s, i
<1> QED
  BY <1>3, <1>4, <1>5, <1>6

LEMMA NoneHeld ==
    ASSUME NEW s, DOMAIN s = {"items", "head", "tail", "num", "size"},
           DOMAIN s.items = {}, s.head = NULL, s.tail = NULL, s.num = 0, s.size = 0
    PROVE  Carries(s, <<>>)
<1>1. <<>> \in Seq(V!Buffer) /\ <<>> \in Seq(Item) /\ Len(<<>>) = 0
  OBVIOUS
<1>2. Links(s.items, s.head, s.tail, <<>>, <<>>)
  BY <1>1 DEF Links
<1> DEFINE t == [k \in {0} |-> 0]
<1>3. Totals(<<>>, t, s.size)
  BY <1>1 DEF Totals
<1> QED
  BY <1>1, <1>2, <1>3 DEF Carries

LEMMA BatchIs ==
    ASSUME NEW bs \in V!Batches
    PROVE  /\ bs \in Seq(V!Buffer) /\ Len(bs) \in 1..2
           /\ \A k \in DOMAIN bs : bs[k].owned = bs[1].owned
<1>1. PICK m \in 0..2 : bs \in [1..m -> V!Buffer]
  BY DEF V!Batches, V!BoundedSeq, V!SeqOf
<1>2. bs # <<>> /\ \A k \in DOMAIN bs : bs[k].owned = bs[1].owned
  BY Zenon DEF V!Batches
<1>3. bs \in Seq(V!Buffer) /\ Len(bs) = m
  BY <1>1
<1> QED
  BY <1>2, <1>3

\* The chain of a vector that holds what was added.
VecInv == Carries(V!State, added)

LEMMA BecomesHeld ==
    ASSUME NEW s, NEW a, Carries(s, a), V!Becomes(s), added' = a
    PROVE  VecInv'
<1>1. V!State' = [items |-> s.items, head |-> s.head, tail |-> s.tail, num |-> s.num,
                  size |-> s.size]
  BY DEF V!Becomes, V!State
<1>2. s.num = Len(a)
  BY DEF Carries
<1>3. \E c : Links(s.items, s.head, s.tail, a, c)
  BY DEF Carries
<1>4. \E t : Totals(a, t, s.size)
  BY DEF Carries
<1> DEFINE r == V!State'
<1>5. /\ DOMAIN r = {"items", "head", "tail", "num", "size"}
      /\ r.items = s.items /\ r.head = s.head /\ r.tail = s.tail /\ r.num = s.num
      /\ r.size = s.size
  BY <1>1
<1> HIDE DEF r
<1>6. Carries(r, a)
  BY <1>2, <1>3, <1>4, <1>5 DEF Carries
<1> QED
  BY <1>6 DEF VecInv, r

LEMMA InvIs ==
    ASSUME VecInv
    PROVE  /\ added \in Seq(V!Buffer) /\ num = Len(added)
           /\ Links(items, head, tail, added, V!Chain)
           /\ V!Range(V!Chain) = DOMAIN items
           /\ \E t : Totals(added, t, size)
<1>1. /\ V!State.items = items /\ V!State.head = head /\ V!State.tail = tail
      /\ V!State.num = num /\ V!State.size = size
  BY DEF V!State
<1>2. PICK c : Links(items, head, tail, added, c)
  BY <1>1 DEF VecInv, Carries
<1>3. num = Len(added) /\ \E t : Totals(added, t, size)
  BY <1>1 DEF VecInv, Carries
<1>4. V!Chain = c
  BY <1>2, ChainIs
<1>5. V!Range(c) = DOMAIN items
  <2>1. c \in Seq(Item) /\ \A k \in 1..Len(c) : c[k] \in DOMAIN items
    BY <1>2 DEF Links
  <2>2. \A i \in DOMAIN items : \E k \in 1..Len(c) : c[k] = i
    BY <1>2 DEF Links
  <2>3. V!Range(c) = {c[k] : k \in 1..Len(c)}
    BY <2>1 DEF V!Range
  <2> QED
    BY <2>1, <2>2, <2>3
<1>6. added \in Seq(V!Buffer)
  BY <1>2 DEF Links
<1> QED
  BY <1>2, <1>3, <1>4, <1>5, <1>6

\* What a batch took of it: its first buffers, or its last.
LEMMA TookIs ==
    ASSUME NEW bs \in V!Batches, NEW n \in 0..Len(bs)
    PROVE  /\ SubSeq(bs, 1, n) \in Seq(V!Buffer) /\ Len(SubSeq(bs, 1, n)) = n
           /\ SubSeq(bs, Len(bs) - n + 1, Len(bs)) \in Seq(V!Buffer)
           /\ Len(SubSeq(bs, Len(bs) - n + 1, Len(bs))) = n
           /\ n <= 2
           /\ \A k \in 1..n : /\ k \in DOMAIN bs /\ Len(bs) - n + k \in DOMAIN bs
                              /\ SubSeq(bs, 1, n)[k] = bs[k]
                              /\ SubSeq(bs, Len(bs) - n + 1, Len(bs))[k] = bs[Len(bs) - n + k]
<1>1. bs \in Seq(V!Buffer) /\ Len(bs) \in 1..2
  BY BatchIs
<1> DEFINE m == Len(bs) - n + 1
           first == SubSeq(bs, 1, n)
           last == SubSeq(bs, m, Len(bs))
<1>2. n \in Nat /\ n <= Len(bs) /\ n <= 2 /\ m \in 1..(Len(bs) + 1) /\ Len(bs) \in Nat
  <2>1. PICK l : l = Len(bs)
    OBVIOUS
  <2>2. l \in 1..2 /\ n \in 0..l
    BY <1>1, <2>1
  <2>3. n \in Nat /\ n <= l /\ n <= 2 /\ l - n + 1 \in 1..(l + 1) /\ l \in Nat
    BY ONLY <2>2
  <2> QED
    BY <2>1, <2>3
<1>3. DOMAIN bs = 1..Len(bs)
  BY <1>1
<1>4. \A k \in 1..n : k \in DOMAIN bs /\ Len(bs) - n + k \in DOMAIN bs /\ m + k - 1 = Len(bs) - n + k
  BY <1>2, <1>3
<1>5. (\A k \in 1..n : bs[k] \in V!Buffer) /\ \A k \in m..Len(bs) : bs[k] \in V!Buffer
  BY <1>1, <1>2
<1>6. /\ first \in Seq(V!Buffer)
      /\ Len(first) = (IF 1 <= n THEN n - 1 + 1 ELSE 0)
      /\ \A k \in 1..(n - 1 + 1) : first[k] = bs[1 + k - 1]
  BY <1>2, <1>5, SubSeqProperties
<1>7. /\ last \in Seq(V!Buffer)
      /\ Len(last) = (IF m <= Len(bs) THEN Len(bs) - m + 1 ELSE 0)
      /\ \A k \in 1..(Len(bs) - m + 1) : last[k] = bs[m + k - 1]
  BY <1>2, <1>5, SubSeqProperties
<1> HIDE DEF first, last
<1>8. Len(first) = n /\ \A k \in 1..n : first[k] = bs[k]
  BY <1>2, <1>6
<1>9. Len(bs) - m + 1 = n /\ (m <= Len(bs) <=> n # 0)
  BY <1>2
<1>10. Len(last) = n /\ \A k \in 1..n : last[k] = bs[Len(bs) - n + k]
  BY <1>4, <1>7, <1>9
<1> QED
  BY <1>2, <1>4, <1>6, <1>7, <1>8, <1>10 DEF first, last

LEMMA BatchKeeps ==
    ASSUME VecInv, NEW bs \in V!Batches, V!AppendIovecs(bs) \/ V!PrependIovecs(bs)
    PROVE  VecInv'
<1>1. CASE V!AppendIovecs(bs)
  <2>1. PICK n \in 0..Len(bs) : /\ V!Fits(n)
                                /\ V!Becomes(V!AppendAll(SubSeq(bs, 1, n)))
                                /\ added' = added \o SubSeq(bs, 1, n)
    BY <1>1 DEF V!AppendIovecs
  <2>2. SubSeq(bs, 1, n) \in Seq(V!Buffer) /\ Len(SubSeq(bs, 1, n)) = n /\ n <= 2
    BY TookIs
  <2>3. Carries(V!AppendAll(SubSeq(bs, 1, n)), added \o SubSeq(bs, 1, n))
    BY <2>1, <2>2, AppendsAll DEF VecInv
  <2> QED
    BY <2>1, <2>3, BecomesHeld
<1>2. CASE V!PrependIovecs(bs)
  <2> DEFINE took(n) == SubSeq(bs, Len(bs) - n + 1, Len(bs))
  <2>1. PICK n \in 0..Len(bs) : /\ V!Fits(n)
                                /\ V!Becomes(V!PrependAll(took(n)))
                                /\ added' = took(n) \o added
    BY <1>2 DEF V!PrependIovecs
  <2>2. took(n) \in Seq(V!Buffer) /\ Len(took(n)) = n /\ n <= 2
    BY TookIs
  <2>3. Carries(V!PrependAll(took(n)), took(n) \o added)
    BY <2>1, <2>2, PrependsAll DEF VecInv
  <2> QED
    BY <2>1, <2>3, BecomesHeld
<1> QED
  BY <1>1, <1>2

LEMMA FreeEmpties == ASSUME VecInv, V!Free PROVE VecInv'
<1> DEFINE new == [i \in DOMAIN items \ V!Range(V!Chain) |-> items[i]]
<1>1. /\ items' = new /\ head' = NULL /\ tail' = NULL /\ num' = 0 /\ size' = 0
      /\ added' = <<>>
  BY DEF V!Free
<1>2. DOMAIN new = {}
  BY InvIs
<1> HIDE DEF new
<1> DEFINE r == [items |-> new, head |-> NULL, tail |-> NULL, num |-> 0, size |-> 0]
<1>3. V!State' = r
  BY <1>1 DEF V!State
<1>4. Carries(r, <<>>)
  BY <1>2, NoneHeld
<1> HIDE DEF r
<1> QED
  BY <1>1, <1>3, <1>4 DEF VecInv

LEMMA VecInvHolds == LibSpec => []VecInv
<1>1. LibInit => VecInv
  <2> SUFFICES ASSUME LibInit PROVE VecInv
    OBVIOUS
  <2> DEFINE its == [i \in {} |-> NULL]
             r == [items |-> its, head |-> NULL, tail |-> NULL, num |-> 0, size |-> 0]
  <2>1. V!State = r /\ added = <<>>
    BY DEF LibInit, V!Init, V!State
  <2>2. DOMAIN its = {}
    OBVIOUS
  <2> HIDE DEF its
  <2>3. Carries(r, <<>>)
    BY <2>2, NoneHeld
  <2> HIDE DEF r
  <2> QED
    BY <2>1, <2>3 DEF VecInv
<1>2. VecInv /\ [LibNext]_libVars => VecInv'
  <2> SUFFICES ASSUME VecInv, [LibNext]_libVars PROVE VecInv'
    OBVIOUS
  <2>1. ASSUME NEW bs \in V!Batches, V!AppendIovecs(bs) \/ V!PrependIovecs(bs) PROVE VecInv'
    BY <2>1, BatchKeeps
  <2>2. CASE V!Free
    BY <2>2, FreeEmpties
  <2>3. CASE UNCHANGED <<items, head, tail, num, size, added>>
    <3>1. V!State' = V!State /\ added' = added
      BY <2>3 DEF V!State
    <3> QED
      BY <3>1 DEF VecInv
  <2>4. ASSUME NEW d, V!FreeMine(d) PROVE UNCHANGED <<items, head, tail, num, size, added>>
    BY <2>4 DEF V!FreeMine
  <2>5. CASE UNCHANGED vec
    BY <2>3, <2>5 DEF vec
  <2> QED
    BY <2>1, <2>2, <2>3, <2>4, <2>5 DEF LibNext, libVars, V!Next
<1> QED
  BY <1>1, <1>2, PTL DEF LibSpec

\* The chain of items is what was added, in its order, whatever was appended and
\* prepended and whatever ran out of memory; its tail is its end, its totals are
\* those that a scatter write takes, and every item is in it.
THEOREM VecHolds == LibSpec => []VecIsAdded
<1>1. VecInv => VecIsAdded
  <2> SUFFICES ASSUME VecInv PROVE VecIsAdded
    OBVIOUS
  <2> DEFINE c == V!Chain
             N == Len(added)
  <2>1. /\ added \in Seq(V!Buffer) /\ num = N /\ Links(items, head, tail, added, c)
        /\ V!Range(c) = DOMAIN items
    BY InvIs
  <2>2. PICK t : Totals(added, t, size)
    BY InvIs
  <2>3. N \in Nat /\ DOMAIN added = 1..N
    BY <2>1
  <2>4. c \in Seq(Item) /\ Len(c) = N /\ DOMAIN c = 1..N
    BY <2>1 DEF Links
  <2>5. V!ToIovec = [k \in DOMAIN c |-> [ptr |-> items[c[k]].ptr, size |-> items[c[k]].size]]
    BY DEF V!ToIovec
  <2>6. tail = IF N = 0 THEN NULL ELSE c[N]
    BY <2>1, <2>4 DEF Links
  <2>7. \A k \in 1..N : items[c[k]].ptr = added[k].ptr /\ items[c[k]].size = added[k].ptr
    BY <2>1, <2>4 DEF Links
  <2> HIDE DEF c, N
  <2>8. V!ToIovec = [k \in DOMAIN added |-> [ptr |-> added[k].ptr, size |-> added[k].ptr]]
    BY <2>3, <2>4, <2>5, <2>7
  <2>9. tail = IF c = <<>> THEN NULL ELSE V!Last(c)
    BY <2>3, <2>4, <2>6 DEF V!Last
  <2>10. size = V!IovecSize(V!ToIovec)
    <3>1. t[0] = 0 /\ size = t[N] /\ \A k \in 1..N : t[k] = t[k - 1] + added[k].ptr
      BY <2>2 DEF Totals, N
    <3> DEFINE s == V!ToIovec
    <3>2. DOMAIN s = 1..N /\ \A k \in 1..N : s[k].size = added[k].ptr
      BY <2>3, <2>8
    <3> HIDE DEF s
    <3>3. \A k \in 1..N : t[k] = t[k - 1] + s[k].size
      BY <3>1, <3>2
    <3>4. V!IovecSize(s) = t[N]
      BY <2>3, <3>1, <3>2, <3>3, SizeIs
    <3> QED
      BY <3>1, <3>4 DEF s
  <2> QED
    BY <2>1, <2>8, <2>9, <2>10 DEF VecIsAdded, V!VecIsAdded, c, N
<1> QED
  BY <1>1, VecInvHolds, PTL

-----------------------------------------------------------------------------
(* Whose the buffers are. *)

\* A caller that does not take a failed batch for refused has, of every allocated
\* buffer, the vector or itself to free it; one that looks forgets none.
OwnInv ==
    /\ torn \in BOOLEAN
    /\ assumes \in {"none", "all", "looks"}
    /\ torn => assumes = "none"
    /\ ~torn /\ assumes # "none" =>
          /\ mine \subseteq alive /\ V!Gives(added) \subseteq alive
          /\ V!Gives(added) \cap mine = {}
          /\ V!Ptrs(added) \subseteq known
          /\ \A j, k \in DOMAIN added : added[j].ptr = added[k].ptr => j = k
    /\ ~torn /\ assumes = "looks" => alive \subseteq mine \cup V!Gives(added)

LEMMA BothGive ==
    ASSUME NEW a \in Seq(V!Buffer), NEW b \in Seq(V!Buffer)
    PROVE  /\ V!Gives(a \o b) = V!Gives(a) \cup V!Gives(b)
           /\ V!Ptrs(a \o b) = V!Ptrs(a) \cup V!Ptrs(b)
<1> DEFINE ab == a \o b
           m == Len(a)
           n == Len(b)
<1>1. /\ DOMAIN ab = 1..(m + n) /\ m \in Nat /\ n \in Nat
      /\ \A k \in 1..m : ab[k] = a[k]
      /\ \A k \in 1..n : ab[m + k] = b[k]
  BY ConcatProperties
<1>2. DOMAIN a = 1..m /\ DOMAIN b = 1..n
  OBVIOUS
<1> HIDE DEF ab, m, n
<1>3. ASSUME NEW k \in DOMAIN ab
      PROVE  (k \in DOMAIN a /\ ab[k] = a[k]) \/ (k - m \in DOMAIN b /\ ab[k] = b[k - m])
  <2>1. CASE k <= m
    BY <1>1, <1>2, <2>1
  <2>2. CASE ~(k <= m)
    <3>1. k - m \in 1..n /\ m + (k - m) = k
      BY <1>1, <2>2
    <3> QED
      BY <1>1, <1>2, <3>1
  <2> QED
    BY <2>1, <2>2
<1>4. \A k \in DOMAIN a : k \in DOMAIN ab /\ ab[k] = a[k]
  BY <1>1, <1>2
<1>5. \A k \in DOMAIN b : m + k \in DOMAIN ab /\ ab[m + k] = b[k]
  BY <1>1, <1>2
<1>6. V!Gives(ab) = V!Gives(a) \cup V!Gives(b)
  BY <1>3, <1>4, <1>5 DEF V!Gives
<1>7. V!Ptrs(ab) = V!Ptrs(a) \cup V!Ptrs(b)
  BY <1>3, <1>4, <1>5 DEF V!Ptrs
<1> QED
  BY <1>6, <1>7 DEF ab

\* The pointers of two sequences together are different ones.
LEMMA BothDiffer ==
    ASSUME NEW a \in Seq(V!Buffer), NEW b \in Seq(V!Buffer),
           \A j, k \in DOMAIN a : a[j].ptr = a[k].ptr => j = k,
           \A j, k \in DOMAIN b : b[j].ptr = b[k].ptr => j = k,
           V!Ptrs(a) \cap V!Ptrs(b) = {}
    PROVE  \A j, k \in DOMAIN (a \o b) : (a \o b)[j].ptr = (a \o b)[k].ptr => j = k
<1> DEFINE ab == a \o b
           m == Len(a)
           n == Len(b)
<1>1. /\ DOMAIN ab = 1..(m + n) /\ m \in Nat /\ n \in Nat
      /\ \A k \in 1..m : ab[k] = a[k]
      /\ \A k \in 1..n : ab[m + k] = b[k]
  BY ConcatProperties
<1>2. DOMAIN a = 1..m /\ DOMAIN b = 1..n
  OBVIOUS
<1> HIDE DEF ab, m, n
<1>3. ASSUME NEW k \in DOMAIN ab
      PROVE  \/ k \in DOMAIN a /\ ab[k] = a[k] /\ a[k].ptr \in V!Ptrs(a)
             \/ k - m \in DOMAIN b /\ ab[k] = b[k - m] /\ b[k - m].ptr \in V!Ptrs(b)
  <2>1. CASE k <= m
    BY <1>1, <1>2, <2>1 DEF V!Ptrs
  <2>2. CASE ~(k <= m)
    <3>1. k - m \in 1..n /\ m + (k - m) = k
      BY <1>1, <2>2
    <3> QED
      BY <1>1, <1>2, <3>1 DEF V!Ptrs
  <2> QED
    BY <2>1, <2>2
<1>4. ASSUME NEW j \in DOMAIN ab, NEW k \in DOMAIN ab, ab[j].ptr = ab[k].ptr PROVE j = k
  <2>1. \/ j \in DOMAIN a /\ ab[j] = a[j] /\ a[j].ptr \in V!Ptrs(a)
        \/ j - m \in DOMAIN b /\ ab[j] = b[j - m] /\ b[j - m].ptr \in V!Ptrs(b)
    BY <1>3
  <2>2. \/ k \in DOMAIN a /\ ab[k] = a[k] /\ a[k].ptr \in V!Ptrs(a)
        \/ k - m \in DOMAIN b /\ ab[k] = b[k - m] /\ b[k - m].ptr \in V!Ptrs(b)
    BY <1>3
  <2>3. CASE j \in DOMAIN a /\ ab[j] = a[j] /\ k \in DOMAIN a /\ ab[k] = a[k]
    BY <1>4, <2>3
  <2>4. CASE j - m \in DOMAIN b /\ ab[j] = b[j - m] /\ k - m \in DOMAIN b /\ ab[k] = b[k - m]
    <3>1. j - m = k - m
      BY <1>4, <2>4
    <3>2. j \in Int /\ k \in Int /\ m \in Int
      BY <1>1
    <3> QED
      BY <3>1, <3>2
  <2> QED
    BY <1>4, <2>1, <2>2, <2>3, <2>4
<1> QED
  BY <1>4 DEF ab

\* A batch whose buffers are not the same one.
LEMMA BatchDiffers ==
    ASSUME NEW bs \in V!Batches, V!Addable(bs)
    PROVE  \A j, k \in DOMAIN bs : bs[j].ptr = bs[k].ptr => j = k
<1>1. bs \in Seq(V!Buffer) /\ Len(bs) \in 1..2
  BY BatchIs
<1>2. DOMAIN bs = 1..Len(bs)
  BY <1>1
<1>3. CASE Len(bs) = 1
  BY <1>2, <1>3
<1>4. CASE Len(bs) = 2
  <2>1. DOMAIN bs = {1, 2}
    BY <1>2, <1>4
  <2>2. ASSUME bs[1].ptr = bs[2].ptr PROVE FALSE
    <3>1. V!Ptrs(bs) = {bs[1].ptr}
      BY <2>1, <2>2 DEF V!Ptrs
    <3>2. Cardinality(V!Ptrs(bs)) = 1
      BY <3>1, FS_Singleton
    <3>3. Cardinality(V!Ptrs(bs)) = 2
      BY <1>4 DEF V!Addable, V!Cardinality, Cardinality
    <3> QED
      BY <3>2, <3>3
  <2> QED
    BY <2>1, <2>2
<1> QED
  BY <1>1, <1>3, <1>4

\* What a batch gives: what the vector takes of it was the caller's.
LEMMA TookGives ==
    ASSUME NEW bs \in V!Batches, NEW n \in 0..Len(bs), NEW took,
           took = SubSeq(bs, 1, n) \/ took = SubSeq(bs, Len(bs) - n + 1, Len(bs)),
           V!Addable(bs)
    PROVE  /\ took \in Seq(V!Buffer) /\ Len(took) = n
           /\ V!Gives(took) \subseteq V!Gives(bs) /\ V!Ptrs(took) \subseteq V!Ptrs(bs)
           /\ V!Gives(took) \subseteq V!Ptrs(bs)
           /\ \A j, k \in DOMAIN took : took[j].ptr = took[k].ptr => j = k
<1>1. \A j, k \in DOMAIN bs : bs[j].ptr = bs[k].ptr => j = k
  BY BatchDiffers
<1>2. took \in Seq(V!Buffer) /\ Len(took) = n
  BY TookIs
<1>3. DOMAIN took = 1..n
  BY <1>2
<1>4. PICK m \in Int : \A k \in 1..n : m + k \in DOMAIN bs /\ took[k] = bs[m + k]
  <2>1. CASE took = SubSeq(bs, 1, n)
    <3>1. \A k \in 1..n : 0 + k \in DOMAIN bs /\ took[k] = bs[0 + k]
      BY <2>1, TookIs
    <3>2. 0 \in Int
      OBVIOUS
    <3> QED
      BY <3>1, <3>2, Zenon
  <2>2. CASE took = SubSeq(bs, Len(bs) - n + 1, Len(bs))
    <3>1. \A k \in 1..n : Len(bs) - n + k \in DOMAIN bs /\ took[k] = bs[Len(bs) - n + k]
      BY <2>2, TookIs
    <3>2. Len(bs) - n \in Int
      BY BatchIs
    <3> QED
      BY <3>1, <3>2
  <2> QED
    BY <2>1, <2>2
<1>5. V!Gives(took) \subseteq V!Gives(bs) /\ V!Gives(took) \subseteq V!Ptrs(bs)
  BY <1>3, <1>4 DEF V!Gives, V!Ptrs
<1>6. V!Ptrs(took) \subseteq V!Ptrs(bs)
  BY <1>3, <1>4 DEF V!Ptrs
<1>7. ASSUME NEW j \in DOMAIN took, NEW k \in DOMAIN took, took[j].ptr = took[k].ptr
      PROVE  j = k
  <2>1. m + j \in DOMAIN bs /\ m + k \in DOMAIN bs /\ bs[m + j].ptr = bs[m + k].ptr
    BY <1>3, <1>4, <1>7
  <2>2. m + j = m + k
    BY <1>1, <2>1
  <2> QED
    BY <1>3, <2>2
<1> QED
  BY <1>2, <1>5, <1>6, <1>7

LEMMA BatchOwned ==
    ASSUME VecInv, OwnInv, NEW bs \in V!Batches, V!AppendIovecs(bs) \/ V!PrependIovecs(bs)
    PROVE  OwnInv'
<1> DEFINE Takes(n, took) ==
               /\ took = SubSeq(bs, 1, n) \/ took = SubSeq(bs, Len(bs) - n + 1, Len(bs))
               /\ added' = added \o took \/ added' = took \o added
               /\ V!Mine(bs, took)
<1>0. PICK n \in 0..Len(bs) : \E took : Takes(n, took)
  <2>1. CASE V!AppendIovecs(bs)
    <3>1. \E n \in 0..Len(bs) : /\ added' = added \o SubSeq(bs, 1, n)
                                /\ V!Mine(bs, SubSeq(bs, 1, n))
      BY <2>1 DEF V!AppendIovecs
    <3> QED
      BY <3>1
  <2>2. CASE V!PrependIovecs(bs)
    <3> DEFINE last(n) == SubSeq(bs, Len(bs) - n + 1, Len(bs))
    <3>1. \E n \in 0..Len(bs) : added' = last(n) \o added /\ V!Mine(bs, last(n))
      BY <2>2 DEF V!PrependIovecs
    <3> QED
      BY <3>1
  <2> QED
    BY <2>1, <2>2
<1>1. PICK took : /\ took = SubSeq(bs, 1, n) \/ took = SubSeq(bs, Len(bs) - n + 1, Len(bs))
                  /\ added' = added \o took \/ added' = took \o added
                  /\ V!Mine(bs, took)
  BY <1>0
<1> HIDE DEF Takes
<1>2. V!Addable(bs) /\ UNCHANGED <<assumes, alive, torn>>
  BY DEF V!AppendIovecs, V!PrependIovecs
<1>3. ~torn /\ V!Ptrs(bs) \subseteq mine /\ V!Ptrs(bs) \cap known = {}
  BY <1>2 DEF V!Addable
<1>4. /\ took \in Seq(V!Buffer) /\ Len(took) = n
      /\ V!Gives(took) \subseteq V!Gives(bs) /\ V!Ptrs(took) \subseteq V!Ptrs(bs)
      /\ V!Gives(took) \subseteq V!Ptrs(bs)
      /\ \A j, k \in DOMAIN took : took[j].ptr = took[k].ptr => j = k
  BY <1>1, <1>2, TookGives
<1>5. added \in Seq(V!Buffer)
  BY InvIs
<1>6. /\ V!Gives(added') = V!Gives(added) \cup V!Gives(took)
      /\ V!Ptrs(added') = V!Ptrs(added) \cup V!Ptrs(took)
  <2>1. /\ V!Gives(added \o took) = V!Gives(added) \cup V!Gives(took)
        /\ V!Ptrs(added \o took) = V!Ptrs(added) \cup V!Ptrs(took)
    BY <1>4, <1>5, BothGive
  <2>2. /\ V!Gives(took \o added) = V!Gives(took) \cup V!Gives(added)
        /\ V!Ptrs(took \o added) = V!Ptrs(took) \cup V!Ptrs(added)
    BY <1>4, <1>5, BothGive
  <2>3. CASE added' = added \o took
    BY <2>1, <2>3
  <2>4. CASE added' = took \o added
    BY <2>2, <2>4
  <2> QED
    BY <1>1, <2>3, <2>4
<1>7. ASSUME assumes # "none"
      PROVE  \/ mine' = mine \ V!Gives(bs) /\ known' = known \cup V!Ptrs(bs) /\ assumes # "looks"
             \/ mine' = mine \ V!Gives(took) /\ known' = known \cup V!Ptrs(took)
  <2>1. CASE Len(took) = Len(bs) \/ assumes = "looks"
    BY <1>1, <2>1 DEF V!Mine, V!Believes
  <2>2. CASE ~(Len(took) = Len(bs) \/ assumes = "looks") /\ assumes = "all"
    <3>1. n \in Nat /\ Len(bs) \in Nat /\ n < Len(bs)
      <4>1. PICK l : l = Len(bs)
        OBVIOUS
      <4>2. l \in 1..2 /\ n \in 0..l /\ n # l
        BY <1>4, <2>2, <4>1, BatchIs
      <4>3. n \in Nat /\ l \in Nat /\ n < l
        BY ONLY <4>2
      <4> QED
        BY <4>1, <4>3
    <3>2. Len(took) < Len(bs)
      BY <1>4, <3>1
    <3>3. V!Believes(bs)
      BY <1>1, <2>2, <3>2 DEF V!Mine
    <3> QED
      BY <2>2, <3>3 DEF V!Believes
  <2> QED
    BY <1>7, <1>2, <2>1, <2>2 DEF OwnInv
<1>8. ASSUME assumes # "none"
      PROVE  \A j, k \in DOMAIN added' : added'[j].ptr = added'[k].ptr => j = k
  <2>1. /\ \A j, k \in DOMAIN added : added[j].ptr = added[k].ptr => j = k
        /\ V!Ptrs(added) \cap V!Ptrs(took) = {}
    BY <1>3, <1>4, <1>8 DEF OwnInv
  <2>2. CASE added' = added \o took
    BY <1>4, <1>5, <2>1, <2>2, BothDiffer
  <2>3. CASE added' = took \o added
    BY <1>4, <1>5, <2>1, <2>3, BothDiffer
  <2> QED
    BY <1>1, <2>2, <2>3
<1>9. CASE assumes # "none"
  <2>1. /\ mine' \subseteq alive' /\ V!Gives(added') \subseteq alive'
        /\ V!Gives(added') \cap mine' = {} /\ V!Ptrs(added') \subseteq known'
    BY <1>2, <1>3, <1>4, <1>6, <1>7, <1>9 DEF OwnInv
  <2>2. assumes = "looks" => alive' \subseteq mine' \cup V!Gives(added')
    BY <1>2, <1>3, <1>4, <1>6, <1>7, <1>9 DEF OwnInv
  <2> QED
    BY <1>2, <1>3, <1>8, <1>9, <2>1, <2>2 DEF OwnInv
<1>10. CASE assumes = "none"
  BY <1>2, <1>3, <1>10 DEF OwnInv
<1> QED
  BY <1>9, <1>10

LEMMA FreesOwned ==
    ASSUME VecInv, OwnInv, V!Free
    PROVE  OwnInv'
<1> DEFINE freed == {i \in V!Range(V!Chain) : items[i].owned}
           ptrs == {items[i].ptr : i \in freed}
           c == V!Chain
           N == Len(c)
<1>1. /\ alive' = alive \ ptrs
      /\ torn' = (\/ ~(ptrs \subseteq alive)
                  \/ V!Cardinality(ptrs) # V!Cardinality(freed))
      /\ added' = <<>> /\ known' = {} /\ ~torn /\ UNCHANGED <<assumes, mine>>
  BY DEF V!Free
<1>2. /\ added \in Seq(V!Buffer) /\ Links(items, head, tail, added, c)
      /\ V!Range(c) = DOMAIN items
  BY InvIs
<1>3. /\ N \in Nat /\ Len(added) = N /\ DOMAIN added = 1..N
      /\ \A k \in 1..N : c[k] \in DOMAIN items
      /\ \A i \in DOMAIN items : \E k \in 1..N : c[k] = i
      /\ \A k \in 1..N : items[c[k]].ptr = added[k].ptr
  BY <1>2 DEF Links
<1>4. \A k \in 1..N : items[c[k]].owned = added[k].owned
  BY <1>2 DEF Links
<1>5. freed = {i \in DOMAIN items : items[i].owned}
  BY <1>2
<1> HIDE DEF c, N
<1>6. ptrs = V!Gives(added)
  <2>1. ASSUME NEW i \in freed PROVE items[i].ptr \in V!Gives(added)
    <3>1. PICK k \in 1..N : c[k] = i
      BY <1>3, <1>5
    <3>2. added[k].owned
      BY <1>4, <1>5, <3>1, Zenon
    <3>3. items[i].ptr = added[k].ptr /\ k \in DOMAIN added
      BY <1>3, <3>1
    <3> QED
      BY <3>2, <3>3 DEF V!Gives
  <2>2. ASSUME NEW k \in DOMAIN added, added[k].owned PROVE added[k].ptr \in ptrs
    <3>1. k \in 1..N /\ c[k] \in DOMAIN items /\ items[c[k]].ptr = added[k].ptr
      BY <1>3
    <3>2. items[c[k]].owned
      BY <1>4, <2>2, <3>1, Zenon
    <3>3. c[k] \in freed
      BY <1>5, <3>1, <3>2
    <3> QED
      BY <3>1, <3>3
  <2> HIDE DEF freed
  <2> QED
    BY <2>1, <2>2 DEF V!Gives
<1>7. ASSUME assumes # "none" PROVE Cardinality(ptrs) = Cardinality(freed)
  <2> DEFINE f == [i \in freed |-> items[i].ptr]
  <2>1. IsFiniteSet(freed)
    <3>1. IsFiniteSet(DOMAIN items)
      BY <1>2, LinksMany
    <3>2. freed \subseteq DOMAIN items
      BY <1>5
    <3> QED
      BY <3>1, <3>2, FS_Subset
  <2>2. ASSUME NEW i \in freed, NEW j \in freed, items[i].ptr = items[j].ptr PROVE i = j
    <3>1. PICK k \in 1..N : c[k] = i
      BY <1>3, <1>5
    <3>2. PICK m \in 1..N : c[m] = j
      BY <1>3, <1>5
    <3>3. added[k].ptr = added[m].ptr
      BY <1>3, <2>2, <3>1, <3>2
    <3>4. k = m
      BY <1>1, <1>3, <1>7, <3>3 DEF OwnInv
    <3> QED
      BY <3>1, <3>2, <3>4
  <2> HIDE DEF freed
  <2>3. f \in Bijection(freed, ptrs)
    BY <2>2 DEF Bijection, Injection, IsInjective, Surjection
  <2>4. ExistsBijection(freed, ptrs)
    BY <2>3 DEF ExistsBijection
  <2> QED
    BY <2>1, <2>4, FS_Bijection
<1>8. V!Cardinality(ptrs) = Cardinality(ptrs) /\ V!Cardinality(freed) = Cardinality(freed)
  BY DEF V!Cardinality, Cardinality
<1>9. V!Gives(added') = {} /\ V!Ptrs(added') = {} /\ DOMAIN added' = {}
  BY <1>1 DEF V!Gives, V!Ptrs
<1> HIDE DEF ptrs, freed
<1>10. CASE assumes # "none"
  <2>1. torn' = FALSE
    BY <1>1, <1>6, <1>7, <1>8, <1>10, Zenon DEF OwnInv
  <2> QED
    BY <1>1, <1>6, <1>9, <1>10, <2>1 DEF OwnInv
<1>11. CASE assumes = "none"
  <2>1. torn' \in BOOLEAN
    BY <1>1, Zenon
  <2> QED
    BY <1>1, <1>11, <2>1 DEF OwnInv
<1> QED
  BY <1>10, <1>11

LEMMA MineOwned ==
    ASSUME OwnInv, NEW d, V!FreeMine(d)
    PROVE  OwnInv'
<1>1. /\ ~torn /\ d \in mine /\ torn' = (d \notin alive) /\ alive' = alive \ {d}
      /\ mine' = mine \ {d} /\ UNCHANGED <<assumes, added, known>>
  BY DEF V!FreeMine
<1>2. V!Gives(added)' = V!Gives(added) /\ V!Ptrs(added)' = V!Ptrs(added)
  BY <1>1 DEF V!Gives, V!Ptrs
<1>3. torn' \in BOOLEAN
  BY <1>1, Zenon
<1>4. CASE assumes # "none"
  <2>1. torn' = FALSE
    BY <1>1, <1>4, Zenon DEF OwnInv
  <2> QED
    BY <1>1, <1>2, <1>4, <2>1 DEF OwnInv
<1>5. CASE assumes = "none"
  BY <1>1, <1>3, <1>5 DEF OwnInv
<1> QED
  BY <1>4, <1>5

\* Nothing is freed twice, and nothing forgotten, by a program that finds out what
\* the vector took of a batch that ran out of memory; only one that takes it for
\* refused frees twice.
THEOREM BuffersHaveOwners == LibSpec => []BuffersOwned
<1>1. LibInit => OwnInv
  <2> SUFFICES ASSUME LibInit PROVE OwnInv
    OBVIOUS
  <2>1. /\ torn = FALSE /\ alive = Data /\ mine = Data /\ known = {} /\ added = <<>>
        /\ assumes \in {"none", "all", "looks"}
    BY DEF LibInit, V!Init
  <2>2. V!Gives(added) = {} /\ V!Ptrs(added) = {} /\ DOMAIN added = {}
    BY <2>1 DEF V!Gives, V!Ptrs
  <2> QED
    BY <2>1, <2>2 DEF OwnInv
<1>2. VecInv /\ OwnInv /\ [LibNext]_libVars => OwnInv'
  <2> SUFFICES ASSUME VecInv, OwnInv, [LibNext]_libVars PROVE OwnInv'
    OBVIOUS
  <2>1. ASSUME NEW bs \in V!Batches, V!AppendIovecs(bs) \/ V!PrependIovecs(bs) PROVE OwnInv'
    BY <2>1, BatchOwned
  <2>2. CASE V!Free
    BY <2>2, FreesOwned
  <2>3. ASSUME NEW d, V!FreeMine(d) PROVE OwnInv'
    BY <2>3, MineOwned
  <2>4. CASE UNCHANGED vec
    <3>1. UNCHANGED <<assumes, alive, added, mine, known, torn>>
      BY <2>4 DEF vec
    <3>2. V!Gives(added)' = V!Gives(added) /\ V!Ptrs(added)' = V!Ptrs(added)
      BY <3>1 DEF V!Gives, V!Ptrs
    <3> QED
      BY <3>1, <3>2 DEF OwnInv
  <2> QED
    BY <2>1, <2>2, <2>3, <2>4 DEF LibNext, libVars, V!Next
<1>3. OwnInv => BuffersOwned
  BY DEF OwnInv, BuffersOwned, V!BuffersOwned
<1> QED
  BY <1>1, <1>2, <1>3, VecInvHolds, PTL DEF LibSpec

-----------------------------------------------------------------------------
(* Dying. *)

DieCalls == [warns : BOOLEAN, at : {"info", "msg", "print", "free"}, has : Nat]

\* Only a call from outside warns, and so returns; the message is printed once the
\* call at the top has only to free, or the process is dead.
DieInv ==
    /\ calls \in Seq(DieCalls)
    /\ dead = FALSE => blocks \in Nat
    /\ said \in {0, 1}
    /\ dead = TRUE => said = 1
    /\ dead = FALSE /\ calls = <<>> => blocks = 0
    /\ dead = FALSE /\ Len(calls) = 1 => blocks = calls[1].has
    /\ Len(calls) > 1 => allocs = "dies"
    /\ \A k \in 2..Len(calls) : calls[k].warns = FALSE
    /\ dead = FALSE /\ calls # <<>> => (said = 1 <=> calls[Len(calls)].at = "free")
    /\ dead \in BOOLEAN

LEMMA TopOf ==
  ASSUME NEW S, NEW s \in Seq(S), s # <<>>
  PROVE  Len(s) \in Nat /\ Len(s) >= 1 /\ s[Len(s)] \in S
  OBVIOUS

LEMMA WithTop ==
  ASSUME NEW S, NEW s \in Seq(S), s # <<>>, NEW e \in S
  PROVE  LET t == [s EXCEPT ![Len(s)] = e]
         IN  /\ t \in Seq(S) /\ Len(t) = Len(s) /\ t[Len(s)] = e
             /\ \A k \in 1..Len(s) : k # Len(s) => t[k] = s[k]
  OBVIOUS

LEMMA WithOneMore ==
  ASSUME NEW S, NEW s \in Seq(S), NEW e \in S
  PROVE  LET t == Append(s, e)
         IN  /\ t \in Seq(S) /\ Len(t) = Len(s) + 1 /\ t[Len(s) + 1] = e
             /\ \A k \in 1..Len(s) : t[k] = s[k]
  OBVIOUS

\* The call at the top has come to l and has the blocks.
TopBecomes(l, has) ==
    /\ calls' \in Seq(DieCalls)
    /\ Len(calls') = Len(calls)
    /\ calls'[Len(calls)].at = l
    /\ calls'[Len(calls)].has = has
    /\ calls'[Len(calls)].warns = calls[Len(calls)].warns
    /\ \A k \in 1..Len(calls) : k # Len(calls) => calls'[k] = calls[k]

LEMMA SetTopIs ==
  ASSUME calls \in Seq(DieCalls), calls # <<>>,
         NEW l \in {"info", "msg", "print", "free"}, NEW has \in Nat,
         calls' = D!SetTop(l, has)
  PROVE  TopBecomes(l, has)
<1> DEFINE top == [calls[Len(calls)] EXCEPT !.at = l, !.has = has]
<1>1. calls[Len(calls)] \in DieCalls
  BY TopOf
<1>2. top \in DieCalls /\ top.at = l /\ top.has = has /\ top.warns = calls[Len(calls)].warns
  BY <1>1 DEF DieCalls
<1>3. calls' = [calls EXCEPT ![Len(calls)] = top]
  BY DEF D!SetTop, D!Top, D!ReplaceAt, D!Last
<1> HIDE DEF top
<1> QED
  BY <1>2, <1>3, WithTop DEF TopBecomes

\* The call at the top goes on, and says no more than it has.
LEMMA TopMoves ==
  ASSUME DieInv, dead = FALSE, calls # <<>>, UNCHANGED <<allocs, dead>>,
         NEW l, NEW has \in Nat, TopBecomes(l, has),
         blocks' \in Nat, blocks' - blocks = has - calls[Len(calls)].has,
         said' \in {0, 1}, said' = 1 <=> l = "free"
  PROVE  DieInv'
<1> DEFINE n == Len(calls)
<1>1. n \in Nat /\ n >= 1 /\ calls[n] \in DieCalls
  BY TopOf DEF DieInv
<1>2. calls[n].has \in Nat
  BY <1>1 DEF DieCalls
<1>3. calls' # <<>> /\ Len(calls') = n
  BY <1>1 DEF TopBecomes
<1>4. \A k \in 2..n : calls'[k].warns = FALSE
  BY <1>1 DEF TopBecomes, DieInv
<1>5. n = 1 => blocks' = calls'[1].has
  BY <1>1, <1>2 DEF TopBecomes, DieInv
<1>6. said' = 1 <=> calls'[n].at = "free"
  BY DEF TopBecomes
<1>7. calls' \in Seq(DieCalls)
  BY DEF TopBecomes
<1>8. n > 1 => allocs' = "dies"
  BY DEF DieInv
<1> HIDE DEF n
<1> QED
  BY <1>3, <1>4, <1>5, <1>6, <1>7, <1>8 DEF DieInv

LEMMA FormatKeeps ==
  ASSUME DieInv, NEW l, NEW next, D!Format(l, next),
         <<l, next>> \in {<<"info", "msg">>, <<"msg", "print">>}
  PROVE  DieInv'
<1> DEFINE n == Len(calls)
<1>1. /\ dead = FALSE /\ calls # <<>> /\ calls[n].at = l /\ l # "free" /\ next # "free"
      /\ next \in {"info", "msg", "print", "free"}
      /\ UNCHANGED <<allocs, said, dead>>
  BY DEF D!Format, D!At, D!Top, D!Last, DieInv
<1>2. n \in Nat /\ n >= 1 /\ calls[n] \in DieCalls /\ blocks \in Nat /\ calls \in Seq(DieCalls)
  BY <1>1, TopOf DEF DieInv
<1>3. said = 0 /\ calls[n].has \in Nat
  BY <1>1, <1>2 DEF DieInv, DieCalls
<1>4. CASE blocks' = blocks + 1 /\ calls' = D!SetTop(next, D!Top.has + 1)
  <2>1. calls' = D!SetTop(next, calls[n].has + 1)
    BY <1>4 DEF D!Top, D!Last
  <2>2. TopBecomes(next, calls[n].has + 1)
    BY <1>1, <1>2, <1>3, <2>1, SetTopIs
  <2>3. /\ blocks' \in Nat /\ blocks' - blocks = (calls[n].has + 1) - calls[n].has
        /\ calls[n].has + 1 \in Nat
    BY <1>2, <1>3, <1>4
  <2>4. said' \in {0, 1} /\ ~(said' = 1)
    BY <1>1, <1>3
  <2> QED
    BY <1>1, <1>3, <2>2, <2>3, <2>4, TopMoves
<1>5. CASE calls' = D!SetTop(next, D!Top.has) /\ UNCHANGED blocks
  <2>1. calls' = D!SetTop(next, calls[n].has)
    BY <1>5 DEF D!Top, D!Last
  <2>2. TopBecomes(next, calls[n].has)
    BY <1>1, <1>2, <1>3, <2>1, SetTopIs
  <2>3. blocks' \in Nat /\ blocks' - blocks = calls[n].has - calls[n].has
    BY <1>2, <1>3, <1>5
  <2>4. said' \in {0, 1} /\ ~(said' = 1)
    BY <1>1, <1>3
  <2> QED
    BY <1>1, <1>3, <2>2, <2>3, <2>4, TopMoves
<1>6. CASE allocs = "dies" /\ calls' = Append(calls, D!Call(FALSE)) /\ UNCHANGED blocks
  <2> DEFINE call == D!Call(FALSE)
  <2>1. call \in DieCalls /\ call.at = "info" /\ call.warns = FALSE
    BY DEF D!Call, DieCalls
  <2> HIDE DEF call
  <2>2. calls' = Append(calls, call)
    BY <1>6 DEF call
  <2>3. /\ calls' \in Seq(DieCalls) /\ Len(calls') = n + 1 /\ calls'[n + 1] = call
        /\ \A k \in 1..n : calls'[k] = calls[k]
    BY <1>2, <2>1, <2>2, WithOneMore
  <2>4. \A k \in 2..(n + 1) : calls'[k].warns = FALSE
    BY <1>2, <2>1, <2>3 DEF DieInv
  <2>5. calls' # <<>> /\ Len(calls') # 1
    BY <1>2, <2>3
  <2>6. said' = 0 /\ calls'[Len(calls')].at # "free"
    BY <1>1, <1>3, <2>1, <2>3
  <2> QED
    BY <1>1, <1>2, <1>6, <2>3, <2>4, <2>5, <2>6 DEF DieInv
<1> QED
  BY <1>4, <1>5, <1>6 DEF D!Format

LEMMA OutputKeeps == ASSUME DieInv, D!Output PROVE DieInv'
<1> DEFINE n == Len(calls)
<1>1. /\ dead = FALSE /\ calls # <<>> /\ calls[n].at = "print"
      /\ calls' = D!SetTop("free", calls[n].has) /\ said' = said + 1
      /\ UNCHANGED <<allocs, blocks, dead>>
  BY DEF D!Output, D!At, D!Top, D!Last, DieInv
<1>2. n \in Nat /\ calls[n] \in DieCalls /\ blocks \in Nat /\ calls \in Seq(DieCalls)
  BY <1>1, TopOf DEF DieInv
<1>3. said = 0 /\ calls[n].has \in Nat
  BY <1>1, <1>2 DEF DieInv, DieCalls
<1>4. TopBecomes("free", calls[n].has)
  BY <1>1, <1>2, <1>3, SetTopIs
<1>5. blocks' \in Nat /\ blocks' - blocks = calls[n].has - calls[n].has
  BY <1>1, <1>2, <1>3
<1>6. said' \in {0, 1} /\ said' = 1
  BY <1>1, <1>3
<1> QED
  BY <1>1, <1>3, <1>4, <1>5, <1>6, TopMoves

LEMMA FreeKeeps == ASSUME DieInv, D!Free PROVE DieInv'
<1> DEFINE n == Len(calls)
<1>1. /\ dead = FALSE /\ calls # <<>> /\ calls[n].at = "free"
      /\ blocks' = blocks - calls[n].has
      /\ UNCHANGED <<allocs, said>>
  BY DEF D!Free, D!At, D!Top, D!Last, DieInv
<1>2. n \in Nat /\ n >= 1 /\ calls[n] \in DieCalls /\ said = 1
  BY <1>1, TopOf DEF DieInv
<1>3. CASE calls[n].warns /\ calls' = D!Front(calls) /\ UNCHANGED dead
  <2>1. n = 1
    <3> SUFFICES ASSUME n # 1 PROVE FALSE
      OBVIOUS
    <3>1. \A m \in Nat : m >= 1 /\ m # 1 => m \in 2..m
      OBVIOUS
    <3>2. \A k \in 2..n : calls[k].warns = FALSE
      BY DEF DieInv
    <3> HIDE DEF n
    <3> QED
      BY <1>2, <1>3, <3>1, <3>2
  <2>2. calls' = <<>>
    BY <1>3, <2>1 DEF D!Front, DieInv
  <2>3. blocks' = 0
    BY <1>1, <1>2, <2>1 DEF DieInv, DieCalls
  <2> QED
    BY <1>1, <1>2, <1>3, <2>2, <2>3 DEF DieInv
<1>4. CASE dead' = TRUE /\ UNCHANGED calls
  BY <1>1, <1>2, <1>4 DEF DieInv
<1> QED
  BY <1>3, <1>4 DEF D!Free, D!Top, D!Last

\* However often memory runs out in a call, and in the calls that makes, one
\* message is printed; a program that goes on after a warning has lost no memory.
THEOREM SpeaksOnce == LibSpec => []DiesOnce
<1>1. LibInit => DieInv
  <2> SUFFICES ASSUME LibInit PROVE DieInv
    OBVIOUS
  <2>1. calls = <<>> /\ blocks = 0 /\ said = 0 /\ dead = FALSE
    BY DEF LibInit, OldInit, D!Init
  <2>2. calls \in Seq(DieCalls) /\ Len(calls) = 0 /\ 2..Len(calls) = {}
    BY <2>1
  <2>3. \A k \in 2..Len(calls) : calls[k].warns = FALSE
    BY <2>2
  <2>4. calls \in Seq(DieCalls) /\ ~(Len(calls) > 1) /\ ~(Len(calls) = 1)
    BY <2>2
  <2> QED
    BY <2>1, <2>3, <2>4, Zenon DEF DieInv
<1>2. DieInv /\ [LibNext]_libVars => DieInv'
  <2> SUFFICES ASSUME DieInv, [LibNext]_libVars PROVE DieInv'
    OBVIOUS
  <2>1. ASSUME NEW warns \in BOOLEAN, D!Begin(warns) PROVE DieInv'
    <3>1. /\ dead = FALSE /\ calls' = <<D!Call(warns)>> /\ said' = 0 /\ blocks = 0
          /\ UNCHANGED <<allocs, blocks, dead>>
      BY <2>1 DEF D!Begin, DieInv
    <3> DEFINE call == D!Call(warns)
    <3>2. call \in DieCalls /\ call.has = 0 /\ call.at = "info"
      BY DEF D!Call, DieCalls
    <3>3. calls' = <<call>>
      BY <3>1
    <3> HIDE DEF call
    <3>4. calls' \in Seq(DieCalls) /\ Len(calls') = 1 /\ calls'[1] = call /\ calls' # <<>>
      BY <3>2, <3>3
    <3> QED
      BY <3>1, <3>2, <3>4 DEF DieInv
  <2>2. CASE D!Format("info", "msg") \/ D!Format("msg", "print")
    BY <2>2, FormatKeeps
  <2>3. CASE D!Output
    BY <2>3, OutputKeeps
  <2>4. CASE D!Free
    BY <2>4, FreeKeeps
  <2>5. CASE UNCHANGED dying
    BY <2>5 DEF dying, DieInv
  <2> QED
    BY <2>1, <2>2, <2>3, <2>4, <2>5 DEF LibNext, OldNext, libVars, oldVars, D!Next
<1>3. DieInv => DiesOnce
  BY DEF DieInv, DiesOnce, D!DiesOnce
<1> QED
  BY <1>1, <1>2, <1>3, PTL DEF LibSpec

-----------------------------------------------------------------------------
(* The store of files by path. *)

\* Nothing but processes of its kind is in the way of p.
Clear(p) ==
    /\ create[p] /\ ~absolute /\ ~full
    /\ file # "closed"
    /\ \A d \in 1..Depth : fs[d] \in {"absent", "dir"}

\* The directories that other processes than p made.
Others_(p) == {d \in 1..Depth : made[d] \notin {0, p}}

\* p is about to make a directory that another process has made.
Beaten(p) == ppc[p] = "mkdir" /\ fs[at[p]] = "dir"

PathType ==
    /\ fs \in [1..Depth -> {"absent", "dir", "file", "closed"}]
    /\ file \in {"absent", "readable", "closed"}
    /\ made \in [1..Depth -> Proc \cup {0}]
    /\ ppc \in [Proc -> {"idle", "stat", "access", "mkstat", "mkdir", "open", "done"}]
    /\ at \in [Proc -> Nat]
    /\ create \in [Proc -> BOOLEAN]
    /\ losses \in [Proc -> Nat]
    /\ \A d \in 1..Depth : fs[d] = "absent" => made[d] = 0
    /\ \A d \in 1..Depth : fs[d] \in {"file", "closed"} => \A e \in 1..(d - 1) : fs[e] = "dir"
    /\ \A p \in Proc : ppc[p] \in {"mkstat", "mkdir"} => at[p] \in 1..Depth

\* What p has passed is there, and each of its losses was to a directory that
\* another process made; the one it is about to lose to is made already.
PathInv ==
    /\ PathType
    /\ \A p \in Proc : Clear(p) =>
          /\ ppc[p] \in {"mkstat", "mkdir"} => \A e \in 1..(at[p] - 1) : fs[e] = "dir"
          /\ ppc[p] = "open" => \A e \in 1..Depth : fs[e] = "dir"
          /\ losses[p] + (IF Beaten(p) THEN 1 ELSE 0) <= Cardinality(Others_(p))

\* Where there are only directories, stat finds one or nothing.
LEMMA StatClear ==
  ASSUME PathType, NEW p \in Proc, Clear(p), NEW d \in 1..Depth
  PROVE  /\ P!Stat(d) \in {"dir", "ENOENT"}
         /\ P!Stat(d) = "dir" => \A e \in 1..d : fs[e] = "dir"
         /\ P!Stat(d) = "ENOENT" => \E e \in 1..d : fs[e] = "absent"
<1>1. \A e \in P!Before(d) : fs[e] = "absent"
  BY PathAssumption DEF P!Before, Clear, PathType
<1>2. CASE P!Before(d) = {} /\ fs[d] = "dir"
  <2>1. P!Stat(d) = "dir"
    BY <1>2 DEF P!Stat
  <2>2. \A e \in 1..d : fs[e] = "dir"
    BY <1>2, PathAssumption DEF P!Before
  <2> QED
    BY <2>1, <2>2
<1>3. CASE P!Before(d) = {} /\ fs[d] = "absent"
  BY <1>3, PathAssumption DEF P!Stat
<1>4. CASE P!Before(d) # {}
  <2>1. P!Stat(d) = "ENOENT"
    BY <1>1, <1>4 DEF P!Stat
  <2>2. \E e \in 1..d : fs[e] = "absent"
    BY <1>1, <1>4, PathAssumption DEF P!Before
  <2> QED
    BY <2>1, <2>2
<1> QED
  BY <1>2, <1>3, <1>4 DEF Clear

LEMMA OthersFinite ==
  ASSUME NEW p
  PROVE  IsFiniteSet(Others_(p)) /\ Cardinality(Others_(p)) \in Nat
<1>1. IsFiniteSet(1..Depth)
  BY PathAssumption, FS_Interval
<1> QED
  BY <1>1, FS_Subset, FS_CardinalityType DEF Others_

\* A step that makes no directory, and after which q is not beaten if it was not,
\* and has lost only if it was.
LEMMA PathSame ==
  ASSUME PathInv, PathType', UNCHANGED <<absolute, full, create, fs, made>>,
         file = "closed" => file' = "closed",
         \A p \in Proc : Clear(p) =>
             /\ ppc'[p] \in {"mkstat", "mkdir"} => \A e \in 1..(at'[p] - 1) : fs[e] = "dir"
             /\ ppc'[p] = "open" => \A e \in 1..Depth : fs[e] = "dir"
             /\ losses'[p] + (IF Beaten(p)' THEN 1 ELSE 0) <= losses[p] + (IF Beaten(p) THEN 1 ELSE 0)
  PROVE  PathInv'
<1>1. \A p \in Proc : Clear(p)' => Clear(p)
  BY DEF Clear
<1>2. \A p \in Proc : Others_(p)' = Others_(p)
  BY DEF Others_
<1>3. \A p \in Proc : Cardinality(Others_(p)) \in Nat
  BY OthersFinite
<1>4. \A p \in Proc : losses[p] \in Nat /\ losses'[p] \in Nat
  BY DEF PathInv, PathType
<1> QED
  BY <1>1, <1>2, <1>3, <1>4 DEF PathInv

LEMMA BeginStep ==
  ASSUME PathInv, NEW p \in Proc, P!Begin(p)
  PROVE  PathInv'
<1>1. PathType'
  BY DEF PathInv, PathType, P!Begin, P!Goto, P!Same
<1>2. UNCHANGED <<absolute, full, create, fs, made, file, at, losses>> /\ ppc' = [ppc EXCEPT ![p] = "stat"]
  BY DEF P!Begin, P!Goto, P!Same
<1>3. \A q \in Proc : ppc'[q] \in {ppc[q], "stat"}
  BY <1>2 DEF PathInv, PathType
<1>4. \A q \in Proc : ~Beaten(q) => ~Beaten(q)'
  BY <1>2, <1>3 DEF Beaten
<1>5. \A q \in Proc : losses[q] \in Nat
  BY DEF PathInv, PathType
<1> QED
  BY <1>1, <1>2, <1>3, <1>4, <1>5, PathSame DEF PathInv

\* Nothing happens to the others in a step of p.
Alone(p) == \A q \in Proc \ {p} : at'[q] = at[q] /\ losses'[q] = losses[q]

\* p has come to l: what it has passed is there, and it has not lost unless it was
\* beaten.
Fairly(p, l) == Clear(p) =>
    /\ l = "mkstat" => \A e \in 1..(at'[p] - 1) : fs[e] = "dir"
    /\ l = "open" => \A e \in 1..Depth : fs[e] = "dir"
    /\ losses'[p] <= losses[p] + (IF Beaten(p) THEN 1 ELSE 0)

\* Such a step, if p is not about to make a directory after it.
LEMMA StepSafely ==
  ASSUME PathInv, NEW p \in Proc, NEW l \in {"idle", "access", "open", "mkstat", "done"},
         PathType', UNCHANGED <<absolute, full, create, fs, made>>,
         file = "closed" => file' = "closed",
         ppc' = [ppc EXCEPT ![p] = l],
         Alone(p), Fairly(p, l)
  PROVE  PathInv'
<1>1. ppc'[p] = l /\ \A q \in Proc \ {p} : ppc'[q] = ppc[q]
  BY DEF PathInv, PathType
<1>2. ~Beaten(p)'
  BY <1>1 DEF Beaten
<1>3. \A q \in Proc \ {p} : Beaten(q)' = Beaten(q)
  BY <1>1 DEF Beaten, Alone
<1>4. \A q \in Proc : losses[q] \in Nat /\ losses'[q] \in Nat
  BY DEF PathInv, PathType
<1>5. ASSUME NEW q \in Proc, Clear(q)
      PROVE  /\ ppc'[q] \in {"mkstat", "mkdir"} => \A e \in 1..(at'[q] - 1) : fs[e] = "dir"
             /\ ppc'[q] = "open" => \A e \in 1..Depth : fs[e] = "dir"
             /\ losses'[q] + (IF Beaten(q)' THEN 1 ELSE 0) <= losses[q] + (IF Beaten(q) THEN 1 ELSE 0)
  <2>1. CASE q = p
    BY <1>1, <1>2, <1>4, <1>5, <2>1 DEF Fairly
  <2>2. CASE q # p
    BY <1>1, <1>3, <1>4, <1>5, <2>2 DEF PathInv, Alone
  <2> QED
    BY <2>1, <2>2
<1> QED
  BY <1>5, PathSame

LEMMA UsableStep ==
  ASSUME PathInv, NEW p \in Proc, P!UsableDir(p)
  PROVE  PathInv'
<1>0. UNCHANGED <<absolute, full, create, fs, made, file>>
  BY DEF P!UsableDir, P!Same
<1>1. CASE P!Unusable(p) /\ ~create[p]
  <2>1. /\ ppc' = [ppc EXCEPT ![p] = "idle"] /\ losses' = [losses EXCEPT ![p] = @ + 1]
        /\ UNCHANGED at
    BY <1>1 DEF P!Unusable, P!Fail, P!Goto
  <2>2. PathType'
    BY <1>0, <2>1 DEF PathInv, PathType
  <2>3. Fairly(p, "idle")
    BY <1>1 DEF Clear, Fairly
  <2>4. Alone(p)
    BY <2>1 DEF PathInv, PathType, Alone
  <2> QED
    BY <1>0, <2>1, <2>2, <2>3, <2>4, StepSafely
<1>2. CASE P!Unusable(p) /\ create[p]
  <2>1. /\ ppc' = [ppc EXCEPT ![p] = "mkstat"] /\ at' = [at EXCEPT ![p] = 1]
        /\ UNCHANGED losses
    BY <1>2 DEF P!Unusable, P!Goto
  <2>2. PathType'
    BY <1>0, <2>1, PathAssumption DEF PathInv, PathType
  <2>3. Alone(p)
    BY <2>1 DEF PathInv, PathType, Alone
  <2>4. Fairly(p, "mkstat")
    BY <2>1 DEF PathInv, PathType, Fairly
  <2> QED
    BY <1>0, <2>1, <2>2, <2>3, <2>4, StepSafely
<1>3. CASE P!Goto(p, "access") /\ UNCHANGED <<at, losses>>
  <2>1. ppc' = [ppc EXCEPT ![p] = "access"]
    BY <1>3 DEF P!Goto
  <2>2. PathType'
    BY <1>0, <1>3, <2>1 DEF PathInv, PathType
  <2>3. Alone(p) /\ Fairly(p, "access")
    BY <1>3 DEF PathInv, PathType, Alone, Fairly
  <2> QED
    BY <1>0, <2>1, <2>2, <2>3, StepSafely
<1>4. CASE P!Goto(p, "open") /\ UNCHANGED <<at, losses>> /\ P!Stat(Depth) = "dir"
  <2>1. ppc' = [ppc EXCEPT ![p] = "open"]
    BY <1>4 DEF P!Goto
  <2>2. PathType'
    BY <1>0, <1>4, <2>1 DEF PathInv, PathType
  <2>3. Clear(p) => \A e \in 1..Depth : fs[e] = "dir"
    BY <1>4, StatClear, PathAssumption DEF PathInv
  <2>4. Alone(p) /\ Fairly(p, "open")
    BY <1>4, <2>3 DEF PathInv, PathType, Alone, Fairly
  <2> QED
    BY <1>0, <2>1, <2>2, <2>4, StepSafely
<1> QED
  BY <1>1, <1>2, <1>3, <1>4 DEF P!UsableDir, PathInv, PathType

LEMMA MkStatStep ==
  ASSUME PathInv, NEW p \in Proc, P!MkStat(p)
  PROVE  PathInv'
<1>0. /\ UNCHANGED <<absolute, full, create, fs, made, file>>
      /\ ppc[p] = "mkstat" /\ at[p] \in 1..Depth /\ losses[p] \in Nat
  BY DEF P!MkStat, P!Same, PathInv, PathType
<1>1. CASE P!Fail(p) /\ UNCHANGED at /\ (absolute \/ P!Stat(at[p]) = "file")
  <2>1. ppc' = [ppc EXCEPT ![p] = "idle"] /\ losses' = [losses EXCEPT ![p] = @ + 1]
    BY <1>1 DEF P!Fail, P!Goto
  <2>2. PathType'
    BY <1>0, <1>1, <2>1 DEF PathInv, PathType
  <2>3. Fairly(p, "idle")
    BY <1>0, <1>1, StatClear DEF Clear, PathInv, Fairly
  <2>4. Alone(p)
    BY <1>1, <2>1 DEF PathInv, PathType, Alone
  <2> QED
    BY <1>0, <2>1, <2>2, <2>3, <2>4, StepSafely
<1>2. CASE P!Stat(at[p]) = "ENOENT" /\ P!Goto(p, "mkdir") /\ UNCHANGED <<at, losses>>
  <2>1. ppc' = [ppc EXCEPT ![p] = "mkdir"]
    BY <1>2 DEF P!Goto
  <2>2. PathType'
    BY <1>0, <1>2, <2>1 DEF PathInv, PathType
  <2>3. ppc'[p] = "mkdir" /\ \A q \in Proc \ {p} : ppc'[q] = ppc[q]
    BY <2>1 DEF PathInv, PathType
  <2>4. Clear(p) => fs[at[p]] = "absent"
    <3> SUFFICES ASSUME Clear(p) PROVE fs[at[p]] = "absent"
      OBVIOUS
    <3>1. \A e \in 1..(at[p] - 1) : fs[e] = "dir"
      BY <1>0 DEF PathInv
    <3>2. PICK e \in 1..at[p] : fs[e] = "absent"
      BY <1>0, <1>2, StatClear DEF PathInv
    <3> QED
      BY <1>0, <3>1, <3>2
  <2>5. ASSUME NEW q \in Proc, Clear(q)
        PROVE  /\ ppc'[q] \in {"mkstat", "mkdir"} => \A e \in 1..(at'[q] - 1) : fs[e] = "dir"
               /\ ppc'[q] = "open" => \A e \in 1..Depth : fs[e] = "dir"
               /\ losses'[q] + (IF Beaten(q)' THEN 1 ELSE 0) <= losses[q] + (IF Beaten(q) THEN 1 ELSE 0)
    <3>1. CASE q = p
      BY <1>0, <1>2, <2>3, <2>4, <2>5, <3>1 DEF PathInv, Beaten
    <3>2. CASE q # p
      <4>1. Beaten(q)' = Beaten(q)
        BY <1>0, <1>2, <2>3, <3>2 DEF Beaten
      <4>2. losses[q] \in Nat
        BY DEF PathInv, PathType
      <4> QED
        BY <1>2, <2>3, <2>5, <3>2, <4>1, <4>2 DEF PathInv
    <3> QED
      BY <3>1, <3>2
  <2> QED
    BY <1>0, <2>2, <2>5, PathSame
<1>3. CASE P!Advance(p) /\ UNCHANGED losses /\ P!Stat(at[p]) \in {"dir", "closed", "EACCES"}
  <2>1. PICK l \in {"open", "mkstat"} :
           /\ ppc' = [ppc EXCEPT ![p] = l]
           /\ l = IF at[p] = Depth THEN "open" ELSE "mkstat"
    BY <1>3 DEF P!Advance, P!Goto
  <2>2. at' = [at EXCEPT ![p] = @ + 1]
    BY <1>3 DEF P!Advance
  <2>3. PathType'
    BY <1>0, <1>3, <2>1, <2>2, PathAssumption DEF PathInv, PathType
  <2>4. at'[p] = at[p] + 1 /\ Alone(p)
    BY <1>3, <2>2 DEF PathInv, PathType, Alone
  <2>5. Clear(p) => \A e \in 1..at[p] : fs[e] = "dir"
    BY <1>0, <1>3, StatClear DEF PathInv
  <2>6. Fairly(p, l)
    BY <1>0, <1>3, <2>1, <2>4, <2>5 DEF Fairly
  <2> QED
    BY <1>0, <2>1, <2>3, <2>4, <2>6, StepSafely
<1> QED
  BY <1>1, <1>2, <1>3 DEF P!MkStat

LEMMA OpenStep ==
  ASSUME PathInv, NEW p \in Proc, P!OpenFile(p)
  PROVE  PathInv'
<1>0. /\ UNCHANGED <<absolute, full, create, fs, made, at>>
      /\ ppc[p] = "open" /\ losses[p] \in Nat
  BY DEF P!OpenFile, P!Same, PathInv, PathType
<1>1. CASE P!Goto(p, "done") /\ UNCHANGED losses
           /\ file' \in (IF file = "absent" THEN {"readable", "closed"} ELSE {file})
  <2>1. ppc' = [ppc EXCEPT ![p] = "done"]
    BY <1>1 DEF P!Goto
  <2>2. PathType'
    BY <1>0, <1>1, <2>1 DEF PathInv, PathType
  <2>3. Alone(p) /\ Fairly(p, "done")
    BY <1>0, <1>1 DEF PathInv, PathType, Alone, Fairly
  <2>4. file = "closed" => file' = "closed"
    BY <1>1
  <2> QED
    BY <1>0, <2>1, <2>2, <2>3, <2>4, StepSafely
<1>2. CASE /\ P!Fail(p) /\ UNCHANGED file
           /\ P!Stat(Depth) # "dir" \/ file = "closed" \/ (file = "absent" /\ ~create[p])
  <2>1. ppc' = [ppc EXCEPT ![p] = "idle"] /\ losses' = [losses EXCEPT ![p] = @ + 1]
    BY <1>2 DEF P!Fail, P!Goto
  <2>2. PathType'
    BY <1>0, <1>2, <2>1 DEF PathInv, PathType
  <2>3. ~Clear(p)
    <3> SUFFICES ASSUME Clear(p) PROVE FALSE
      OBVIOUS
    <3>1. \A e \in 1..Depth : fs[e] = "dir"
      BY <1>0 DEF PathInv
    <3>2. P!Stat(Depth) = "dir"
      BY <3>1, StatClear, PathAssumption DEF PathInv
    <3> QED
      BY <1>2, <3>2 DEF Clear
  <2>4. Alone(p) /\ Fairly(p, "idle")
    BY <1>0, <2>1, <2>3 DEF PathInv, PathType, Alone, Fairly
  <2> QED
    BY <1>0, <1>2, <2>1, <2>2, <2>4, StepSafely
<1> QED
  BY <1>1, <1>2 DEF P!OpenFile

\* Another one's directory is one more that p may lose to, and p is beaten by it
\* at most once.
LEMMA MkDirStep ==
  ASSUME PathInv, NEW p \in Proc, P!MkDir(p)
  PROVE  PathInv'
<1>0. /\ UNCHANGED <<absolute, full, create, file>>
      /\ ppc[p] = "mkdir" /\ at[p] \in 1..Depth /\ losses[p] \in Nat
  BY DEF P!MkDir, P!Same, PathInv, PathType
<1> DEFINE d == at[p]
<1>1. CASE P!Stat(d) = "ENOENT" /\ ~full
  <2>1. PICK l \in {"open", "mkstat"} :
           /\ ppc' = [ppc EXCEPT ![p] = l]
           /\ l = IF d = Depth THEN "open" ELSE "mkstat"
    BY <1>1 DEF P!MkDir, P!Advance, P!Goto
  <2>2. /\ fs' = [fs EXCEPT ![d] = "dir"] /\ made' = [made EXCEPT ![d] = p]
        /\ at' = [at EXCEPT ![p] = @ + 1] /\ UNCHANGED losses
    BY <1>1 DEF P!MkDir, P!Advance
  <2>3. PathType'
    BY <1>0, <2>1, <2>2, PathAssumption DEF PathInv, PathType
  <2>4. /\ ppc'[p] = l /\ at'[p] = d + 1 /\ fs'[d] = "dir" /\ made'[d] = p
        /\ \A q \in Proc \ {p} : ppc'[q] = ppc[q] /\ at'[q] = at[q]
        /\ \A e \in (1..Depth) \ {d} : fs'[e] = fs[e] /\ made'[e] = made[e]
    BY <1>0, <2>1, <2>2 DEF PathInv, PathType
  <2>5. ASSUME NEW q \in Proc, Clear(q)'
        PROVE  /\ ppc'[q] \in {"mkstat", "mkdir"} => \A e \in 1..(at'[q] - 1) : fs'[e] = "dir"
               /\ ppc'[q] = "open" => \A e \in 1..Depth : fs'[e] = "dir"
               /\ losses'[q] + (IF Beaten(q)' THEN 1 ELSE 0) <= Cardinality(Others_(q)')
    <3> DEFINE more == Others_(q)'
    <3>0. IsFiniteSet(Others_(q)) /\ Cardinality(Others_(q)) \in Nat /\ losses[q] \in Nat
      BY OthersFinite DEF PathInv, PathType
    <3>1. CASE fs[d] \in {"absent", "dir"}
      <4>1. Clear(q)
        BY <1>0, <2>4, <2>5, <3>1 DEF Clear
      <4>2. Clear(q) /\ Clear(p) => fs[d] = "absent"
        <5> SUFFICES ASSUME Clear(p) PROVE fs[d] = "absent"
          OBVIOUS
        <5>1. \A e \in 1..(d - 1) : fs[e] = "dir"
          BY <1>0 DEF PathInv
        <5>2. PICK e \in 1..d : fs[e] = "absent"
          BY <1>0, <1>1, StatClear DEF PathInv
        <5> QED
          BY <1>0, <5>1, <5>2
      <4>3. CASE q = p
        <5>1. Others_(q)' = Others_(q) \ {d}
          BY <1>0, <2>4, <4>3 DEF Others_
        <5>2. fs[d] = "absent" /\ made[d] = 0
          BY <1>0, <4>1, <4>2, <4>3 DEF PathInv, PathType
        <5>3. Others_(q)' = Others_(q)
          BY <5>1, <5>2 DEF Others_
        <5>4. ~Beaten(q)'
          <6>1. ppc'[q] # "mkdir"
            BY <2>1, <2>4, <4>3
          <6> QED
            BY <6>1 DEF Beaten
        <5>5. \A e \in 1..d : fs'[e] = "dir"
          <6>1. \A e \in 1..(d - 1) : fs[e] = "dir"
            BY <1>0, <4>1, <4>3 DEF PathInv
          <6> QED
            BY <1>0, <2>4, <6>1, PathAssumption
        <5>6. losses[q] <= Cardinality(Others_(q))
          BY <3>0, <4>1 DEF PathInv
        <5>7. losses'[q] + (IF Beaten(q)' THEN 1 ELSE 0) <= Cardinality(Others_(q)')
          BY <2>2, <3>0, <5>3, <5>4, <5>6
        <5>8. /\ ppc'[q] \in {"mkstat", "mkdir"} => \A e \in 1..(at'[q] - 1) : fs'[e] = "dir"
              /\ ppc'[q] = "open" => \A e \in 1..Depth : fs'[e] = "dir"
          BY <1>0, <2>1, <2>4, <4>3, <5>5
        <5> QED
          BY <5>7, <5>8
      <4>4. CASE q # p
        <5>1. fs[d] = "absent" => Others_(q)' = Others_(q) \cup {d} /\ d \notin Others_(q)
          BY <1>0, <2>4, <4>4, PathAssumption DEF Others_, PathInv, PathType
        <5>2. fs[d] = "dir" => Others_(q) \subseteq Others_(q)'
          BY <1>0, <2>4, <4>4, PathAssumption DEF Others_
        <5>3. /\ ppc'[q] \in {"mkstat", "mkdir"} => \A e \in 1..(at'[q] - 1) : fs'[e] = "dir"
              /\ ppc'[q] = "open" => \A e \in 1..Depth : fs'[e] = "dir"
          BY <2>4, <4>1, <4>4, PathAssumption DEF PathInv, PathType
        <5>4. fs[d] = "dir" => Beaten(q)' = Beaten(q)
          BY <1>0, <2>2, <2>4, <4>4 DEF Beaten, PathInv, PathType
        <5>5. losses[q] + (IF Beaten(q) THEN 1 ELSE 0) <= Cardinality(Others_(q))
          BY <4>1 DEF PathInv
        <5>6. CASE fs[d] = "absent"
          <6>1. Cardinality(Others_(q)') = Cardinality(Others_(q)) + 1
            BY <3>0, <5>1, <5>6, FS_AddElement
          <6> QED
            BY <2>2, <3>0, <5>3, <5>5, <6>1
        <5>7. CASE fs[d] = "dir"
          <6>1. IsFiniteSet(1..Depth)
            BY PathAssumption, FS_Interval
          <6>2. Others_(q)' \subseteq 1..Depth
            BY DEF Others_
          <6>3. IsFiniteSet(Others_(q)') /\ Cardinality(Others_(q)') \in Nat
            BY <6>1, <6>2, FS_Subset, FS_CardinalityType
          <6>4. Cardinality(Others_(q)) <= Cardinality(Others_(q)')
            BY <5>2, <5>7, <6>3, FS_Subset
          <6> QED
            BY <2>2, <3>0, <5>3, <5>4, <5>5, <5>7, <6>3, <6>4
        <5> QED
          BY <3>1, <5>6, <5>7
      <4> QED
        BY <4>3, <4>4
    <3>2. CASE fs[d] \in {"file", "closed"}
      <4>1. P!Before(d) = {}
        BY <1>0, <3>2, PathAssumption DEF P!Before, PathInv, PathType
      <4>2. P!Stat(d) # "ENOENT"
        BY <3>2, <4>1 DEF P!Stat
      <4> QED
        BY <1>1, <4>2
    <3> QED
      BY <1>0, <3>1, <3>2 DEF PathInv, PathType
  <2> QED
    BY <2>3, <2>5 DEF PathInv
<1>2. CASE ~(P!Stat(d) = "ENOENT" /\ ~full)
  <2>1. /\ ppc' = [ppc EXCEPT ![p] = "idle"] /\ losses' = [losses EXCEPT ![p] = @ + 1]
        /\ UNCHANGED <<fs, made, at>>
    BY <1>2 DEF P!MkDir, P!Fail, P!Goto
  <2>2. PathType'
    BY <1>0, <2>1 DEF PathInv, PathType
  <2>3. Clear(p) => Beaten(p)
    <3> SUFFICES ASSUME Clear(p) PROVE fs[d] = "dir"
      BY <1>0 DEF Beaten
    <3> QED
      BY <1>0, <1>2, StatClear DEF Clear, PathInv
  <2>4. Alone(p) /\ Fairly(p, "idle")
    BY <1>0, <2>1, <2>3 DEF PathInv, PathType, Alone, Fairly
  <2> QED
    BY <1>0, <2>1, <2>2, <2>4, StepSafely
<1> QED
  BY <1>1, <1>2

\* Where nothing but processes like it is in the way, a process that wants the
\* file made fails at most once for each directory that another one made, however
\* many processes and directories there are and however their calls interleave.
THEOREM LosesOnce == LibSpec => []LosesToOthers
<1>1. LibInit => PathInv
  <2> SUFFICES ASSUME P!Init PROVE PathInv
    BY DEF LibInit, OldInit
  <2>1. PathType
    BY PathAssumption DEF P!Init, PathType
  <2>2. \A p \in Proc : ppc[p] = "idle" /\ losses[p] = 0 /\ ~Beaten(p)
    BY DEF P!Init, Beaten
  <2>3. \A p \in Proc : Cardinality(Others_(p)) \in Nat
    BY OthersFinite
  <2> QED
    BY <2>1, <2>2, <2>3 DEF PathInv
<1>2. PathInv /\ [LibNext]_libVars => PathInv'
  <2> SUFFICES ASSUME PathInv, [LibNext]_libVars PROVE PathInv'
    OBVIOUS
  <2>1. CASE P!Next
    <3>1. PICK p \in Proc : P!Begin(p) \/ P!UsableDir(p) \/ P!MkStat(p) \/ P!MkDir(p) \/ P!OpenFile(p)
      BY <2>1 DEF P!Next
    <3> QED
      BY <3>1, BeginStep, UsableStep, MkStatStep, MkDirStep, OpenStep
  <2>2. CASE UNCHANGED paths
    <3>1. UNCHANGED <<absolute, full, fs, file, made, ppc, at, create, losses>>
      BY <2>2 DEF paths
    <3>2. PathType'
      BY <3>1 DEF PathInv, PathType
    <3>3. \A p \in Proc : Clear(p)' = Clear(p) /\ Beaten(p)' = Beaten(p) /\ Others_(p)' = Others_(p)
      BY <3>1 DEF Clear, Beaten, Others_
    <3> QED
      BY <3>1, <3>2, <3>3 DEF PathInv
  <2> QED
    BY <2>1, <2>2 DEF LibNext, libVars, OldNext, oldVars
<1>3. PathInv => LosesToOthers
  <2> SUFFICES ASSUME PathInv PROVE LosesToOthers
    OBVIOUS
  <2>1. ASSUME NEW p \in Proc, Clear(p)
        PROVE  losses[p] <= Cardinality(Others_(p))
    <3>1. losses[p] + (IF Beaten(p) THEN 1 ELSE 0) <= Cardinality(Others_(p))
      BY <2>1 DEF PathInv
    <3>2. losses[p] \in Nat /\ Cardinality(Others_(p)) \in Nat
      BY OthersFinite DEF PathInv, PathType
    <3> QED
      BY <3>1, <3>2
  <2> QED
    <3> SUFFICES ASSUME NEW p \in Proc, create[p], ~absolute, ~full, file # "closed",
                        \A d \in 1..Depth : fs[d] \in {"absent", "dir"}
                 PROVE  losses[p] <= Cardinality({d \in 1..Depth : made[d] \notin {0, p}})
      BY DEF LosesToOthers, P!LosesToOthers, P!Cardinality, Cardinality
    <3> QED
      BY <2>1 DEF Clear, Others_
<1> QED
  BY <1>1, <1>2, <1>3, PTL DEF LibSpec
=============================================================================
