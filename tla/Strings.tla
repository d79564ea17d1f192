------------------------------ MODULE Strings ------------------------------
(***************************************************************************)
(* The functions of a/util.c that make strings: appending, formatting,     *)
(* taking the name out of a path, and cutting white space, on the heap of  *)
(* Mem.  One step is a call.  A string is its length: text[b] for the      *)
(* block b that holds it, where the terminator has to fit as well.         *)
(*                                                                         *)
(* vsnprintf is external: C99's, or an older one that returns -1 when the  *)
(* text and its terminator do not fit.                                     *)
(***************************************************************************)
EXTENDS Mem

CONSTANT MaxLen  \* bound: the longest string

ASSUME MaxLenAssumption == MaxLen \in Nat

VARIABLES
    sloppy,  \* whether callers append to no string and overwrite their only
             \* pointer with the result, format an empty or an impossible
             \* format, and chomp an empty string
    libc,    \* "c99" or "old"
    text,
    lost,    \* the blocks that nobody points to any more
    wild,    \* memory outside of a block was used
    hung     \* a loop that does not end

strings == <<sloppy, libc, text, lost, wild, hung>>

StringsInit ==
    /\ sloppy \in BOOLEAN
    /\ libc \in {"c99", "old"}
    /\ text = [b \in {} |-> 0]
    /\ lost = {}
    /\ wild = FALSE
    /\ hung = FALSE

Going == Running /\ ~wild /\ ~hung
Steady == UNCHANGED <<zeroes, died, fault, sloppy, libc>>

\* Block b has taken the place of in, and holds n characters.
Holds(b, in, n) ==
    text' = [c \in (DOMAIN text \ {in}) \cup {b} |-> IF c = b THEN n ELSE text[c]]

NewString(n) ==
    \E b \in Block :
        /\ Gets(b, NULL, n + 1)
        /\ Return(b)
        /\ Holds(b, NULL, n)

Nothing == ReturnNULL /\ UNCHANGED text

-----------------------------------------------------------------------------
(* Appending. *)

Strlen(s) == IF s = NULL THEN 0 ELSE text[s]

\* a_realloc has returned b.  Where there was no string, strcat looks for the
\* end of one in memory that nothing was written to, and may find it too late.
Appended(b, orig, n) ==
    /\ held' = (held \ {orig}) \cup {b}
    /\ ret' = b
    /\ \E old \in IF orig = NULL THEN {0, 1} ELSE {text[orig]} :
        /\ Holds(b, orig, old + n)
        /\ wild' = (old > Strlen(orig))
    /\ UNCHANGED lost

\* a_realloc has returned NULL, and the string is where it was.  The test of the
\* function assigns the result to the pointer it passed.
AppendFailed(orig) ==
    /\ ret' = NULL
    /\ UNCHANGED <<heap, text, wild>>
    /\ \/ UNCHANGED <<held, lost>>
       \/ /\ sloppy
          /\ held' = held \ {orig}
          /\ lost' = lost \cup ({orig} \ {NULL})

\* There is nothing to append: add is NULL.
NotAppended(orig) ==
    /\ ret' = orig
    /\ UNCHANGED <<heap, held, text, lost, wild>>

\* Fault: no room for the terminator.
StrcatReallocTight(orig, n) ==
    /\ Going
    /\ orig \in (DOMAIN text \cap held) \cup {NULL}
    /\ orig = NULL => sloppy
    /\ Strlen(orig) + n <= MaxLen
    /\ \/ \E b \in Block : Gets(b, orig, Strlen(orig) + n) /\ Appended(b, orig, n)
       \/ AppendFailed(orig)
       \/ NotAppended(orig)
    /\ UNCHANGED hung
    /\ Steady

StrcatRealloc(orig, n) ==
    /\ Going
    /\ orig \in (DOMAIN text \cap held) \cup {NULL}
    /\ orig = NULL => sloppy
    /\ Strlen(orig) + n <= MaxLen
    /\ \/ \E b \in Block : Gets(b, orig, Strlen(orig) + n + 1) /\ Appended(b, orig, n)
       \/ AppendFailed(orig)
       \/ NotAppended(orig)
    /\ UNCHANGED hung
    /\ Steady

\* Two empty parts make a size of zero: the block is freed, and NULL returned.
MemcatRealloc(a, n) ==
    /\ Going
    /\ a \in (held \ DOMAIN text) \cup {NULL}
    /\ LET size == n + IF a = NULL THEN 0 ELSE heap[a] IN
        /\ size <= MaxLen
        /\ Realloc(a, size)
    /\ UNCHANGED strings

-----------------------------------------------------------------------------
(* Names. *)

\* Fault: the block that cannot be cut to size stays, and NULL is returned.
BarenameKeeps(n) ==
    /\ Going
    /\ \/ \E k \in 0..n : NewString(k)
       \/ Nothing
       \/ /\ n > 0
          /\ \E b \in Block : Gets(b, NULL, n + 1)
          /\ ret' = NULL
          /\ UNCHANGED <<held, text>>
    /\ UNCHANGED <<lost, wild, hung>>
    /\ Steady

\* n is the length of the path without its directories.  A copy of that is cut
\* at its last dot; when the block cannot be cut to size it is freed.
Barename(n) ==
    /\ Going
    /\ \/ \E k \in 0..n : NewString(k)
       \/ Nothing
    /\ UNCHANGED <<lost, wild, hung>>
    /\ Steady

\* GetFullPathName returns the size with the terminator when it is asked for
\* it, and the length without it when it writes the path.  a_fullpath compares
\* the two, frees its block, and fails.
Fullpath ==
    /\ Going
    /\ Nothing
    /\ UNCHANGED <<lost, wild, hung>>
    /\ Steady

-----------------------------------------------------------------------------
(* Formatting. *)

\* What a_vsprintf_find_len returns for n characters.  An empty format is tried
\* with a buffer of size zero, which C99's vsnprintf does not write to: what is
\* measured there is whatever the stack holds.
FindLen(empty, n) == IF empty THEN 1..MaxLen + 1 ELSE {n + 1}

\* A guess that is twice nothing stays nothing, and a conversion that always
\* fails fails for every guess.
FindLenHangs(empty, impossible) == impossible \/ (empty /\ libc = "old")

\* a_vsprintf_malloc and a_sprintf_malloc.
VsprintfMalloc(empty, impossible, n) ==
    /\ Going
    /\ empty \/ impossible => sloppy
    /\ empty => n = 0
    /\ \/ /\ FindLenHangs(empty, impossible)
          /\ hung' = TRUE
          /\ UNCHANGED <<heap, held, ret, text>>
       \/ /\ ~FindLenHangs(empty, impossible)
          /\ \/ \E len \in FindLen(empty, n), b \in Block :
                    /\ Gets(b, NULL, len)
                    /\ Return(b)
                    /\ Holds(b, NULL, n)
             \/ Nothing
          /\ UNCHANGED hung
    /\ UNCHANGED <<lost, wild>>
    /\ Steady

-----------------------------------------------------------------------------
(* White space at the end. *)

\* All of it.
Chomp(s) ==
    /\ Going
    /\ s \in DOMAIN text \cap held
    /\ \E n \in 0..text[s] : Holds(s, s, n)
    /\ ret' = s
    /\ UNCHANGED <<heap, held, lost, wild, hung>>
    /\ Steady

\* One character of it.  That of an empty string is before the block.
Strchomp(s) ==
    /\ Going
    /\ s \in DOMAIN text \cap held
    /\ text[s] = 0 => sloppy
    /\ \/ /\ text[s] > 0
          /\ \E n \in {text[s], text[s] - 1} : Holds(s, s, n)
          /\ UNCHANGED wild
       \/ /\ text[s] = 0
          /\ wild' = TRUE
          /\ UNCHANGED text
    /\ ret' = s
    /\ UNCHANGED <<heap, held, lost, hung>>
    /\ Steady

FreeString(s) ==
    /\ Going
    /\ Free(s)
    /\ text' = [b \in DOMAIN text \ {s} |-> text[b]]
    /\ UNCHANGED <<sloppy, libc, lost, wild, hung>>

StringsNext ==
    \/ \E n \in 0..MaxLen :
        \/ Barename(n)
        \/ \E empty, impossible \in BOOLEAN : VsprintfMalloc(empty, impossible, n)
        \/ \E s \in Block \cup {NULL} : StrcatRealloc(s, n) \/ MemcatRealloc(s, n)
    \/ Fullpath
    \/ \E s \in Block : Chomp(s) \/ Strchomp(s) \/ FreeString(s)

-----------------------------------------------------------------------------
(* Properties. *)

\* Every block is the callers', or is the string of a caller that overwrote its
\* only pointer with the NULL of a failed append; and none is freed twice, unless
\* a_realloc_free is called with size zero.
Accounted ==
    /\ fault => zeroes
    /\ held \cup lost = Allocated
    /\ held \cap lost = {}
    /\ lost # {} => sloppy

\* Every string and its terminator are within their block, whatever was appended,
\* formatted or cut, and nothing else of the memory is used, unless a caller
\* appends to nothing or hands over something empty.
StringsFit ==
    /\ wild \/ hung => sloppy
    /\ ~wild => \A b \in DOMAIN text : b \in Allocated /\ text[b] < heap[b]
=============================================================================
