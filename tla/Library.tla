------------------------------ MODULE Library ------------------------------
(***************************************************************************)
(* The programs that use one of the library's stores for themselves: the   *)
(* heap of a/mem.c, its strings of a/util.c, the vector of a/old/vec.c,    *)
(* the resolver of a/resolve.c, the log of a/to_do/log.c, or one of those  *)
(* of OldLibrary.                                                          *)
(***************************************************************************)
EXTENDS Strings, OldLibrary, Sequences

CONSTANTS Item, Data, Lengths, Slacks, MaxBuffer

ASSUME VecAssumption == Data \subseteq Nat /\ NULL \notin Item
ASSUME ResolverAssumption == Lengths \subseteq Nat \ {0} /\ Slacks \subseteq Nat /\ MaxBuffer \in Nat

VARIABLES
    client,  \* "blocks", "strings", "vec", "resolve", "log", or one of OldClients
    assumes, items, head, tail, num, size, alive, added, mine, known, torn,
    orip, name, slack, buf, outlen, room, used, answer, tries,
    target, paired, type, slot, handle, live, ltold, sent, bad

vec == <<assumes, items, head, tail, num, size, alive, added, mine, known, torn>>
resolve == <<orip, name, slack, buf, outlen, room, used, answer, tries>>
log == <<target, paired, type, slot, handle, live, ltold, sent, bad>>
libVars == <<client, vars, strings, vec, resolve, log, oldVars>>

V == INSTANCE Vec
R == INSTANCE Resolve
L == INSTANCE Log

\* What a store that is not the program's is like does not matter.
LibInit ==
    /\ client \in {"blocks", "strings", "vec", "resolve", "log"} \cup OldClients
    /\ Init /\ (client # "blocks" => zeroes)
    /\ StringsInit /\ (client # "strings" => sloppy /\ libc = "c99")
    /\ V!Init /\ (client # "vec" => assumes = "looks")
    /\ R!Init /\ (client # "resolve" => orip /\ name = 0 /\ slack = 0 /\ buf = 0)
    /\ L!Init /\ (client # "log" => target = "unix" /\ paired)
    /\ OldInit(client)

LibNext ==
    /\ UNCHANGED client
    /\ \/ client = "blocks"  /\ Next /\ UNCHANGED <<strings, vec, resolve, log, oldVars>>
       \/ client = "strings" /\ StringsNext /\ UNCHANGED <<vec, resolve, log, oldVars>>
       \/ client = "vec"     /\ V!Next /\ UNCHANGED <<vars, strings, resolve, log, oldVars>>
       \/ client = "resolve" /\ R!Next /\ UNCHANGED <<vars, strings, vec, log, oldVars>>
       \/ client = "log"     /\ L!Next /\ UNCHANGED <<vars, strings, vec, resolve, oldVars>>
       \/ OldNext(client) /\ UNCHANGED <<vars, strings, vec, resolve, log>>

LibSpec == LibInit /\ [][LibNext]_libVars

-----------------------------------------------------------------------------
(* Properties. *)

VecIsAdded == V!VecIsAdded
BuffersOwned == V!BuffersOwned
RetryHelps == R!RetryHelps
LogSafe == L!LogSafe
=============================================================================
