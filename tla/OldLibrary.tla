----------------------------- MODULE OldLibrary -----------------------------
(***************************************************************************)
(* What is left of the older library, in a/old and in old: errors and      *)
(* cleanups, dying, reading and writing, and the store of files by path.   *)
(* They share nothing; a program that uses one of them is a client of      *)
(* Library.                                                                *)
(***************************************************************************)
EXTENDS Naturals, FiniteSets

CONSTANTS Code, Resource, MaxReports, MaxCalls, Length, MaxErrors, Proc, Depth, MaxTries

\* The names that mkdir_p goes through end in the two bytes.
ASSUME PathAssumption == Depth \in Nat /\ Depth >= 2 /\ 0 \notin Proc

\* There is something to clean up.
ASSUME ResourceAssumption == IsFiniteSet(Resource) /\ Resource # {}

\* A text may have no characters.
ASSUME FilesAssumption == Length \in Nat

VARIABLES
    epc, todo, stack, mallocError, resource, cstatus,
    allocs, calls, blocks, said, dead,
    wpc, wtmp, wlen, writelen, stream, werrors, wret, rpc, rheap, rbuf, rest, fds, rret,
    absolute, full, fs, file, made, ppc, at, create, losses

errors == <<epc, todo, stack, mallocError, resource, cstatus>>
dying == <<allocs, calls, blocks, said, dead>>
files == <<wpc, wtmp, wlen, writelen, stream, werrors, wret, rpc, rheap, rbuf, rest, fds, rret>>
paths == <<absolute, full, fs, file, made, ppc, at, create, losses>>
oldVars == <<errors, dying, files, paths>>

E == INSTANCE OldError
D == INSTANCE OldDie
F == INSTANCE OldFiles
P == INSTANCE PathStore

OldClients == {"errors", "dying", "files", "paths"}

\* The program uses the one named by which, if any; what the others are like does
\* not matter.
OldInit(which) ==
    /\ E!Init /\ (which # "errors" => \A r \in Resource : resource[r] = "closed")
    /\ D!Init /\ (which # "dying" => allocs = "returns")
    /\ F!Init
    /\ P!Init /\ (which # "paths" => absolute /\ full /\ fs[1] = "absent" /\ \A p \in Proc : create[p])

OldNext(which) ==
    \/ which = "errors" /\ E!Next /\ UNCHANGED <<dying, files, paths>>
    \/ which = "dying" /\ D!Next /\ UNCHANGED <<errors, files, paths>>
    \/ which = "files" /\ F!Next /\ UNCHANGED <<errors, dying, paths>>
    \/ which = "paths" /\ P!Next /\ UNCHANGED <<errors, dying, files>>

-----------------------------------------------------------------------------
(* Properties: what each of them promises its program. *)

CleanTells == E!CleanTells
DiesOnce == D!DiesOnce
StreamsExact == F!StreamsExact
LosesToOthers == P!LosesToOthers
=============================================================================
