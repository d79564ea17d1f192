----------------------------- MODULE PathStore -----------------------------
(***************************************************************************)
(* get_cache_file_16 of old/byte_path_store.c: open a file in a directory  *)
(* that is named by two bytes, and make the directories on the way if the  *)
(* caller wants that.  One step is a system call.  Several processes do it *)
(* for the same file at once, and one that gets an error tries again.      *)
(***************************************************************************)
EXTENDS Naturals, FiniteSets

CONSTANTS
    Proc,
    Depth,   \* the directories: those of the base, and the two bytes
    MaxTries \* bound: the calls of a process

VARIABLES
    absolute,  \* the base begins with a slash
    full,      \* no directory can be made
    fs,        \* fs[d]: "absent", "dir", "file", or a "closed" directory
    file,      \* "absent", "readable" or "closed"
    made,      \* made[d]: the process that made it, or 0
    ppc,       \* ppc[p]: "idle", "stat", "access", "mkstat", "mkdir", "open", "done"
    at,        \* the directory that mkdir_p of p is at
    create,    \* create[p]: the caller wants it made
    losses     \* losses[p]: the calls that failed

pathstore == <<absolute, full, fs, file, made, ppc, at, create, losses>>

Init ==
    /\ absolute \in BOOLEAN
    /\ full \in BOOLEAN
    /\ \E n \in 0..Depth, kind \in {"absent", "file", "closed"} :
          fs = [d \in 1..Depth |-> IF d <= n THEN "dir" ELSE IF d = n + 1 THEN kind ELSE "absent"]
    /\ file = "absent"
    /\ made = [d \in 1..Depth |-> 0]
    /\ ppc = [p \in Proc |-> "idle"]
    /\ at = [p \in Proc |-> 1]
    /\ create \in [Proc -> BOOLEAN]
    /\ losses = [p \in Proc |-> 0]

-----------------------------------------------------------------------------
(* The file system. *)

\* What stat of directory d finds: its kind, or why it does not get there.
Before(d) == {e \in 1..(d - 1) : fs[e] # "dir"}
Stat(d) ==
    CASE Before(d) = {} /\ fs[d] # "absent" -> fs[d]
      [] \E e \in Before(d) : fs[e] # "absent" /\ \A g \in Before(d) : e <= g -> "EACCES"
      [] OTHER -> "ENOENT"

-----------------------------------------------------------------------------
(* A process. *)

Goto(p, l) == ppc' = [ppc EXCEPT ![p] = l]
Fail(p) == Goto(p, "idle") /\ losses' = [losses EXCEPT ![p] = @ + 1]
Same == UNCHANGED <<absolute, full, create>>

Begin(p) ==
    /\ ppc[p] = "idle"
    /\ losses[p] < MaxTries
    /\ Goto(p, "stat")
    /\ UNCHANGED <<fs, file, made, at, losses>>
    /\ Same

\* The directory is not usable.
Unusable(p) ==
    IF create[p] THEN Goto(p, "mkstat") /\ at' = [at EXCEPT ![p] = 1] /\ UNCHANGED losses
    ELSE Fail(p) /\ UNCHANGED at

\* usable_dir.
UsableDir(p) ==
    /\ \/ /\ ppc[p] = "stat"
          /\ IF Stat(Depth) \in {"dir", "closed"}
             THEN Goto(p, "access") /\ UNCHANGED <<at, losses>>
             ELSE Unusable(p)
       \/ /\ ppc[p] = "access"
          /\ IF Stat(Depth) = "dir"
             THEN Goto(p, "open") /\ UNCHANGED <<at, losses>>
             ELSE Unusable(p)
    /\ UNCHANGED <<fs, file, made>>
    /\ Same

\* mkdir_p has come to the next directory, or to the end.
Advance(p) ==
    /\ at' = [at EXCEPT ![p] = @ + 1]
    /\ Goto(p, IF at[p] = Depth THEN "open" ELSE "mkstat")

\* Fault: a directory that is there is an error.
MkStatExists(p) ==
    /\ ppc[p] = "mkstat"
    /\ \/ /\ absolute \/ Stat(at[p]) \in {"file", "dir"}
          /\ Fail(p)
          /\ UNCHANGED at
       \/ /\ ~absolute /\ Stat(at[p]) = "ENOENT"
          /\ Goto(p, "mkdir")
          /\ UNCHANGED <<at, losses>>
       \/ /\ ~absolute /\ Stat(at[p]) \in {"closed", "EACCES"}
          /\ Advance(p)
          /\ UNCHANGED losses
    /\ UNCHANGED <<fs, file, made>>
    /\ Same

\* A path that begins with a slash has a first directory without a name, which
\* cannot be made.  What stat cannot reach is passed over.
MkStat(p) ==
    /\ ppc[p] = "mkstat"
    /\ \/ /\ absolute \/ Stat(at[p]) = "file"
          /\ Fail(p)
          /\ UNCHANGED at
       \/ /\ ~absolute /\ Stat(at[p]) = "ENOENT"
          /\ Goto(p, "mkdir")
          /\ UNCHANGED <<at, losses>>
       \/ /\ ~absolute /\ Stat(at[p]) \in {"dir", "closed", "EACCES"}
          /\ Advance(p)
          /\ UNCHANGED losses
    /\ UNCHANGED <<fs, file, made>>
    /\ Same

\* It may be there by now.
MkDir(p) ==
    /\ ppc[p] = "mkdir"
    /\ IF Stat(at[p]) = "ENOENT" /\ ~full
       THEN /\ fs' = [fs EXCEPT ![at[p]] = "dir"]
            /\ made' = [made EXCEPT ![at[p]] = p]
            /\ Advance(p)
            /\ UNCHANGED losses
       ELSE /\ Fail(p)
            /\ UNCHANGED <<fs, made, at>>
    /\ UNCHANGED file
    /\ Same

\* A file that is made gets whatever mode is on the stack.
OpenFile(p) ==
    /\ ppc[p] = "open"
    /\ \/ /\ Stat(Depth) = "dir"
          /\ file = "readable" \/ (file = "absent" /\ create[p])
          /\ file' \in IF file = "absent" THEN {"readable", "closed"} ELSE {file}
          /\ Goto(p, "done")
          /\ UNCHANGED losses
       \/ /\ Stat(Depth) # "dir" \/ file = "closed" \/ (file = "absent" /\ ~create[p])
          /\ Fail(p)
          /\ UNCHANGED file
    /\ UNCHANGED <<fs, made, at>>
    /\ Same

Next == \E p \in Proc :
    Begin(p) \/ UsableDir(p) \/ MkStat(p) \/ MkDir(p) \/ OpenFile(p)

-----------------------------------------------------------------------------
(* Properties. *)

\* Where nothing but processes like it is in the way, a process that wants the
\* file made fails at most once for each directory that another one made: the
\* two meet between stat and mkdir, and the loser finds it the next time.
LosesToOthers ==
    \A p \in Proc :
        create[p] /\ ~absolute /\ ~full /\ file # "closed" /\ (\A d \in 1..Depth : fs[d] \in {"absent", "dir"})
          => losses[p] <= Cardinality({d \in 1..Depth : made[d] \notin {0, p}})
=============================================================================
