------------------------------- MODULE OldDie -------------------------------
(***************************************************************************)
(* a_die_errno_real and a_warn_errno_real of a/old/die.c: format where it  *)
(* happened, format the message, print the two, free them; and, to die,    *)
(* exit.  One step is one of these.                                        *)
(*                                                                         *)
(* The formatting allocates, and is not in that file.  Where there is no   *)
(* memory it returns NULL, as it does in a/util.c, or it calls a_die, as   *)
(* the comments of a/old/die.c expect.  already_dying, which is to end     *)
(* that recursion, is tested and nothing sets it: the test changes nothing.*)
(***************************************************************************)
EXTENDS Naturals, Sequences, SequencesExt

CONSTANT MaxCalls  \* bound: the nested calls

VARIABLES
    allocs,  \* what formatting does without memory: "returns" or "dies"
    calls,   \* the calls under way, the outermost first
    blocks,  \* the allocated blocks
    said,    \* the messages printed since a call from outside
    dead     \* the process has exited

olddie == <<allocs, calls, blocks, said, dead>>

Init ==
    /\ allocs \in {"returns", "dies"}
    /\ calls = <<>>
    /\ blocks = 0
    /\ said = 0
    /\ dead = FALSE

\* A call: whether it warns, its next step, and the blocks it has.
Call(warns) == [warns |-> warns, at |-> "info", has |-> 0]

Top == Last(calls)
At(l) == ~dead /\ calls # <<>> /\ Top.at = l
SetTop(l, has) == ReplaceAt(calls, Len(calls), [Top EXCEPT !.at = l, !.has = has])

\* A program dies, or warns.
Begin(warns) ==
    /\ ~dead
    /\ calls = <<>>
    /\ calls' = <<Call(warns)>>
    /\ said' = 0
    /\ UNCHANGED <<allocs, blocks, dead>>

\* a_sprintf_malloc or a_vsprintf_malloc, and then the step at next.
Format(l, next) ==
    /\ At(l)
    /\ \/ /\ blocks' = blocks + 1
          /\ calls' = SetTop(next, Top.has + 1)
       \/ /\ allocs = "returns"
          /\ calls' = SetTop(next, Top.has)
          /\ UNCHANGED blocks
       \/ /\ allocs = "dies"
          /\ Len(calls) < MaxCalls
          /\ calls' = Append(calls, Call(FALSE))
          /\ UNCHANGED blocks
    /\ UNCHANGED <<allocs, said, dead>>

\* Whatever is missing is printed as nothing.
Output ==
    /\ At("print")
    /\ said' = said + 1
    /\ calls' = SetTop("free", Top.has)
    /\ UNCHANGED <<allocs, blocks, dead>>

\* Fault: only the message is freed.
FreeMessage ==
    /\ At("free")
    /\ blocks' = IF Top.has > 0 THEN blocks - 1 ELSE blocks
    /\ IF Top.warns
       THEN calls' = Front(calls) /\ UNCHANGED dead
       ELSE dead' = TRUE /\ UNCHANGED calls
    /\ UNCHANGED <<allocs, said>>

\* A warning returns; death does not, and takes the calls around it with it.
Free ==
    /\ At("free")
    /\ blocks' = blocks - Top.has
    /\ IF Top.warns
       THEN calls' = Front(calls) /\ UNCHANGED dead
       ELSE dead' = TRUE /\ UNCHANGED calls
    /\ UNCHANGED <<allocs, said>>

Next ==
    \/ \E warns \in BOOLEAN : Begin(warns)
    \/ Format("info", "msg")
    \/ Format("msg", "print")
    \/ Output
    \/ Free

-----------------------------------------------------------------------------
(* Properties. *)

\* However often memory runs out in a call, and in the calls that makes, one
\* message is printed, the one of the last; a program that goes on after a
\* warning has lost no memory; and as long as formatting returns there is no
\* call within a call.
DiesOnce ==
    /\ said <= 1
    /\ dead => said = 1
    /\ ~dead /\ calls = <<>> => blocks = 0
    /\ Len(calls) > 1 => allocs = "dies"
=============================================================================
