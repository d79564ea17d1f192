------------------------------ MODULE OldFiles ------------------------------
(***************************************************************************)
(* write_buf, read_buf and read_file of old/buffers.c, with the flail of   *)
(* old/flail.c that read_file ends in when something fails.  One step is a *)
(* system call and what is done with its result.                           *)
(*                                                                         *)
(* A text is the sequence of its positions; what lies before the buffer    *)
(* has the positions below 1.                                              *)
(***************************************************************************)
EXTENDS Integers, Sequences, SequencesExt

CONSTANTS
    Length,     \* of the text that is written, and of the file
    MaxErrors   \* bound: the writes that fail

VARIABLES
    wpc,     \* "idle", "loop" or "done"
    wtmp, wlen, writelen,
    stream,  \* what arrived
    werrors, \* the writes that failed in the loop
    wret,    \* what write_buf returned
    rpc,     \* "idle", "read" or "close"
    rheap,   \* the block for what is read is allocated
    rbuf,    \* what is in it
    rest,    \* what is left of the file
    fds,     \* the open descriptors
    rret     \* what read_file returned

oldfiles == <<wpc, wtmp, wlen, writelen, stream, werrors, wret, rpc, rheap, rbuf, rest, fds, rret>>
writer == <<wpc, wtmp, wlen, writelen, stream, werrors, wret>>
reader == <<rpc, rheap, rbuf, rest, fds, rret>>

From(first, n) == [k \in 1..n |-> first + k - 1]

Init ==
    /\ wpc = "idle"
    /\ wtmp = 0 /\ wlen = Length /\ writelen = 0
    /\ stream = <<>>
    /\ werrors = 0
    /\ wret = "none"
    /\ rpc = "idle"
    /\ rheap = FALSE
    /\ rbuf = <<>>
    /\ rest = <<>>
    /\ fds = {"stdin"}
    /\ rret = "none"

-----------------------------------------------------------------------------
(* write_buf. *)

\* write of n characters, of which it takes some, or fails: -1.  It takes none
\* when there are none.
Write(first, n) ==
    \/ /\ writelen' = -1
       /\ UNCHANGED stream
    \/ \E took \in 0..n :
           /\ took = 0 => n = 0
           /\ writelen' = took
           /\ stream' = stream \o From(first, took)

WriteFirst ==
    /\ wpc = "idle"
    /\ Write(1, wlen)
    /\ IF writelen' < 0
       THEN wpc' = "done" /\ wret' = "error"
       ELSE wpc' = "loop" /\ UNCHANGED wret
    /\ UNCHANGED <<wtmp, wlen, werrors>>

\* Fault: the buffer is not advanced.
WriteNextStill ==
    /\ wpc = "loop" /\ writelen # wlen
    /\ wlen' = wlen - writelen
    /\ Write(1, wlen')
    /\ werrors' = IF writelen' < 0 THEN werrors + 1 ELSE werrors
    /\ werrors' <= MaxErrors
    /\ UNCHANGED <<wpc, wtmp, wret>>

\* The result of the last write is added, whatever it was.
WriteNext ==
    /\ wpc = "loop" /\ writelen # wlen
    /\ wtmp' = wtmp + writelen
    /\ wlen' = wlen - writelen
    /\ Write(wtmp' + 1, wlen')
    /\ werrors' = IF writelen' < 0 THEN werrors + 1 ELSE werrors
    /\ werrors' <= MaxErrors
    /\ UNCHANGED <<wpc, wret>>

WriteEnds ==
    /\ wpc = "loop" /\ writelen = wlen
    /\ wpc' = "done"
    /\ wret' = "success"
    /\ UNCHANGED <<wtmp, wlen, writelen, stream, werrors>>

-----------------------------------------------------------------------------
(* flail: one letter after the other, some of which take an operand. *)

Takes == {"f", "m", "v", "e", "R", "h"}

\* What has been closed, freed and deleted, and the operands that are left.
Letter(done, l) ==
    IF l \notin Takes THEN done
    ELSE [done EXCEPT !.closed  = IF l = "f" THEN @ \cup {Head(done.args)} ELSE @,
                      !.freed   = IF l = "m" THEN @ \cup {Head(done.args)} ELSE @,
                      !.deleted = IF l = "R" THEN @ \cup {Head(done.args)} ELSE @,
                      !.args    = Tail(@)]

Flail(letters, args) ==
    FoldLeft(Letter, [closed |-> {}, freed |-> {}, deleted |-> {}, args |-> args], letters)

-----------------------------------------------------------------------------
(* read_buf and read_file. *)

\* read_file returns what flail returns without "v": zero, which is NULL.  heap is
\* whether there is a block, and open what is open, when flail is called.
Fails(letters, args, heap, open) ==
    LET done == Flail(letters, args) IN
    /\ fds' = open \ done.closed
    /\ rheap' = (heap /\ "file" \notin done.freed)
    /\ rret' = "NULL"
    /\ rpc' = "idle"
    /\ UNCHANGED <<rbuf, rest>>

Open ==
    /\ rpc = "idle"
    /\ ~rheap
    /\ \/ /\ "fd" \notin fds
          /\ rpc' = "read"
          /\ fds' = fds \cup {"fd"}
          /\ rest' = From(1, Length)
          /\ rret' = "none"
          /\ rbuf' = <<>>
          /\ UNCHANGED rheap
       \/ Fails(<<"r">>, <<"stdin", "filename">>, FALSE, fds)

\* Some of the file; the block grows by it.
ReadSome ==
    /\ rpc = "read"
    /\ \E n \in 1..Len(rest) :
        /\ rbuf' = rbuf \o SubSeq(rest, 1, n)
        /\ rest' = SubSeq(rest, n + 1, Len(rest))
    /\ rheap' = TRUE
    /\ UNCHANGED <<rpc, fds, rret>>

\* The end of it, and room for the terminator.
ReadEnds ==
    /\ rpc = "read" /\ rest = <<>>
    /\ rheap' = TRUE
    /\ rpc' = "close"
    /\ UNCHANGED <<rbuf, rest, fds, rret>>

\* read or realloc fails, and read_buf frees its block.  "r" takes no operand: the
\* NULL that is passed for it is the number of the standard input, and the
\* operand of "f".
ReadFails ==
    /\ rpc = "read"
    /\ Fails(<<"r", "f">>, <<"stdin", "fd", "filename">>, FALSE, fds)

\* A descriptor that could not be closed may be open.
Close ==
    /\ rpc = "close"
    /\ \/ /\ fds' = fds \ {"fd"}
          /\ rret' = "text"
          /\ rpc' = "idle"
          /\ UNCHANGED <<rheap, rbuf, rest>>
       \/ \E open \in {fds, fds \ {"fd"}} :
            Fails(<<"m", "r">>, <<"file", "stdin", "filename">>, rheap, open)

\* The caller frees what it got.
FreeText ==
    /\ rpc = "idle" /\ rret = "text" /\ rheap
    /\ rheap' = FALSE
    /\ rret' = "none"
    /\ UNCHANGED <<rpc, rbuf, rest, fds>>

Next ==
    \/ (WriteFirst \/ WriteNext \/ WriteEnds) /\ UNCHANGED reader
    \/ (Open \/ ReadSome \/ ReadEnds \/ ReadFails \/ Close \/ FreeText) /\ UNCHANGED writer

-----------------------------------------------------------------------------
(* Properties. *)

\* However the system splits the text, a write that succeeded without an error on
\* the way has sent it once, and one that returns an error has sent nothing; a
\* read that succeeded returns the whole file and leaves no descriptor, and one
\* that failed leaves no block.
StreamsExact ==
    /\ wret = "success" /\ werrors = 0 => stream = From(1, Length)
    /\ wret = "error" => stream = <<>>
    /\ rret = "text" => rbuf = From(1, Length) /\ "fd" \notin fds
    /\ rpc = "idle" => (rheap <=> rret = "text")
=============================================================================
