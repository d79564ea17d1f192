------------------------------ MODULE Resolve ------------------------------
(***************************************************************************)
(* The names of hosts, a/resolve.c: a_resolve, and a_reverse_resolve and   *)
(* a_reverse_resolve_or_ip, which write a name into the caller's buffer or *)
(* into a block of their own, and report a length.  One step is a call.    *)
(*                                                                         *)
(* The resolver is external: it knows the address by a name of a fixed     *)
(* length, or does not know it.                                            *)
(***************************************************************************)
EXTENDS Naturals

CONSTANTS
    Lengths,   \* the lengths of names
    Slacks,    \* what callers add to a reported length
    MaxBuffer  \* bound: the largest buffer

\* The longest dotted quad and its terminator.
Quad == 16

VARIABLES
    orip,    \* the caller uses a_reverse_resolve_or_ip
    name,    \* the length of the name of the address, 0 for none
    slack,   \* a caller that is told "small" retries with a buffer that is this
             \* much larger than the reported length
    buf,     \* the caller's buffer, 0 for NULL
    outlen,  \* *out_in: the size of the buffer, and then the reported length
    room,    \* the size of what was written to, 0 for nothing
    used,    \* what was written there
    answer,  \* "none", "success", "small", "error", "invalid" or "nomem"
    tries    \* how often "small" was the answer

resolve == <<orip, name, slack, buf, outlen, room, used, answer, tries>>

Init ==
    /\ orip \in BOOLEAN
    /\ name \in Lengths \cup {0}
    /\ slack \in Slacks
    /\ buf \in 0..MaxBuffer
    /\ outlen = buf
    /\ room = 0
    /\ used = 0
    /\ answer = "none"
    /\ tries = 0

Answers(a) == answer' = a /\ tries' = IF a = "small" THEN tries + 1 ELSE tries
Writes(size, n) == room' = size /\ used' = n /\ Answers("success")
Unwritten(a) == Answers(a) /\ UNCHANGED <<room, used>>

\* Fault: a buffer without room for the terminator is taken.
NamedTight ==
    \/ /\ buf = 0
       /\ outlen' = name + 1
       /\ Writes(name + 1, name + 1) \/ Unwritten("nomem")
    \/ /\ buf > 0 /\ name > outlen
       /\ outlen' = name
       /\ Unwritten("small")
    \/ /\ buf > 0 /\ name <= outlen
       /\ UNCHANGED outlen
       /\ Writes(buf, name + 1)

\* An address with a name.  The length is reported without the terminator, and a
\* name for which the buffer is just large enough is refused.
Named ==
    \/ /\ buf = 0
       /\ outlen' = name + 1
       /\ Writes(name + 1, name + 1) \/ Unwritten("nomem")
    \/ /\ buf > 0 /\ name + 1 >= outlen
       /\ outlen' = name
       /\ Unwritten("small")
    \/ /\ buf > 0 /\ name + 1 < outlen
       /\ UNCHANGED outlen
       /\ Writes(buf, name + 1)

\* a_inet_ntoa, with the length of the buffer or, without one, with whatever the
\* caller's variable holds.  No length is reported.
InetNtoa ==
    /\ UNCHANGED outlen
    /\ \/ buf = 0 /\ (\/ \E n \in 8..Quad : Writes(Quad, n)
                      \/ Unwritten("nomem"))
       \/ buf > 0 /\ outlen < Quad /\ Unwritten("small")
       \/ buf > 0 /\ outlen >= Quad /\ \E n \in 8..Quad : Writes(buf, n)

ReverseResolve ==
    /\ \/ name # 0 /\ Named
       \/ name = 0 /\ UNCHANGED outlen /\ Unwritten("error")

ReverseResolveOrIp ==
    \/ name # 0 /\ Named
    \/ name = 0 /\ InetNtoa

Reverse ==
    /\ answer = "none"
    /\ IF orip THEN ReverseResolveOrIp ELSE ReverseResolve
    /\ UNCHANGED <<orip, name, slack, buf>>

Retry ==
    /\ answer = "small"
    /\ outlen + slack <= MaxBuffer
    /\ outlen + slack > 0
    /\ buf' = outlen + slack
    /\ outlen' = outlen + slack
    /\ tries < MaxBuffer
    /\ answer' = "none"
    /\ UNCHANGED <<orip, name, slack, room, used, tries>>

\* a_inet_aton and a_inet_aton_no_error: a dotted quad, or not.
InetAton == \E a \in {"success", "error"} : Answers(a)

\* a_resolve: no operand, or a dotted quad, or a name that is known or is not.
Forward ==
    /\ answer = "none"
    /\ Answers("invalid") \/ InetAton
    /\ UNCHANGED <<orip, name, slack, buf, outlen, room, used>>

Next == Reverse \/ Retry \/ Forward

-----------------------------------------------------------------------------
(* Properties. *)

\* No name is written beyond the end of a buffer; and a caller that retries with
\* a buffer two larger than the reported length is not refused again.  With less
\* it is refused for ever, although the buffer would do.  Nothing is reported
\* when there is no name.
RetryHelps ==
    /\ used <= room
    /\ slack >= 2 /\ name # 0 => tries <= 1
=============================================================================
