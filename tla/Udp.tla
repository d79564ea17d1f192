-------------------------------- MODULE Udp --------------------------------
(***************************************************************************)
(* udp_server and udp_server_stop of a/to_do/udp.c: a loop that receives a *)
(* packet, hands it to a callback, and goes on while the callback says so  *)
(* and nobody has stopped the server.  One step is a system call or a call *)
(* of a callback; udp_server_stop runs in a signal handler or in another   *)
(* thread, between any two of them.                                        *)
(*                                                                         *)
(* With UDP_SERVER_FLAG_MALLOC the callback gets each packet in a block of *)
(* its own, and frees it.                                                  *)
(***************************************************************************)
EXTENDS Naturals, Sequences

CONSTANTS
    Packet,   \* the packets clients send
    Block,    \* the blocks malloc may return
    Stack,    \* the address of the server's own buffer
    NULL,     \* no packet: a length of -1, and a buffer nothing was written to
    Backlog   \* bound: the packets that fit into the socket

VARIABLES
    mallocs,     \* flags has UDP_SERVER_FLAG_MALLOC
    interrupts,  \* recvfrom may return without a packet: a signal handler does
                 \* not restart it, or the startup callback set a timeout
    upc,         \* "idle", "startup", "recv", "call", "close", "returned"
    sock,        \* "none", "open", "closed"
    go,          \* a_udp_server_go
    backlog,     \* the packets in the socket
    buf,         \* the packet in the server's buffer
    tmp,         \* where the callback finds the packet
    size,        \* the packet that buf_len is the length of
    heap,        \* heap[b]: the packet in block b, for the allocated blocks
    late,        \* how often the callback was called since the server was stopped
    fault,       \* the callback freed what was not allocated
    ret          \* what udp_server returned

Init ==
    /\ mallocs \in BOOLEAN
    /\ interrupts \in BOOLEAN
    /\ upc = "idle"
    /\ sock = "none"
    /\ go = TRUE
    /\ backlog = <<>>
    /\ buf = NULL
    /\ tmp = Stack
    /\ size = NULL
    /\ heap = [b \in {} |-> NULL]
    /\ late = 0
    /\ fault = FALSE
    /\ ret = "none"

-----------------------------------------------------------------------------
(* The server. *)

Return(r) == upc' = "returned" /\ ret' = r
Goto(l) == upc' = l /\ UNCHANGED ret

\* Fault: the flag is set at the start.
ServerStartGoes ==
    /\ upc = "idle"
    /\ sock' = "open"
    /\ go' = TRUE
    /\ Goto("startup")
    /\ UNCHANGED <<mallocs, interrupts, backlog, buf, tmp, size, heap, late, fault>>

\* socket and bind.
ServerStart ==
    /\ upc = "idle"
    /\ sock' = "open"
    /\ Goto("startup")
    /\ UNCHANGED <<mallocs, interrupts, go, backlog, buf, tmp, size, heap, late, fault>>

\* There is no socket, or it cannot be bound and stays open.
ServerStartFails ==
    /\ upc = "idle"
    /\ sock' \in {"none", "open"}
    /\ Return("error")
    /\ UNCHANGED <<mallocs, interrupts, go, backlog, buf, tmp, size, heap, late, fault>>

\* A startup callback that refuses gets the socket closed, and the loop begins
\* all the same.
Startup(accepts) ==
    /\ upc = "startup"
    /\ \/ /\ accepts
          /\ Goto("recv")
          /\ UNCHANGED sock
       \/ /\ ~accepts
          /\ sock' = "closed"
          /\ Goto("recv") \/ Return("error")
    /\ UNCHANGED <<mallocs, interrupts, go, backlog, buf, tmp, size, heap, late, fault>>

\* Fault: the packet is copied into the block, and the callback gets the buffer.
RecvKeepsTmp ==
    /\ upc = "recv" /\ sock = "open"
    /\ backlog # <<>>
    /\ buf' = Head(backlog)
    /\ size' = Head(backlog)
    /\ backlog' = Tail(backlog)
    /\ IF mallocs
       THEN \E b \in Block \ DOMAIN heap :
            heap' = [c \in DOMAIN heap \cup {b} |-> IF c = b THEN Head(backlog) ELSE heap[c]]
       ELSE UNCHANGED heap
    /\ Goto("call")
    /\ UNCHANGED <<mallocs, interrupts, sock, go, tmp, late, fault>>

Recv ==
    /\ upc = "recv" /\ sock = "open"
    /\ backlog # <<>>
    /\ buf' = Head(backlog)
    /\ size' = Head(backlog)
    /\ backlog' = Tail(backlog)
    /\ IF mallocs
       THEN \E b \in Block \ DOMAIN heap :
            /\ heap' = [c \in DOMAIN heap \cup {b} |-> IF c = b THEN Head(backlog) ELSE heap[c]]
            /\ tmp' = b
       ELSE UNCHANGED <<heap, tmp>>
    /\ Goto("call")
    /\ UNCHANGED <<mallocs, interrupts, sock, go, late, fault>>

\* a_malloc returned NULL: there is no memory, or the packet is empty and there
\* may be no error to report.  The socket stays open.
RecvFails ==
    /\ upc = "recv" /\ sock = "open"
    /\ backlog # <<>>
    /\ mallocs
    /\ buf' = Head(backlog)
    /\ size' = Head(backlog)
    /\ backlog' = Tail(backlog)
    /\ \E r \in {"success", "error"} : Return(r)
    /\ UNCHANGED <<mallocs, interrupts, sock, go, tmp, heap, late, fault>>

\* EINTR and EAGAIN: continue goes to the condition of the loop.
RecvInterrupted ==
    /\ upc = "recv" /\ sock = "open"
    /\ backlog = <<>>
    /\ interrupts
    /\ size' = NULL
    /\ Goto("call")
    /\ UNCHANGED <<mallocs, interrupts, sock, go, backlog, buf, tmp, heap, late, fault>>

\* Another error, or the socket that was closed.  It stays as it is.
RecvError ==
    /\ upc = "recv"
    /\ Return("error")
    /\ UNCHANGED <<mallocs, interrupts, sock, go, backlog, buf, tmp, size, heap, late, fault>>

\* The callback, which frees its block.
Callback ==
    /\ upc = "call"
    /\ heap' = IF mallocs THEN [b \in DOMAIN heap \ {tmp} |-> heap[b]] ELSE heap
    /\ fault' = (fault \/ (mallocs /\ tmp \notin DOMAIN heap))
    /\ late' = IF go THEN late ELSE late + 1
    /\ UNCHANGED <<mallocs, interrupts, sock, go, backlog, buf, tmp, size, ret>>

\* Fault: the flag is not looked at when the callback wants to go on.
CallDeaf(continue) ==
    /\ Callback
    /\ upc' = IF continue THEN "recv" ELSE "close"

Call(continue) ==
    /\ Callback
    /\ upc' = IF continue /\ go THEN "recv" ELSE "close"

Close ==
    /\ upc = "close"
    /\ sock' = "closed"
    /\ \E r \in {"success", "error"} : Return(r)
    /\ UNCHANGED <<mallocs, interrupts, go, backlog, buf, tmp, size, heap, late, fault>>

\* What the server does when it has something to do.
Step ==
    \/ ServerStart
    \/ \E accepts \in BOOLEAN : Startup(accepts)
    \/ Recv
    \/ sock = "closed" /\ RecvError
    \/ \E continue \in BOOLEAN : Call(continue)
    \/ Close

Server == Step \/ ServerStartFails \/ RecvFails \/ RecvInterrupted \/ RecvError

-----------------------------------------------------------------------------
(* Its environment. *)

\* udp_server_stop.  Nothing sets the flag back.
Stop ==
    /\ go' = FALSE
    /\ UNCHANGED <<mallocs, interrupts, upc, sock, backlog, buf, tmp, size, heap, late, fault, ret>>

Arrive(p) ==
    /\ sock = "open"
    /\ Len(backlog) < Backlog
    /\ backlog' = Append(backlog, p)
    /\ UNCHANGED <<mallocs, interrupts, upc, sock, go, buf, tmp, size, heap, late, fault, ret>>

-----------------------------------------------------------------------------
(* Properties. *)

\* Once the server is stopped, from whatever thread and at whatever point of its
\* loop, the callback is called at most once more.
StopsSoon == late <= 1

\* What the callback gets is the packet that was received last, in a block of
\* its own if it asked for that, and it frees no block twice, as long as
\* recvfrom only returns with a packet.
Content == IF tmp = Stack THEN buf ELSE heap[tmp]
PacketOwned ==
    ~interrupts =>
        /\ ~fault
        /\ upc = "call" =>
            /\ tmp \in IF mallocs THEN DOMAIN heap ELSE {Stack}
            /\ size \in Packet
            /\ Content = size

\* "try again" (a/to_do/udp.c:124): the callback is called when a packet came,
\* and not when recvfrom was interrupted.
CalledWithPacket == upc = "call" => size \in Packet
=============================================================================
