------------------------------ MODULE Service ------------------------------
(***************************************************************************)
(* The daemons of a/to_do/daemon.c, on either system.                      *)
(*                                                                         *)
(* On Unix, with the callbacks that a/to_do/udp.c is made for: run is      *)
(* udp_server, and stop is udp_server_stop, called by the signal handler.  *)
(* The daemon's "stop was called" is the server's flag.                    *)
(*                                                                         *)
(* On Windows, with any callbacks: programs install and uninstall the      *)
(* service, and the service control manager starts one that is installed.  *)
(* One of these programs runs at a time.                                   *)
(***************************************************************************)
EXTENDS Naturals, Sequences

CONSTANTS Packet, Block, Stack, NULL, Backlog, Signal, TERM

ASSUME PacketAssumption == NULL \notin Packet
ASSUME BlockAssumption == Stack \notin Block
ASSUME BacklogAssumption == Backlog \in Nat
ASSUME SignalAssumption == TERM \in Signal

VARIABLES
    os,  \* "unix" or "win32"
    mallocs, interrupts, upc, sock, go, backlog, buf, tmp, size, heap, late, fault, ret,
    dpc, handled, status,
    main, svc, handler, written, state, code, errorCode, reported, reportedCode,
    inited, ran, cleaned, stopped, failed, mute, raced,
    cpc, result, entry, key, values, handles, blocks

server == <<mallocs, interrupts, upc, sock, go, backlog, buf, tmp, size, heap, late, fault, ret>>
daemon == <<dpc, handled, status>>
windaemon == <<main, svc, handler, written, state, code, errorCode, reported, reportedCode,
               inited, ran, cleaned, stopped, failed, mute, raced>>
install == <<cpc, result, entry, key, values, handles, blocks>>
windows == <<windaemon, install>>
vars == <<os, server, daemon, windows>>

U == INSTANCE Udp
D == INSTANCE Daemon WITH stopped <- ~go
W == INSTANCE WinDaemon
I == INSTANCE Install

Init ==
    /\ os \in {"unix", "win32"}
    /\ U!Init /\ (os = "win32" => ~mallocs /\ ~interrupts)
    /\ D!Init
    /\ W!Init
    /\ I!Init

-----------------------------------------------------------------------------
(* On Unix. *)

Unix == os = "unix" /\ UNCHANGED <<os, windows>>

DaemonStep == Unix /\ UNCHANGED server /\ D!Step

ServerStep == Unix /\ dpc = "run" /\ U!Step /\ UNCHANGED daemon
ServerFails == Unix /\ dpc = "run" /\ U!Server /\ UNCHANGED daemon

RunReturns ==
    /\ Unix
    /\ upc = "returned"
    /\ UNCHANGED server
    /\ D!RunReturns(ret = "error")

SigTerm(s) == Unix /\ U!Stop /\ D!SigTerm(s)
Killed(s) == Unix /\ UNCHANGED server /\ D!Killed(s)

Arrive(p) == Unix /\ dpc = "run" /\ U!Arrive(p) /\ UNCHANGED daemon

-----------------------------------------------------------------------------
(* On Windows. *)

Windows == os = "win32" /\ UNCHANGED <<os, server, daemon>>

Administer ==
    /\ Windows
    /\ main = "none"
    /\ I!Next
    /\ UNCHANGED windaemon

StartService ==
    /\ Windows
    /\ entry
    /\ W!Start
    /\ I!Run("idle")

WinService == Windows /\ (W!ServiceStep \/ W!RunEnds) /\ UNCHANGED install
WinControl == Windows /\ W!Control /\ UNCHANGED install
WinForget == Windows /\ W!Forget /\ UNCHANGED install

ServiceThread == Windows /\ W!ServiceStep /\ UNCHANGED install
HandlerThread == Windows /\ W!HandlerStep /\ UNCHANGED install
MainThread == Windows /\ (W!Dispatch \/ W!Stopped) /\ UNCHANGED install

Next ==
    \/ DaemonStep
    \/ ServerFails
    \/ RunReturns
    \/ \E s \in Signal : SigTerm(s) \/ Killed(s)
    \/ \E p \in Packet : Arrive(p)
    \/ Administer \/ StartService
    \/ WinService \/ WinControl \/ WinForget \/ HandlerThread \/ MainThread

Spec == Init /\ [][Next]_vars

\* The process and each of its threads are given the processor, and packets keep
\* coming.  Nothing obliges a signal, a control or a program to come, or a system
\* call to fail or to be interrupted.
FairSpec ==
    /\ Spec
    /\ WF_vars(DaemonStep)
    /\ WF_vars(ServerStep)
    /\ WF_vars(RunReturns)
    /\ WF_vars(\E p \in Packet : Arrive(p))
    /\ WF_vars(ServiceThread)
    /\ WF_vars(HandlerThread)
    /\ WF_vars(MainThread)

-----------------------------------------------------------------------------
(* Properties. *)

StopsSoon == U!StopsSoon
PacketOwned == U!PacketOwned
CalledWithPacket == U!CalledWithPacket

\* A signal that su_daemon handles ends the process, whenever it comes: while
\* the daemon starts, before the server's loop, or while recvfrom blocks.
StopEnds == ~go ~> dpc = "exit"

CleanupFollowsRun == W!CleanupFollowsRun
ZeroMeansWell == W!ZeroMeansWell
Truthful == I!Truthful

\* A service whose stop function was called ends, whatever was reported between,
\* unless its last status could not be set, or a control came so late that the
\* handler changed the status of a stopped service.
ServiceStops == stopped ~> main = "exit" \/ mute \/ raced
=============================================================================
