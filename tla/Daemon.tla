------------------------------- MODULE Daemon -------------------------------
(***************************************************************************)
(* su_daemon of a/to_do/daemon.c on Unix: start logging, call the init     *)
(* callback, install the handlers of two signals, leave for the            *)
(* background, call run and cleanup.  One step is one of these.  A signal  *)
(* comes between any two.                                                  *)
(*                                                                         *)
(* The callbacks are the program's; su_daemon_sig_term calls stop.         *)
(***************************************************************************)
EXTENDS Naturals

CONSTANTS
    Signal,  \* SIGTERM and SIGINT
    TERM     \* SIGTERM

VARIABLES
    dpc,      \* "log", "init", "sigterm", "sigint", "fork", "run", "cleanup", "exit"
    handled,  \* the signals with a handler
    stopped,  \* stop was called
    status    \* "running", "success", "failure" or "killed"

Init ==
    /\ dpc = "log"
    /\ handled = {}
    /\ stopped = FALSE
    /\ status = "running"

Goto(l) == dpc' = l /\ UNCHANGED status
Exit(s) == dpc' = "exit" /\ status' = s

\* su_log_init_syslog.
LogInit ==
    /\ dpc = "log"
    /\ Goto("init") \/ Exit("failure")
    /\ UNCHANGED <<handled, stopped>>

CallInit ==
    /\ dpc = "init"
    /\ Goto("sigterm") \/ Exit("failure")
    /\ UNCHANGED <<handled, stopped>>

Handle(s) ==
    /\ dpc = IF s = TERM THEN "sigterm" ELSE "sigint"
    /\ \/ /\ handled' = handled \cup {s}
          /\ Goto(IF s = TERM THEN "sigint" ELSE "fork")
       \/ /\ Exit("failure")
          /\ UNCHANGED handled
    /\ UNCHANGED stopped

\* daemon(0, 0): the parent exits, and the child goes on with its handlers.
Fork ==
    /\ dpc = "fork"
    /\ Goto("run") \/ Exit("failure")
    /\ UNCHANGED <<handled, stopped>>

\* run has returned.
RunReturns(failed) ==
    /\ dpc = "run"
    /\ IF failed THEN Exit("failure") ELSE Goto("cleanup")
    /\ UNCHANGED <<handled, stopped>>

CallCleanup ==
    /\ dpc = "cleanup"
    /\ Exit("success") \/ Exit("failure")
    /\ UNCHANGED <<handled, stopped>>

\* What su_daemon does by itself.
Step ==
    \/ LogInit
    \/ CallInit
    \/ \E s \in Signal : Handle(s)
    \/ Fork
    \/ CallCleanup

\* su_daemon_sig_term, or the default: the process is killed.
SigTerm(s) ==
    /\ dpc # "exit"
    /\ s \in handled
    /\ stopped' = TRUE
    /\ UNCHANGED <<dpc, handled, status>>

Killed(s) ==
    /\ dpc # "exit"
    /\ s \notin handled
    /\ Exit("killed")
    /\ UNCHANGED <<handled, stopped>>
=============================================================================
