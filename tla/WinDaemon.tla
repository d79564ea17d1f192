----------------------------- MODULE WinDaemon -----------------------------
(***************************************************************************)
(* su_daemon of a/to_do/daemon.c on Windows.  The main thread starts the   *)
(* service dispatcher, which starts the service thread and calls the       *)
(* control handler, and returns when it was told that the service stopped. *)
(* The two threads report through one status that nothing locks: one step  *)
(* writes the state, one the exit codes of a stopped service, and one      *)
(* calls SetServiceStatus.                                                 *)
(*                                                                         *)
(* The callbacks are the program's.  The service control manager sends a   *)
(* stop to a service that it was told is running, and any other control    *)
(* until it was told that the service stopped.                             *)
(***************************************************************************)
EXTENDS Naturals

VARIABLES
    main,      \* "none", "log", "dispatch", "exit"
    svc,       \* where su_daemon_service_start is; a name of Reports is a
               \* call of a function that reports a status
    handler,   \* where su_daemon_ctrl_handler is, or "idle"
    written,   \* the threads that wrote the state and have not reported it
    state,     \* sds.status.dwCurrentState
    code,      \* whether its exit codes say "error"
    errorCode, \* sds.error_code is set
    reported,  \* what the service control manager knows
    reportedCode,
    inited, ran, cleaned,  \* how often the callback returned
    stopped,   \* stop was called
    failed,    \* init, run or cleanup returned an error
    mute,      \* the status of a stopped service could not be set
    raced      \* the handler changed the status of a stopped service

windaemon == <<main, svc, handler, written, state, code, errorCode, reported, reportedCode,
               inited, ran, cleaned, stopped, failed, mute, raced>>
status == <<written, state, code, errorCode, reported, reportedCode, mute, raced>>
callbacks == <<inited, ran, cleaned, stopped, failed>>

Init ==
    /\ main = "none"
    /\ svc = "none"
    /\ handler = "idle"
    /\ written = {}
    /\ state = "stopped" /\ code = FALSE /\ errorCode = FALSE
    /\ reported = "start_pending" /\ reportedCode = FALSE
    /\ inited = 0 /\ ran = 0 /\ cleaned = 0
    /\ stopped = FALSE /\ failed = FALSE
    /\ mute = FALSE /\ raced = FALSE

-----------------------------------------------------------------------------
(* Reporting a status. *)

\* The status that a place of the service thread reports, and where it goes on
\* when that worked and when it failed.  "abort" and "giveup" end in a failure,
\* with and without a call of cleanup.  su_daemon_stopped is called with 0 at
\* "stopped0" and with 1 at "stopped1", and has written the exit codes at "coded".

\* Fault: a failed run is not cleaned up after.
ReportsNoCleanup ==
    [starting |-> [state |-> "start_pending", good |-> "stopped1", bad |-> "init"],
     running  |-> [state |-> "running",       good |-> "run",      bad |-> "giveup"],
     stopping |-> [state |-> "stop_pending",  good |-> "abort",    bad |-> "cleanup"],
     abort    |-> [state |-> "stop_pending",  good |-> "cleanup1", bad |-> "cleanup1"],
     giveup   |-> [state |-> "stop_pending",  good |-> "stopped1", bad |-> "stopped1"],
     coded    |-> [state |-> "stopped",       good |-> "returned", bad |-> "returned"]]

\* Fault: a stop that cannot be reported is reported again.
ReportsRetry ==
    [starting |-> [state |-> "start_pending", good |-> "stopped1", bad |-> "init"],
     running  |-> [state |-> "running",       good |-> "run",      bad |-> "abort"],
     stopping |-> [state |-> "stop_pending",  good |-> "abort",    bad |-> "stopping"],
     abort    |-> [state |-> "stop_pending",  good |-> "cleanup1", bad |-> "cleanup1"],
     giveup   |-> [state |-> "stop_pending",  good |-> "stopped1", bad |-> "stopped1"],
     coded    |-> [state |-> "stopped",       good |-> "returned", bad |-> "returned"]]

\* su_daemon_starting and, after run, su_daemon_stopping return zero when they
\* worked, which is taken for a failure.
Reports ==
    [starting |-> [state |-> "start_pending", good |-> "stopped1", bad |-> "init"],
     running  |-> [state |-> "running",       good |-> "run",      bad |-> "abort"],
     stopping |-> [state |-> "stop_pending",  good |-> "abort",    bad |-> "cleanup"],
     abort    |-> [state |-> "stop_pending",  good |-> "cleanup1", bad |-> "cleanup1"],
     giveup   |-> [state |-> "stop_pending",  good |-> "stopped1", bad |-> "stopped1"],
     coded    |-> [state |-> "stopped",       good |-> "returned", bad |-> "returned"]]

\* SetServiceStatus.  What comes after "stopped" is refused.
SetServiceStatus(ok) ==
    /\ ok => reported # "stopped"
    /\ IF ok THEN reported' = state /\ reportedCode' = code ELSE UNCHANGED <<reported, reportedCode>>

\* A call of su_daemon_stopped.
Ending == {"stopped0", "stopped1"}

WriteState ==
    /\ svc \in Ending \cup DOMAIN Reports
    /\ "svc" \notin written
    /\ written' = written \cup {"svc"}
    /\ state' = IF svc \in Ending THEN "stopped" ELSE Reports[svc].state
    /\ UNCHANGED <<svc, code, errorCode, reported, reportedCode, mute, raced>>

\* su_daemon_stopped, when the state says already that the service stopped.
WriteCodes ==
    /\ svc \in Ending
    /\ "svc" \in written
    /\ code' = (svc = "stopped1" \/ errorCode)
    /\ svc' = "coded"
    /\ UNCHANGED <<written, state, errorCode, reported, reportedCode, mute, raced>>

ReportStatus ==
    /\ svc \in DOMAIN Reports
    /\ "svc" \in written
    /\ written' = written \ {"svc"}
    /\ \E ok \in BOOLEAN :
        /\ SetServiceStatus(ok)
        /\ svc' = IF ok THEN Reports[svc].good ELSE Reports[svc].bad
        /\ mute' = IF svc = "coded" /\ ~ok THEN TRUE ELSE mute
    /\ UNCHANGED <<state, code, errorCode, raced>>

-----------------------------------------------------------------------------
(* The service thread. *)

\* RegisterServiceCtrlHandler.  When it fails nobody is told, and no control comes.
Register ==
    /\ svc = "register"
    /\ state' = "start_pending" /\ code' = FALSE
    /\ svc' \in {"starting", "unregistered"}
    /\ UNCHANGED <<written, errorCode, reported, reportedCode, mute, raced, callbacks>>

CallInit ==
    /\ svc = "init"
    /\ \/ inited' = 1 /\ svc' = "running" /\ UNCHANGED failed
       \/ failed' = TRUE /\ svc' = "giveup" /\ UNCHANGED inited
    /\ UNCHANGED <<ran, cleaned, stopped, status>>

\* run returns, by itself or because it was stopped.
RunReturns ==
    /\ svc = "run"
    /\ ran' = ran + 1
    /\ \/ svc' = "stopping" /\ UNCHANGED failed
       \/ svc' = "abort" /\ failed' = TRUE
    /\ UNCHANGED <<inited, cleaned, stopped, status>>

\* Fault: what the last cleanup returns is not looked at.
CallCleanupDeaf ==
    /\ \/ svc = "cleanup" /\ svc' = "stopped0" /\ failed' \in {failed, TRUE}
       \/ svc = "cleanup1" /\ svc' = "stopped1" /\ failed' \in {failed, TRUE}
    /\ cleaned' = cleaned + 1
    /\ UNCHANGED <<inited, ran, stopped, status>>

CallCleanup ==
    /\ \/ svc = "cleanup" /\ svc' = "stopped0" /\ UNCHANGED failed
       \/ svc = "cleanup" /\ svc' = "giveup" /\ failed' = TRUE
       \/ svc = "cleanup1" /\ svc' = "stopped1" /\ failed' \in {failed, TRUE}
    /\ cleaned' = cleaned + 1
    /\ UNCHANGED <<inited, ran, stopped, status>>

ServiceStep ==
    /\ main = "dispatch"
    /\ \/ WriteState /\ UNCHANGED callbacks
       \/ WriteCodes /\ UNCHANGED callbacks
       \/ ReportStatus /\ UNCHANGED callbacks
       \/ Register
       \/ CallInit
       \/ CallCleanup
       \/ stopped /\ RunReturns
    /\ UNCHANGED <<main, handler>>

\* Nothing obliges run to return before it is stopped.
RunEnds == main = "dispatch" /\ RunReturns /\ UNCHANGED <<main, handler>>

-----------------------------------------------------------------------------
(* The control handler, in the main thread. *)

\* Every control but a stop, a shutdown included, only reports the status.
Control ==
    /\ main = "dispatch"
    /\ handler = "idle"
    /\ svc \notin {"none", "register", "unregistered"}
    /\ \/ reported = "running" /\ handler' = "stop"
       \/ reported # "stopped" /\ handler' = "interrogate"
    /\ UNCHANGED <<main, svc, status, callbacks>>

Interrogate ==
    /\ handler = "interrogate"
    /\ \E ok \in BOOLEAN : SetServiceStatus(ok) /\ handler' = IF ok THEN "idle" ELSE "resign"
    /\ UNCHANGED <<written, state, code, errorCode, mute, raced>>

\* su_daemon_stopping.
WriteStopping ==
    /\ handler \in {"stop", "resign"}
    /\ "handler" \notin written
    /\ written' = written \cup {"handler"}
    /\ state' = "stop_pending"
    /\ raced' = (raced \/ state = "stopped")
    /\ UNCHANGED <<handler, code, errorCode, reported, reportedCode, mute>>

ReportStopping ==
    /\ handler \in {"stop", "resign"}
    /\ "handler" \in written
    /\ written' = written \ {"handler"}
    /\ \E ok \in BOOLEAN :
        /\ SetServiceStatus(ok)
        /\ handler' = CASE handler = "resign" -> "callresign"
                        [] handler = "stop" /\ ok -> "callstop"
                        [] handler = "stop" /\ ~ok -> "unreported"
    /\ UNCHANGED <<state, code, errorCode, mute, raced>>

\* stop is called, and may fail.
CallStop ==
    /\ \/ handler = "callstop" /\ handler' \in {"idle", "failed"}
       \/ handler = "callresign" /\ handler' = "failed"
    /\ stopped' = TRUE
    /\ UNCHANGED <<inited, ran, cleaned, failed, status>>

\* After a stop that was not reported, a stop that failed, and a resignation.
SetErrorCode ==
    /\ \/ handler = "unreported" /\ handler' = "callstop"
       \/ handler = "failed" /\ handler' = "idle"
    /\ errorCode' = TRUE
    /\ UNCHANGED <<written, state, code, reported, reportedCode, mute, raced>>

HandlerStep ==
    /\ main = "dispatch"
    /\ \/ Interrogate /\ UNCHANGED callbacks
       \/ WriteStopping /\ UNCHANGED callbacks
       \/ ReportStopping /\ UNCHANGED callbacks
       \/ CallStop
       \/ SetErrorCode /\ UNCHANGED callbacks
    /\ UNCHANGED <<main, svc>>

-----------------------------------------------------------------------------
(* The main thread. *)

\* The service control manager starts the program.
Start ==
    /\ main = "none"
    /\ main' = "log"
    /\ UNCHANGED <<svc, handler, status, callbacks>>

\* su_log_init_syslog and StartServiceCtrlDispatcher.
Dispatch ==
    /\ main = "log"
    /\ \/ main' = "dispatch" /\ svc' = "register"
       \/ main' = "exit" /\ UNCHANGED svc
    /\ UNCHANGED <<handler, status, callbacks>>

\* StartServiceCtrlDispatcher returns, and the program exits.
Stopped ==
    /\ main = "dispatch"
    /\ handler = "idle"
    /\ reported = "stopped"
    /\ main' = "exit"
    /\ UNCHANGED <<svc, handler, status, callbacks>>

\* The process is gone.
Forget ==
    /\ main = "exit"
    /\ main' = "none"
    /\ svc' = "none"
    /\ handler' = "idle"
    /\ written' = {}
    /\ state' = "stopped" /\ code' = FALSE /\ errorCode' = FALSE
    /\ reported' = "start_pending" /\ reportedCode' = FALSE
    /\ inited' = 0 /\ ran' = 0 /\ cleaned' = 0
    /\ stopped' = FALSE /\ failed' = FALSE
    /\ mute' = FALSE /\ raced' = FALSE

-----------------------------------------------------------------------------
(* Properties. *)

\* "The run function must return before cleanup will be called"
\* (a/to_do/daemon.c:745): cleanup is called once after each successful init,
\* not while run may still use what init made, and before the program exits,
\* whichever of the status reports fail.
CleanupFollowsRun ==
    /\ cleaned <= inited
    /\ svc = "run" => cleaned = 0
    /\ svc \in Ending \cup {"coded", "returned"} \/ main = "exit" => cleaned = inited

\* What an exit code of zero stands for.
Well == ~failed /\ inited = 1 /\ ran = 1 /\ cleaned = 1

\* A service that is reported stopped without an error had an init, a run and a
\* cleanup that worked, whatever the two threads wrote between; or the control
\* handler was there first, with the state that su_daemon_stopped wrote before the
\* error, and the service thread's own report is refused then.
ZeroMeansWell ==
    reported = "stopped" /\ ~reportedCode /\ ~Well => svc \in {"stopped1", "coded"} \/ mute
=============================================================================
