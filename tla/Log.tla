-------------------------------- MODULE Log --------------------------------
(***************************************************************************)
(* The log of a program, a/to_do/log.c: one of four kinds, started by an   *)
(* a_log_init_* function, written to, and cleaned up.  One step is a call. *)
(* On Unix the syslog is the system's, which has vsyslog.  On Windows it   *)
(* is the event log, whose name is kept in a block, and a formatted        *)
(* message is put together in another block.                               *)
(*                                                                         *)
(* The name and the FILE pointer are members of a union: slot.             *)
(***************************************************************************)
EXTENDS Naturals

VARIABLES
    target,  \* "unix" or "win32"
    paired,  \* whether the program starts a log only when it has none, and
             \* writes to it and cleans it up only when that worked
    type,    \* sls.type
    slot,    \* sls.type_state: NULL, a "name", a "file", or one that was freed or closed
    handle,  \* the handle of the event log: NULL, "open" or "closed"
    live,    \* the last start worked, and there was no cleanup since
    ltold,   \* what the last call returned
    sent,    \* whether the last call wrote a message: "yes", "no", or "none" to write
    bad      \* what was done to memory: "nothing", a "close" of nothing or of
             \* what is closed, or a message freed twice: "message"

log == <<target, paired, type, slot, handle, live, ltold, sent, bad>>

Init ==
    /\ target \in {"unix", "win32"}
    /\ paired \in BOOLEAN
    /\ type = "null"
    /\ slot = "NULL"
    /\ handle = "NULL"
    /\ live = FALSE
    /\ ltold = "none"
    /\ sent = "none"
    /\ bad = "nothing"

-----------------------------------------------------------------------------
(* Starting. *)

Starts == bad = "nothing" /\ (paired => ~live)
Started(ok) ==
    /\ live' = ok
    /\ ltold' = IF ok THEN "success" ELSE "error"
    /\ sent' = "none"
    /\ UNCHANGED <<target, paired, bad>>

\* openlog, or a_barename and RegisterEventSource.  The name of an event log
\* that cannot be had is freed, and stays where it was.
InitSyslog ==
    /\ Starts
    /\ type' = "syslog"
    /\ \/ target = "unix" /\ UNCHANGED <<slot, handle>> /\ Started(TRUE)
       \/ target = "win32" /\ slot' = "name" /\ handle' = "open" /\ Started(TRUE)
       \/ target = "win32" /\ slot' = "NULL" /\ UNCHANGED handle /\ Started(FALSE)
       \/ target = "win32" /\ slot' = "freed" /\ handle' = "NULL" /\ Started(FALSE)

InitStderr == Starts /\ type' = "stderr" /\ UNCHANGED <<slot, handle>> /\ Started(TRUE)

InitNull == Starts /\ type' = "null" /\ UNCHANGED <<slot, handle>> /\ Started(TRUE)

InitFile ==
    /\ Starts
    /\ type' = "file"
    /\ \/ slot' = "file" /\ Started(TRUE)
       \/ slot' = "NULL" /\ Started(FALSE)
    /\ UNCHANGED handle

-----------------------------------------------------------------------------
(* Cleaning up.  The type stays, and so do the pointers. *)

CleanupSyslog ==
    \/ /\ target = "unix"
       /\ ltold' = "success"
       /\ UNCHANGED <<slot, handle, bad>>
    \/ /\ target = "win32"
       /\ slot' = IF slot = "name" THEN "freed" ELSE slot
       /\ handle' = IF handle = "open" THEN "closed" ELSE handle
       /\ \/ ltold' = "success" /\ handle # "closed"
          \/ ltold' = "error" /\ handle # "NULL"
       /\ bad' = IF slot \in {"NULL", "name"} THEN "nothing" ELSE "close"

CleanupFile ==
    /\ slot' = IF slot = "file" THEN "closed" ELSE slot
    /\ ltold' \in {"success", "error"}
    /\ bad' = IF slot = "file" THEN "nothing" ELSE "close"
    /\ UNCHANGED handle

\* A program that cleans up what it did not start, or a second time, does it.
Cleanup ==
    /\ bad = "nothing"
    /\ paired => live
    /\ \/ type = "syslog" /\ CleanupSyslog
       \/ type = "file" /\ CleanupFile
       \/ /\ type \in {"stderr", "null"}
          /\ ltold' = "success"
          /\ UNCHANGED <<slot, handle, bad>>
    /\ live' = FALSE
    /\ sent' = "none"
    /\ UNCHANGED <<target, paired, type>>

-----------------------------------------------------------------------------
(* Writing. *)

Writes ==
    /\ bad = "nothing"
    /\ paired => live
    /\ UNCHANGED <<target, paired, type, slot, handle, live>>

Sent(ok) == sent' = IF ok THEN "yes" ELSE "no"
Told(ok) == Sent(ok) /\ ltold' = IF ok THEN "success" ELSE "error"

\* a_log_str_stderr and a_log_stderr.
ToStderr == \E ok \in BOOLEAN : Told(ok)

\* a_log_str_syslog, on Windows: the priority, the length or ReportEvent is wrong.
ReportEvent(ok) == handle = "open" \/ ~ok

\* a_log_str.  Nothing is ever written to a log of type "file".
LogStr ==
    /\ Writes
    /\ \/ type = "syslog" /\ target = "unix" /\ Told(TRUE)
       \/ type = "syslog" /\ target = "win32" /\ \E ok \in BOOLEAN : ReportEvent(ok) /\ Told(ok)
       \/ type = "stderr" /\ ToStderr
       \/ type = "null" /\ sent' = "no" /\ ltold' = "success"
       \/ type = "file" /\ Told(FALSE)
    /\ UNCHANGED bad

\* a_log_syslog, on Windows.  Both outcomes are told as success, and a message
\* that was logged is freed twice.
LogEvent ==
    \/ Told(FALSE) /\ UNCHANGED bad
    \/ \E ok \in BOOLEAN :
        /\ ReportEvent(ok)
        /\ Sent(ok)
        /\ ltold' = "success"
        /\ bad' = IF ok THEN "message" ELSE bad

\* Fault: what stderr returns is not looked at.
LogDeaf ==
    /\ Writes
    /\ \/ type = "syslog" /\ target = "unix" /\ Told(TRUE) /\ UNCHANGED bad
       \/ type = "syslog" /\ target = "win32" /\ LogEvent
       \/ type = "stderr" /\ sent' \in {"yes", "no"} /\ ltold' = "success" /\ UNCHANGED bad
       \/ type = "null" /\ sent' = "no" /\ ltold' = "success" /\ UNCHANGED bad
       \/ type = "file" /\ Told(FALSE) /\ UNCHANGED bad

\* a_log and a_log_vargs.
Log ==
    /\ Writes
    /\ \/ type = "syslog" /\ target = "unix" /\ Told(TRUE) /\ UNCHANGED bad
       \/ type = "syslog" /\ target = "win32" /\ LogEvent
       \/ type = "stderr" /\ ToStderr /\ UNCHANGED bad
       \/ type = "null" /\ sent' = "no" /\ ltold' = "success" /\ UNCHANGED bad
       \/ type = "file" /\ Told(FALSE) /\ UNCHANGED bad

\* a_log_error, a_log_error_vargs and a_log_error_str: the error is made a
\* string first.
LogError ==
    \/ LogStr
    \/ Writes /\ Told(FALSE) /\ UNCHANGED bad

Next ==
    \/ InitSyslog \/ InitStderr \/ InitNull \/ InitFile
    \/ Cleanup
    \/ LogStr \/ Log \/ LogError

-----------------------------------------------------------------------------
(* Properties. *)

\* A program that pairs its starts and cleanups closes and frees everything
\* once, whatever failed, and frees a message twice on Windows only; and on
\* Unix a message it was told is logged is logged.
LogSafe ==
    paired =>
        /\ bad # "close"
        /\ bad = "message" => target = "win32"
        /\ target = "unix" /\ ltold = "success" /\ sent = "no" => type = "null"
=============================================================================
