------------------------------ MODULE Install ------------------------------
(***************************************************************************)
(* su_daemon_install and su_daemon_uninstall of a/to_do/daemon.c with      *)
(* a_log_install and a_log_uninstall of a/to_do/log.c, on Windows: a       *)
(* program that enters itself into the database of the service control     *)
(* manager and into the registry, or takes itself out.  One step is a      *)
(* system call, any of which may fail: the program then frees what it      *)
(* lists, and ends; the handles are closed for it.                         *)
(*                                                                         *)
(* The database and the registry are external.  They stay when a program   *)
(* ends half way, and the next program meets them.                         *)
(***************************************************************************)
EXTENDS Naturals, Sequences

VARIABLES
    cpc,      \* the next call, or "idle": no program runs
    result,   \* of the last program: "none", "installed", "uninstalled" or "error"
    entry,    \* the service is in the database
    key,      \* the program's registry key is there
    values,   \* its values
    handles,  \* the open handles
    blocks    \* the allocated names

install == <<cpc, result, entry, key, values, handles, blocks>>
stores == <<entry, key, values>>

Init ==
    /\ cpc = "idle"
    /\ result = "none"
    /\ entry = FALSE
    /\ key = FALSE
    /\ values = {}
    /\ handles = {}
    /\ blocks = {}

-----------------------------------------------------------------------------
(* A call at l, after which the one at next comes; and one that fails, after *)
(* which the blocks of list are freed.                                       *)

Call(l, next) == cpc = l /\ cpc' = next /\ UNCHANGED result

Fails(l, list) ==
    /\ cpc = l
    /\ cpc' = "idle"
    /\ result' = "error"
    /\ blocks' = blocks \ list
    /\ UNCHANGED <<stores, handles>>

Ends(l, r) == cpc = l /\ cpc' = "idle" /\ result' = r

Opens(l, next, h) == Call(l, next) /\ handles' = handles \cup {h} /\ UNCHANGED <<stores, blocks>>
Closes(l, next, h) == Call(l, next) /\ handles' = handles \ {h} /\ UNCHANGED <<stores, blocks>>

\* A program starts, when the last one is gone.  At "idle" it is another one.
Run(l) ==
    /\ cpc = "idle"
    /\ cpc' = l
    /\ result' = "none"
    /\ handles' = {}
    /\ blocks' = {}
    /\ UNCHANGED stores

-----------------------------------------------------------------------------
(* su_daemon_install. *)

\* su_fullpath and su_barename.
Fullpath ==
    \/ Call("fullpath", "name") /\ blocks' = {"full_path"} /\ UNCHANGED <<stores, handles>>
    \/ Fails("fullpath", {})
Name ==
    \/ Call("name", "manager") /\ blocks' = blocks \cup {"name"} /\ UNCHANGED <<stores, handles>>
    \/ Fails("name", {"full_path"})

Manager ==
    \/ Opens("manager", "create", "database")
    \/ Fails("manager", {"full_path", "name"})

\* CreateService fails when the service exists.
Create ==
    \/ /\ Call("create", "closeservice")
       /\ ~entry
       /\ entry' = TRUE
       /\ handles' = handles \cup {"service"}
       /\ blocks' = blocks \ {"full_path", "name"}
       /\ UNCHANGED <<key, values>>
    \/ Fails("create", {"full_path", "name"})

CloseService ==
    \/ Closes("closeservice", "closemanager", "service")
    \/ Fails("closeservice", {})
CloseManager ==
    \/ Closes("closemanager", "barename", "database")
    \/ Fails("closemanager", {})

\* a_log_install.  Its name is freed before the next system call.
LogBarename ==
    \/ Call("barename", "createkey") /\ UNCHANGED <<stores, handles, blocks>>
    \/ Fails("barename", {})

CreateKey ==
    \/ /\ Call("createkey", "EventMessageFile")
       /\ key' = TRUE
       /\ handles' = handles \cup {"key"}
       /\ UNCHANGED <<entry, values, blocks>>
    \/ Fails("createkey", {})

\* The values of the key, in the order they are set and deleted.
SetOrder == <<"EventMessageFile", "CategoryMessageFile", "TypesSupported", "CategoryCount", "closekey">>

\* Fault: one of the values is not set.
SetNothing(n) ==
    \/ /\ Call(SetOrder[n], SetOrder[n + 1])
       /\ values' = IF n = 2 THEN values ELSE values \cup {SetOrder[n]}
       /\ UNCHANGED <<entry, key, handles, blocks>>
    \/ Fails(SetOrder[n], {})

SetValue(n) ==
    \/ /\ Call(SetOrder[n], SetOrder[n + 1])
       /\ values' = values \cup {SetOrder[n]}
       /\ UNCHANGED <<entry, key, handles, blocks>>
    \/ Fails(SetOrder[n], {})

CloseKey ==
    \/ /\ Ends("closekey", "installed")
       /\ handles' = handles \ {"key"}
       /\ UNCHANGED <<stores, blocks>>
    \/ Fails("closekey", {})

-----------------------------------------------------------------------------
(* su_daemon_uninstall. *)

UnName ==
    \/ Call("unname", "unmanager") /\ blocks' = {"name"} /\ UNCHANGED <<stores, handles>>
    \/ Fails("unname", {})
UnManager ==
    \/ Opens("unmanager", "openservice", "database")
    \/ Fails("unmanager", {"name"})
OpenService ==
    \/ /\ Call("openservice", "delete")
       /\ entry
       /\ handles' = handles \cup {"service"}
       /\ blocks' = blocks \ {"name"}
       /\ UNCHANGED stores
    \/ Fails("openservice", {"name"})
DeleteService ==
    \/ Call("delete", "uncloseservice") /\ entry' = FALSE /\ UNCHANGED <<key, values, handles, blocks>>
    \/ Fails("delete", {})
UnCloseService ==
    \/ Closes("uncloseservice", "unclosemanager", "service")
    \/ Fails("uncloseservice", {})
UnCloseManager ==
    \/ Closes("unclosemanager", "unbarename", "database")
    \/ Fails("unclosemanager", {})

\* a_log_uninstall.
UnBarename ==
    \/ Call("unbarename", "openkey") /\ blocks' = {"name"} /\ UNCHANGED <<stores, handles>>
    \/ Fails("unbarename", {})
OpenKey ==
    \/ key /\ Opens("openkey", "unEventMessageFile", "key")
    \/ Fails("openkey", {"name"})

Un(l) == CASE l = "EventMessageFile"    -> "unEventMessageFile"
           [] l = "CategoryMessageFile" -> "unCategoryMessageFile"
           [] l = "TypesSupported"      -> "unTypesSupported"
           [] l = "CategoryCount"       -> "unCategoryCount"
           [] l = "closekey"            -> "unclosekey"

\* RegDeleteValue fails when the value is not there.
DeleteValue(n) ==
    \/ /\ Call(Un(SetOrder[n]), Un(SetOrder[n + 1]))
       /\ SetOrder[n] \in values
       /\ values' = values \ {SetOrder[n]}
       /\ UNCHANGED <<entry, key, handles, blocks>>
    \/ Fails(Un(SetOrder[n]), {"name"})

UnCloseKey ==
    \/ Closes("unclosekey", "openparent", "key")
    \/ Fails("unclosekey", {"name"})
OpenParent ==
    \/ Opens("openparent", "deletekey", "parent")
    \/ Fails("openparent", {"name"})

\* The values that are left go with the key.
DeleteKey ==
    \/ /\ Call("deletekey", "closeparent")
       /\ key' = FALSE
       /\ values' = {}
       /\ blocks' = blocks \ {"name"}
       /\ UNCHANGED <<entry, handles>>
    \/ Fails("deletekey", {"name"})
CloseParent ==
    \/ /\ Ends("closeparent", "uninstalled")
       /\ handles' = handles \ {"parent"}
       /\ UNCHANGED <<stores, blocks>>
    \/ Fails("closeparent", {})

Step ==
    \/ Fullpath \/ Name \/ Manager \/ Create \/ CloseService \/ CloseManager
    \/ LogBarename \/ CreateKey \/ CloseKey
    \/ UnName \/ UnManager \/ OpenService \/ DeleteService \/ UnCloseService \/ UnCloseManager
    \/ UnBarename \/ OpenKey \/ UnCloseKey \/ OpenParent \/ DeleteKey \/ CloseParent
    \/ \E n \in 1..4 : SetValue(n) \/ DeleteValue(n)

Next == Run("fullpath") \/ Run("unname") \/ Step

-----------------------------------------------------------------------------
(* Properties. *)

\* Whatever the programs before it left half done, one that says it installed
\* itself is in the database and in the registry with all the values, and one
\* that says it uninstalled itself is in neither.  No program that ended has
\* lost a block, and one that succeeded has closed every handle.
Truthful ==
    /\ result = "installed" => entry /\ key /\ values = {SetOrder[n] : n \in 1..4}
    /\ result = "uninstalled" => ~entry /\ ~key /\ values = {}
    /\ result # "none" => blocks = {}
    /\ result \in {"installed", "uninstalled"} => handles = {}
=============================================================================
