--------------------------- MODULE ServiceProofs ---------------------------
(* Theorems about Service, for any packets, blocks and backlog. *)
EXTENDS Service, TLAPS

-----------------------------------------------------------------------------
(* The server. *)

\* A server that called back after it was stopped is past its loop.
SInv ==
    /\ late \in {0, 1}
    /\ go => late = 0
    /\ late = 1 => upc \in {"close", "returned"}

LEMMA ServerKeepsSInv == SInv /\ U!Server => SInv'
<1> SUFFICES ASSUME SInv, U!Server
             PROVE  SInv'
    OBVIOUS
<1> USE DEF SInv, U!Goto, U!Return
<1>1. CASE U!ServerStart
  BY <1>1 DEF U!ServerStart
<1>2. CASE \E accepts \in BOOLEAN : U!Startup(accepts)
  BY <1>2 DEF U!Startup
<1>3. CASE U!Recv
  BY <1>3 DEF U!Recv
<1>4. ASSUME NEW continue \in BOOLEAN, U!Call(continue)
      PROVE  SInv'
  <2>1. upc = "call" /\ late = 0 /\ go' = go
    BY <1>4 DEF U!Call, U!Callback
  <2>2. CASE go
    <3>1. late' = 0
      BY <1>4, <2>1, <2>2 DEF U!Call, U!Callback
    <3> QED
      BY <2>1, <3>1
  <2>3. CASE ~go
    <3>1. late' = 1
      BY <1>4, <2>1, <2>3 DEF U!Call, U!Callback
    <3>2. upc' = "close"
      BY <1>4, <2>3 DEF U!Call
    <3> QED
      BY <2>1, <2>3, <3>1, <3>2
  <2> QED
    BY <2>2, <2>3
<1>5. CASE U!Close
  BY <1>5 DEF U!Close
<1>6. CASE U!ServerStartFails
  BY <1>6 DEF U!ServerStartFails
<1>7. CASE U!RecvFails
  BY <1>7 DEF U!RecvFails
<1>8. CASE U!RecvInterrupted
  BY <1>8 DEF U!RecvInterrupted
<1>9. CASE U!RecvError
  BY <1>9 DEF U!RecvError
<1> QED
  BY <1>1, <1>2, <1>3, <1>4, <1>5, <1>6, <1>7, <1>8, <1>9 DEF U!Server, U!Step

\* After udp_server_stop the callback is called at most once more, whenever the
\* signal comes and whatever system calls fail.
THEOREM StopIsSoon == Spec => []StopsSoon
<1>1. Init => SInv
  BY DEF Init, U!Init, SInv
<1>2. SInv /\ [Next]_vars => SInv'
  <2> SUFFICES ASSUME SInv, [Next]_vars
               PROVE  SInv'
      OBVIOUS
  <2>1. CASE U!Server
    BY <2>1, ServerKeepsSInv
  <2>2. CASE UNCHANGED server
    BY <2>2 DEF server, SInv
  <2>3. CASE U!Stop
    BY <2>3 DEF U!Stop, SInv
  <2>4. ASSUME NEW p \in Packet, U!Arrive(p)
        PROVE  SInv'
    BY <2>4 DEF U!Arrive, SInv
  <2>5. U!Server \/ UNCHANGED server \/ U!Stop \/ \E p \in Packet : U!Arrive(p)
    BY Zenon DEF Next, vars, DaemonStep, ServerFails, RunReturns, SigTerm, Killed, Arrive,
                 Windows, Administer, StartService, WinService, WinControl, WinForget,
                 HandlerThread, MainThread
  <2> QED
    BY <2>1, <2>2, <2>3, <2>4, <2>5
<1>3. SInv => StopsSoon
  BY DEF SInv, StopsSoon, U!StopsSoon
<1> QED
  BY <1>1, <1>2, <1>3, PTL DEF Spec

\* Without interruptions a callback is called with the packet in its own block, or
\* in the buffer.
PInv ==
    /\ backlog \in Seq(Packet)
    /\ DOMAIN heap \subseteq Block
    /\ ~mallocs => tmp = Stack
    /\ PacketOwned

LEMMA ServerKeepsPInv == PInv /\ U!Server => PInv'
<1> SUFFICES ASSUME PInv, U!Server
             PROVE  PInv'
    OBVIOUS
<1> USE DEF PInv, PacketOwned, U!PacketOwned, U!Content, U!Goto, U!Return
<1>1. CASE U!ServerStart
  BY <1>1 DEF U!ServerStart
<1>2. CASE \E accepts \in BOOLEAN : U!Startup(accepts)
  BY <1>2 DEF U!Startup
<1>3. CASE U!Recv
  <2>1. /\ Head(backlog) \in Packet /\ Tail(backlog) \in Seq(Packet)
        /\ upc' = "call" /\ size' = Head(backlog) /\ buf' = Head(backlog)
        /\ backlog' = Tail(backlog) /\ UNCHANGED <<mallocs, interrupts, fault>>
    BY <1>3 DEF U!Recv
  <2>2. CASE mallocs
    <3>1. PICK b \in Block \ DOMAIN heap :
             /\ heap' = [c \in DOMAIN heap \cup {b} |-> IF c = b THEN Head(backlog) ELSE heap[c]]
             /\ tmp' = b
      BY <1>3, <2>2 DEF U!Recv
    <3>2. b # Stack
      BY <3>1, BlockAssumption
    <3> QED
      BY <2>1, <2>2, <3>1, <3>2
  <2>3. CASE ~mallocs
    <3>1. UNCHANGED <<heap, tmp>>
      BY <1>3, <2>3 DEF U!Recv
    <3> QED
      BY <2>1, <2>3, <3>1
  <2> QED
    BY <2>2, <2>3
<1>4. ASSUME NEW continue \in BOOLEAN, U!Call(continue)
      PROVE  PInv'
  <2>1. upc = "call" /\ upc' \in {"recv", "close"} /\ UNCHANGED <<mallocs, interrupts, backlog, tmp>>
    BY <1>4 DEF U!Call, U!Callback
  <2>2. DOMAIN heap' \subseteq DOMAIN heap
    BY <1>4 DEF U!Call, U!Callback
  <2>3. ~interrupts => ~fault'
    BY <1>4, <2>1 DEF U!Call, U!Callback
  <2> QED
    BY <2>1, <2>2, <2>3
<1>5. CASE U!Close
  BY <1>5 DEF U!Close
<1>6. CASE U!ServerStartFails
  BY <1>6 DEF U!ServerStartFails
<1>7. CASE U!RecvFails
  BY <1>7 DEF U!RecvFails
<1>8. CASE U!RecvInterrupted
  BY <1>8 DEF U!RecvInterrupted
<1>9. CASE U!RecvError
  BY <1>9 DEF U!RecvError
<1> QED
  BY <1>1, <1>2, <1>3, <1>4, <1>5, <1>6, <1>7, <1>8, <1>9 DEF U!Server, U!Step

\* What a callback gets is the packet that was received last, and it frees no block
\* twice, for any number of packets and blocks.
THEOREM PacketIsOwned == Spec => []PacketOwned
<1>1. Init => PInv
  BY DEF Init, U!Init, PInv, PacketOwned, U!PacketOwned
<1>2. PInv /\ [Next]_vars => PInv'
  <2> SUFFICES ASSUME PInv, [Next]_vars
               PROVE  PInv'
      OBVIOUS
  <2>1. CASE U!Server
    BY <2>1, ServerKeepsPInv
  <2>2. CASE UNCHANGED server
    BY <2>2 DEF server, PInv, PacketOwned, U!PacketOwned, U!Content
  <2>3. CASE U!Stop
    BY <2>3 DEF U!Stop, PInv, PacketOwned, U!PacketOwned, U!Content
  <2>4. ASSUME NEW p \in Packet, U!Arrive(p)
        PROVE  PInv'
    BY <2>4 DEF U!Arrive, PInv, PacketOwned, U!PacketOwned, U!Content
  <2>5. U!Server \/ UNCHANGED server \/ U!Stop \/ \E p \in Packet : U!Arrive(p)
    BY Zenon DEF Next, vars, DaemonStep, ServerFails, RunReturns, SigTerm, Killed, Arrive,
                 Windows, Administer, StartService, WinService, WinControl, WinForget,
                 HandlerThread, MainThread
  <2> QED
    BY <2>1, <2>2, <2>3, <2>4, <2>5
<1>3. PInv => PacketOwned
  BY DEF PInv
<1> QED
  BY <1>1, <1>2, <1>3, PTL DEF Spec

-----------------------------------------------------------------------------
(* The Windows service. *)

\* What was called when the service thread is at svc; and a status that says
\* "stopped" is one that the thread wrote when it was done with its callbacks.
WInv ==
    /\ main \in {"none", "log", "dispatch", "exit"}
    /\ main \in {"none", "log"} => svc = "none" /\ reported = "start_pending"
    /\ svc \in {"none", "register", "unregistered", "starting", "init", "running", "run", "stopping",
                "abort", "giveup", "cleanup", "cleanup1", "stopped0", "stopped1", "coded", "returned"}
    /\ svc \in {"none", "register", "unregistered", "starting", "init"} => inited = 0 /\ ran = 0 /\ cleaned = 0
    /\ svc \in {"running", "run", "stopping", "abort", "cleanup", "cleanup1"} => inited = 1 /\ cleaned = 0
    /\ svc \in {"giveup", "stopped0", "stopped1", "coded", "returned"} => inited \in {0, 1} /\ cleaned = inited
    /\ svc \in {"none", "register", "unregistered", "starting", "init",
                 "running", "run", "stopping", "cleanup"} => ~failed
    /\ svc \in {"running", "run"} => ran = 0
    /\ svc \in {"stopping", "cleanup"} => ran = 1
    /\ svc \in {"none", "register"} => handler = "idle" /\ reported = "start_pending"
    /\ "svc" \in written => svc \in W!Ending \cup DOMAIN W!Reports
    /\ state = "stopped" => \/ svc \in {"none", "register", "coded", "returned"}
                            \/ svc \in W!Ending /\ "svc" \in written
    /\ svc = "stopped0" => W!Well
    /\ svc \in {"coded", "returned"} => code \/ W!Well
    /\ svc = "coded" => "svc" \in written
    /\ reported = "stopped" => /\ svc \in {"stopped0", "stopped1", "coded", "returned"}
                               /\ reportedCode \/ W!Well \/ svc \in {"stopped1", "coded"} \/ mute
    /\ main = "exit" => svc \in {"none", "stopped0", "stopped1", "coded", "returned"}

LEMMA ReportKeepsWInv == WInv /\ main = "dispatch" /\ (W!WriteState \/ W!WriteCodes \/ W!ReportStatus)
                              /\ UNCHANGED W!callbacks /\ UNCHANGED <<main, handler>> => WInv'
<1> SUFFICES ASSUME WInv, main = "dispatch", W!WriteState \/ W!WriteCodes \/ W!ReportStatus,
                    UNCHANGED W!callbacks, UNCHANGED <<main, handler>>
             PROVE  WInv'
    OBVIOUS
<1>0. UNCHANGED <<inited, ran, cleaned, stopped, failed>> /\ W!Well' = W!Well
  BY DEF W!callbacks, W!Well
<1>1. CASE W!WriteState
  BY <1>0, <1>1 DEF WInv, W!WriteState, W!Reports, W!Ending
<1>3. CASE W!WriteCodes
  BY <1>0, <1>3 DEF WInv, W!WriteCodes, W!Reports, W!Ending
<1>2. CASE W!ReportStatus
  <2>1. /\ svc \in DOMAIN W!Reports /\ "svc" \notin written'
        /\ UNCHANGED <<state, code>>
    BY <1>2 DEF W!ReportStatus
  <2>2. \/ /\ reported # "stopped" /\ reported' = state /\ reportedCode' = code
           /\ svc' = W!Reports[svc].good
        \/ /\ UNCHANGED <<reported, reportedCode>>
           /\ svc' = W!Reports[svc].bad
           /\ svc = "coded" => mute' = TRUE
    BY <1>2 DEF W!ReportStatus, W!SetServiceStatus
  <2>3. CASE svc = "coded"
    <3>1. svc' = "returned"
      BY <2>2, <2>3 DEF W!Reports
    <3>2. code \/ W!Well
      <4>1. svc \in {"coded", "returned"}
        BY <2>3
      <4> QED
        BY <4>1, Zenon DEF WInv
    <3>3. CASE reported' = state /\ reportedCode' = code
      <4>1. reportedCode' \/ W!Well'
        BY <1>0, <3>2, <3>3, Zenon
      <4> QED
        BY <1>0, <2>1, <2>3, <3>1, <4>1 DEF WInv, W!Reports, W!Ending
    <3>4. CASE UNCHANGED <<reported, reportedCode>> /\ mute' = TRUE
      BY <1>0, <2>1, <2>3, <3>1, <3>4 DEF WInv, W!Reports, W!Ending
    <3> QED
      BY <2>2, <2>3, <3>3, <3>4
  <2>4. CASE svc # "coded"
    <3>1. reported # "stopped" /\ reported' # "stopped" /\ state' # "stopped"
      BY <2>1, <2>2, <2>4 DEF WInv, W!Reports, W!Ending
    <3>2. svc' \in {W!Reports[svc].good, W!Reports[svc].bad}
      BY <2>2
    <3> QED
      BY <1>0, <2>1, <2>4, <3>1, <3>2 DEF WInv, W!Reports, W!Ending
  <2> QED
    BY <2>3, <2>4
<1> QED
  BY <1>1, <1>2, <1>3

LEMMA CallKeepsWInv == WInv /\ main = "dispatch" /\ (W!Register \/ W!CallInit \/ W!CallCleanup \/ W!RunReturns)
                            /\ UNCHANGED <<main, handler>> => WInv'
<1> SUFFICES ASSUME WInv, main = "dispatch", W!Register \/ W!CallInit \/ W!CallCleanup \/ W!RunReturns,
                    UNCHANGED <<main, handler>>
             PROVE  WInv'
    OBVIOUS
<1>1. CASE W!Register
  BY <1>1 DEF WInv, W!Well, W!Register, W!Reports, W!Ending, W!callbacks
<1>2. CASE W!CallInit
  BY <1>2 DEF WInv, W!Well, W!CallInit, W!Reports, W!Ending, W!status
<1>3. CASE W!CallCleanup
  <2>1. /\ "svc" \notin written /\ cleaned' = 1 /\ inited = 1
        /\ UNCHANGED <<inited, ran, stopped, written, state, code, errorCode, reported, reportedCode, mute>>
    <3>1. svc \in {"cleanup", "cleanup1"} /\ cleaned' = cleaned + 1
      BY <1>3 DEF W!CallCleanup
    <3>2. UNCHANGED <<inited, ran, stopped, written, state, code, errorCode, reported, reportedCode, mute>>
      BY <1>3 DEF W!CallCleanup, W!status
    <3>3. inited = 1 /\ cleaned = 0
      BY <3>1 DEF WInv
    <3>4. svc \notin W!Ending \cup DOMAIN W!Reports
      BY <3>1 DEF W!Reports, W!Ending
    <3> QED
      BY <3>1, <3>2, <3>3, <3>4 DEF WInv
  <2>2. state # "stopped" /\ reported # "stopped"
    BY <1>3, <2>1 DEF WInv, W!CallCleanup
  <2>3. CASE svc = "cleanup" /\ svc' = "stopped0" /\ UNCHANGED failed
    BY <2>1, <2>2, <2>3 DEF WInv, W!Well, W!Reports, W!Ending
  <2>4. CASE svc = "cleanup" /\ svc' = "giveup"
    BY <2>1, <2>2, <2>4 DEF WInv, W!Well, W!Reports, W!Ending
  <2>5. CASE svc = "cleanup1" /\ svc' = "stopped1"
    BY <2>1, <2>2, <2>5 DEF WInv, W!Well, W!Reports, W!Ending
  <2> QED
    BY <1>3, <2>3, <2>4, <2>5 DEF W!CallCleanup
<1>4. CASE W!RunReturns
  BY <1>4 DEF WInv, W!Well, W!RunReturns, W!Reports, W!Ending, W!status
<1> QED
  BY <1>1, <1>2, <1>3, <1>4

LEMMA HandlerKeepsWInv == WInv /\ (W!Control \/ W!HandlerStep) => WInv'
<1> SUFFICES ASSUME WInv, W!Control \/ W!HandlerStep
             PROVE  WInv'
    OBVIOUS
<1>1. CASE W!Control
  BY <1>1 DEF WInv, W!Well, W!Control, W!Reports, W!Ending, W!status, W!callbacks
<1>2. CASE W!Interrogate /\ UNCHANGED W!callbacks /\ UNCHANGED <<main, svc>>
  BY <1>2 DEF WInv, W!Well, W!Interrogate, W!SetServiceStatus, W!Reports, W!Ending, W!callbacks
<1>3. CASE W!WriteStopping /\ UNCHANGED W!callbacks /\ UNCHANGED <<main, svc>>
  BY <1>3 DEF WInv, W!Well, W!WriteStopping, W!Reports, W!Ending, W!callbacks
<1>4. CASE W!ReportStopping /\ UNCHANGED W!callbacks /\ UNCHANGED <<main, svc>>
  BY <1>4 DEF WInv, W!Well, W!ReportStopping, W!SetServiceStatus, W!Reports, W!Ending, W!callbacks
<1>5. CASE W!CallStop /\ UNCHANGED <<main, svc>>
  BY <1>5 DEF WInv, W!Well, W!CallStop, W!status, W!Reports, W!Ending
<1>6. CASE W!SetErrorCode /\ UNCHANGED W!callbacks /\ UNCHANGED <<main, svc>>
  BY <1>6 DEF WInv, W!Well, W!SetErrorCode, W!Reports, W!Ending, W!callbacks
<1> QED
  BY <1>1, <1>2, <1>3, <1>4, <1>5, <1>6 DEF W!HandlerStep

LEMMA MainKeepsWInv == WInv /\ (W!Start \/ W!Dispatch \/ W!Stopped \/ W!Forget) => WInv'
<1> SUFFICES ASSUME WInv, W!Start \/ W!Dispatch \/ W!Stopped \/ W!Forget
             PROVE  WInv'
    OBVIOUS
<1>1. CASE W!Start
  BY <1>1 DEF WInv, W!Well, W!Start, W!Reports, W!Ending, W!status, W!callbacks
<1>2. CASE W!Dispatch
  BY <1>2 DEF WInv, W!Well, W!Dispatch, W!Reports, W!Ending, W!status, W!callbacks
<1>3. CASE W!Stopped
  BY <1>3 DEF WInv, W!Well, W!Stopped, W!Reports, W!Ending, W!status, W!callbacks
<1>4. CASE W!Forget
  BY <1>4 DEF WInv, W!Well, W!Forget, W!Reports, W!Ending
<1> QED
  BY <1>1, <1>2, <1>3, <1>4

LEMMA WInvHolds == Spec => []WInv
<1>1. Init => WInv
  BY DEF Init, W!Init, WInv, W!Well, W!Reports, W!Ending
<1>2. WInv /\ [Next]_vars => WInv'
  <2> SUFFICES ASSUME WInv, [Next]_vars
               PROVE  WInv'
      OBVIOUS
  <2>1. CASE W!ServiceStep
    BY <2>1, ReportKeepsWInv, CallKeepsWInv DEF W!ServiceStep
  <2>2. CASE W!RunEnds
    BY <2>2, CallKeepsWInv DEF W!RunEnds
  <2>3. CASE W!Control \/ W!HandlerStep
    BY <2>3, HandlerKeepsWInv
  <2>4. CASE W!Start \/ W!Dispatch \/ W!Stopped \/ W!Forget
    BY <2>4, MainKeepsWInv
  <2>5. CASE UNCHANGED windaemon
    BY <2>5 DEF windaemon, WInv, W!Well
  <2>6. \/ W!ServiceStep \/ W!RunEnds \/ W!Control \/ W!HandlerStep
        \/ W!Start \/ W!Dispatch \/ W!Stopped \/ W!Forget
        \/ UNCHANGED windaemon
    BY Zenon DEF Next, vars, windows, DaemonStep, ServerFails, RunReturns, SigTerm, Killed, Arrive, Unix,
                 Windows, Administer, StartService, WinService, WinControl, WinForget,
                 HandlerThread, MainThread
  <2> QED
    BY <2>1, <2>2, <2>3, <2>4, <2>5, <2>6
<1> QED
  BY <1>1, <1>2, PTL DEF Spec

\* "The run function must return before cleanup will be called", and it is called
\* once after each init that worked, whichever status reports fail and wherever
\* the controls come.
THEOREM CleanupFollows == Spec => []CleanupFollowsRun
<1>1. WInv => CleanupFollowsRun
  BY DEF WInv, CleanupFollowsRun, W!CleanupFollowsRun, W!Ending
<1> QED
  BY <1>1, WInvHolds, PTL

\* A zero that is wrong was reported by the control handler while su_daemon_stopped
\* was between the state and the exit codes, and the report of the service thread is
\* then refused: no other order of the two threads makes one.
THEOREM ZeroIsWell == Spec => []ZeroMeansWell
<1>1. WInv => ZeroMeansWell
  BY DEF WInv, ZeroMeansWell, W!ZeroMeansWell
<1> QED
  BY <1>1, WInvHolds, PTL

-----------------------------------------------------------------------------
(* The installation. *)

Values == {"EventMessageFile", "CategoryMessageFile", "TypesSupported", "CategoryCount"}
Setting == Values \cup {"closekey"}
Deleting == {"unEventMessageFile", "unCategoryMessageFile", "unTypesSupported", "unCategoryCount", "unclosekey"}
Places == {"idle", "fullpath", "name", "manager", "create", "closeservice", "closemanager", "barename",
           "createkey", "unname", "unmanager", "openservice", "delete", "uncloseservice", "unclosemanager",
           "unbarename", "openkey", "openparent", "deletekey", "closeparent"} \cup Setting \cup Deleting

\* What a program that has come to cpc has made, has open, and has allocated.
IInv ==
    /\ cpc \in Places
    /\ result \in {"none", "installed", "uninstalled", "error"}
    /\ values \subseteq Values
    /\ handles \subseteq {"database", "service", "key", "parent"}
    /\ blocks \subseteq {"full_path", "name"}
    /\ result = "installed" => entry = TRUE /\ key = TRUE /\ values = Values
    /\ result = "uninstalled" => entry = FALSE /\ key = FALSE /\ values = {}
    /\ result # "none" => blocks = {}
    /\ result \in {"installed", "uninstalled"} => handles = {}
    /\ cpc # "idle" =>
          /\ result = "none"
          /\ "database" \in handles =>
                cpc \in {"create", "closeservice", "closemanager",
                         "openservice", "delete", "uncloseservice", "unclosemanager"}
          /\ "service" \in handles => cpc \in {"closeservice", "delete", "uncloseservice"}
          /\ "key" \in handles => cpc \in Setting \cup Deleting
          /\ "parent" \in handles => cpc \in {"deletekey", "closeparent"}
          /\ "full_path" \in blocks => cpc \in {"name", "manager", "create"}
          /\ "name" \in blocks =>
                cpc \in {"manager", "create", "unmanager", "openservice",
                         "openkey", "openparent", "deletekey"} \cup Deleting
    /\ cpc \in {"closeservice", "closemanager", "barename", "createkey"} \cup Setting => entry = TRUE
    /\ cpc \in Setting => key = TRUE
    /\ cpc \in {"CategoryMessageFile", "TypesSupported", "CategoryCount", "closekey"} =>
          "EventMessageFile" \in values
    /\ cpc \in {"TypesSupported", "CategoryCount", "closekey"} => "CategoryMessageFile" \in values
    /\ cpc \in {"CategoryCount", "closekey"} => "TypesSupported" \in values
    /\ cpc = "closekey" => "CategoryCount" \in values
    /\ cpc \in {"uncloseservice", "unclosemanager", "unbarename",
                 "openkey", "openparent", "deletekey", "closeparent"}
               \cup Deleting => entry = FALSE
    /\ cpc = "closeparent" => key = FALSE /\ values = {}

LEMMA FourValues == {I!SetOrder[n] : n \in 1..4} = Values
BY DEF I!SetOrder, Values

LEMMA FailsKeepsIInv ==
  ASSUME IInv, NEW l, NEW list, l # "idle", I!Fails(l, list), blocks \subseteq list
  PROVE  IInv'
<1>1. blocks' = {} /\ result' = "error" /\ cpc' = "idle" /\ UNCHANGED <<entry, key, values, handles>>
  BY DEF I!Fails, I!stores
<1> QED
  BY <1>1 DEF IInv, Places, Setting, Deleting, Values

LEMMA InstallKeepsIInv ==
  ASSUME IInv,
         \/ I!Fullpath \/ I!Name \/ I!Manager \/ I!Create \/ I!CloseService
         \/ I!CloseManager \/ I!LogBarename \/ I!CreateKey \/ I!CloseKey
  PROVE  IInv'
<1> USE DEF IInv, Places, Setting, Deleting, Values,
        I!Call, I!Ends, I!Opens, I!Closes, I!stores
<1>1. CASE I!Fullpath
  <2>1. CASE I!Fails("fullpath", {})
    <3>1. blocks \subseteq {}
      BY <2>1 DEF I!Fails
    <3> QED
      BY <2>1, <3>1, FailsKeepsIInv
  <2>2. CASE ~I!Fails("fullpath", {})
    BY <1>1, <2>2 DEF I!Fullpath
  <2> QED
    BY <2>1, <2>2
<1>2. CASE I!Name
  <2>1. CASE I!Fails("name", {"full_path"})
    <3>1. blocks \subseteq {"full_path"}
      BY <2>1 DEF I!Fails
    <3> QED
      BY <2>1, <3>1, FailsKeepsIInv
  <2>2. CASE ~I!Fails("name", {"full_path"})
    BY <1>2, <2>2 DEF I!Name
  <2> QED
    BY <2>1, <2>2
<1>3. CASE I!Manager
  <2>1. CASE I!Fails("manager", {"full_path", "name"})
    <3>1. blocks \subseteq {"full_path", "name"}
      BY <2>1 DEF I!Fails
    <3> QED
      BY <2>1, <3>1, FailsKeepsIInv
  <2>2. CASE ~I!Fails("manager", {"full_path", "name"})
    BY <1>3, <2>2 DEF I!Manager
  <2> QED
    BY <2>1, <2>2
<1>4. CASE I!Create
  <2>1. CASE I!Fails("create", {"full_path", "name"})
    <3>1. blocks \subseteq {"full_path", "name"}
      BY <2>1 DEF I!Fails
    <3> QED
      BY <2>1, <3>1, FailsKeepsIInv
  <2>2. CASE ~I!Fails("create", {"full_path", "name"})
    BY <1>4, <2>2 DEF I!Create
  <2> QED
    BY <2>1, <2>2
<1>5. CASE I!CloseService
  <2>1. CASE I!Fails("closeservice", {})
    <3>1. blocks \subseteq {}
      BY <2>1 DEF I!Fails
    <3> QED
      BY <2>1, <3>1, FailsKeepsIInv
  <2>2. CASE ~I!Fails("closeservice", {})
    BY <1>5, <2>2 DEF I!CloseService
  <2> QED
    BY <2>1, <2>2
<1>6. CASE I!CloseManager
  <2>1. CASE I!Fails("closemanager", {})
    <3>1. blocks \subseteq {}
      BY <2>1 DEF I!Fails
    <3> QED
      BY <2>1, <3>1, FailsKeepsIInv
  <2>2. CASE ~I!Fails("closemanager", {})
    BY <1>6, <2>2 DEF I!CloseManager
  <2> QED
    BY <2>1, <2>2
<1>7. CASE I!LogBarename
  <2>1. CASE I!Fails("barename", {})
    <3>1. blocks \subseteq {}
      BY <2>1 DEF I!Fails
    <3> QED
      BY <2>1, <3>1, FailsKeepsIInv
  <2>2. CASE ~I!Fails("barename", {})
    BY <1>7, <2>2 DEF I!LogBarename
  <2> QED
    BY <2>1, <2>2
<1>8. CASE I!CreateKey
  <2>1. CASE I!Fails("createkey", {})
    <3>1. blocks \subseteq {}
      BY <2>1 DEF I!Fails
    <3> QED
      BY <2>1, <3>1, FailsKeepsIInv
  <2>2. CASE ~I!Fails("createkey", {})
    BY <1>8, <2>2 DEF I!CreateKey
  <2> QED
    BY <2>1, <2>2
<1>9. CASE I!CloseKey
  <2>1. CASE I!Fails("closekey", {})
    <3>1. blocks \subseteq {}
      BY <2>1 DEF I!Fails
    <3> QED
      BY <2>1, <3>1, FailsKeepsIInv
  <2>2. CASE ~I!Fails("closekey", {})
    <3>1. /\ cpc = "closekey" /\ cpc' = "idle" /\ result' = "installed"
          /\ handles' = handles \ {"key"} /\ UNCHANGED <<entry, key, values, blocks>>
      BY <1>9, <2>2 DEF I!CloseKey
    <3>2. handles' = {} /\ blocks = {}
      BY <3>1
    <3>3. Values \subseteq values /\ values \subseteq Values
      BY <3>1
    <3>4. values = Values
      BY <3>3, Zenon
    <3> QED
      BY <3>1, <3>2, <3>4
  <2> QED
    BY <2>1, <2>2
<1> QED
  BY <1>1, <1>2, <1>3, <1>4, <1>5, <1>6, <1>7, <1>8, <1>9

LEMMA UninstallKeepsIInv ==
  ASSUME IInv,
         \/ I!UnName \/ I!UnManager \/ I!OpenService \/ I!DeleteService
         \/ I!UnCloseService \/ I!UnCloseManager \/ I!UnBarename \/ I!OpenKey
         \/ I!UnCloseKey \/ I!OpenParent \/ I!DeleteKey \/ I!CloseParent
  PROVE  IInv'
<1> USE DEF IInv, Places, Setting, Deleting, Values,
        I!Call, I!Ends, I!Opens, I!Closes, I!stores
<1>1. CASE I!UnName
  <2>1. CASE I!Fails("unname", {})
    <3>1. blocks \subseteq {}
      BY <2>1 DEF I!Fails
    <3> QED
      BY <2>1, <3>1, FailsKeepsIInv
  <2>2. CASE ~I!Fails("unname", {})
    BY <1>1, <2>2 DEF I!UnName
  <2> QED
    BY <2>1, <2>2
<1>2. CASE I!UnManager
  <2>1. CASE I!Fails("unmanager", {"name"})
    <3>1. blocks \subseteq {"name"}
      BY <2>1 DEF I!Fails
    <3> QED
      BY <2>1, <3>1, FailsKeepsIInv
  <2>2. CASE ~I!Fails("unmanager", {"name"})
    BY <1>2, <2>2 DEF I!UnManager
  <2> QED
    BY <2>1, <2>2
<1>3. CASE I!OpenService
  <2>1. CASE I!Fails("openservice", {"name"})
    <3>1. blocks \subseteq {"name"}
      BY <2>1 DEF I!Fails
    <3> QED
      BY <2>1, <3>1, FailsKeepsIInv
  <2>2. CASE ~I!Fails("openservice", {"name"})
    BY <1>3, <2>2 DEF I!OpenService
  <2> QED
    BY <2>1, <2>2
<1>4. CASE I!DeleteService
  <2>1. CASE I!Fails("delete", {})
    <3>1. blocks \subseteq {}
      BY <2>1 DEF I!Fails
    <3> QED
      BY <2>1, <3>1, FailsKeepsIInv
  <2>2. CASE ~I!Fails("delete", {})
    BY <1>4, <2>2 DEF I!DeleteService
  <2> QED
    BY <2>1, <2>2
<1>5. CASE I!UnCloseService
  <2>1. CASE I!Fails("uncloseservice", {})
    <3>1. blocks \subseteq {}
      BY <2>1 DEF I!Fails
    <3> QED
      BY <2>1, <3>1, FailsKeepsIInv
  <2>2. CASE ~I!Fails("uncloseservice", {})
    BY <1>5, <2>2 DEF I!UnCloseService
  <2> QED
    BY <2>1, <2>2
<1>6. CASE I!UnCloseManager
  <2>1. CASE I!Fails("unclosemanager", {})
    <3>1. blocks \subseteq {}
      BY <2>1 DEF I!Fails
    <3> QED
      BY <2>1, <3>1, FailsKeepsIInv
  <2>2. CASE ~I!Fails("unclosemanager", {})
    BY <1>6, <2>2 DEF I!UnCloseManager
  <2> QED
    BY <2>1, <2>2
<1>7. CASE I!UnBarename
  <2>1. CASE I!Fails("unbarename", {})
    <3>1. blocks \subseteq {}
      BY <2>1 DEF I!Fails
    <3> QED
      BY <2>1, <3>1, FailsKeepsIInv
  <2>2. CASE ~I!Fails("unbarename", {})
    BY <1>7, <2>2 DEF I!UnBarename
  <2> QED
    BY <2>1, <2>2
<1>8. CASE I!OpenKey
  <2>1. CASE I!Fails("openkey", {"name"})
    <3>1. blocks \subseteq {"name"}
      BY <2>1 DEF I!Fails
    <3> QED
      BY <2>1, <3>1, FailsKeepsIInv
  <2>2. CASE ~I!Fails("openkey", {"name"})
    BY <1>8, <2>2 DEF I!OpenKey
  <2> QED
    BY <2>1, <2>2
<1>9. CASE I!UnCloseKey
  <2>1. CASE I!Fails("unclosekey", {"name"})
    <3>1. blocks \subseteq {"name"}
      BY <2>1 DEF I!Fails
    <3> QED
      BY <2>1, <3>1, FailsKeepsIInv
  <2>2. CASE ~I!Fails("unclosekey", {"name"})
    BY <1>9, <2>2 DEF I!UnCloseKey
  <2> QED
    BY <2>1, <2>2
<1>10. CASE I!OpenParent
  <2>1. CASE I!Fails("openparent", {"name"})
    <3>1. blocks \subseteq {"name"}
      BY <2>1 DEF I!Fails
    <3> QED
      BY <2>1, <3>1, FailsKeepsIInv
  <2>2. CASE ~I!Fails("openparent", {"name"})
    BY <1>10, <2>2 DEF I!OpenParent
  <2> QED
    BY <2>1, <2>2
<1>11. CASE I!DeleteKey
  <2>1. CASE I!Fails("deletekey", {"name"})
    <3>1. blocks \subseteq {"name"}
      BY <2>1 DEF I!Fails
    <3> QED
      BY <2>1, <3>1, FailsKeepsIInv
  <2>2. CASE ~I!Fails("deletekey", {"name"})
    BY <1>11, <2>2 DEF I!DeleteKey
  <2> QED
    BY <2>1, <2>2
<1>12. CASE I!CloseParent
  <2>1. CASE I!Fails("closeparent", {})
    <3>1. blocks \subseteq {}
      BY <2>1 DEF I!Fails
    <3> QED
      BY <2>1, <3>1, FailsKeepsIInv
  <2>2. CASE ~I!Fails("closeparent", {})
    <3>1. /\ cpc = "closeparent" /\ cpc' = "idle" /\ result' = "uninstalled"
          /\ handles' = handles \ {"parent"} /\ UNCHANGED <<entry, key, values, blocks>>
      BY <1>12, <2>2 DEF I!CloseParent
    <3>2. handles' = {} /\ blocks = {}
      BY <3>1
    <3> QED
      BY <3>1, <3>2
  <2> QED
    BY <2>1, <2>2
<1> QED
  BY <1>1, <1>2, <1>3, <1>4, <1>5, <1>6, <1>7, <1>8, <1>9, <1>10, <1>11, <1>12

LEMMA ValuesKeepIInv ==
  ASSUME IInv, NEW n \in 1..4, I!SetValue(n) \/ I!DeleteValue(n)
  PROVE  IInv'
<1> USE DEF IInv, Places, Setting, Deleting, Values, I!Call, I!stores
<1>1. n \in {1, 2, 3, 4}
  OBVIOUS
<1>2. CASE I!SetValue(n)
  <2>1. CASE I!Fails(I!SetOrder[n], {})
    <3>1. I!SetOrder[n] \in Values
      BY <1>1 DEF I!SetOrder
    <3>2. I!SetOrder[n] # "idle" /\ blocks \subseteq {}
      BY <2>1, <3>1 DEF I!Fails
    <3> QED
      BY <2>1, <3>2, FailsKeepsIInv
  <2>2. CASE ~I!Fails(I!SetOrder[n], {})
    <3>1. /\ cpc = I!SetOrder[n] /\ cpc' = I!SetOrder[n + 1]
          /\ values' = values \cup {I!SetOrder[n]} /\ UNCHANGED <<result, entry, key, handles, blocks>>
      BY <1>2, <2>2 DEF I!SetValue
    <3>2. CASE n = 1
      BY <3>1, <3>2 DEF I!SetOrder
    <3>3. CASE n = 2
      BY <3>1, <3>3 DEF I!SetOrder
    <3>4. CASE n = 3
      BY <3>1, <3>4 DEF I!SetOrder
    <3>5. CASE n = 4
      BY <3>1, <3>5 DEF I!SetOrder
    <3> QED
      BY <1>1, <3>2, <3>3, <3>4, <3>5
  <2> QED
    BY <2>1, <2>2
<1>3. CASE I!DeleteValue(n)
  <2>0. I!Un(I!SetOrder[n]) \in Deleting
    BY <1>1 DEF I!SetOrder, I!Un
  <2>1. CASE I!Fails(I!Un(I!SetOrder[n]), {"name"})
    <3>1. I!Un(I!SetOrder[n]) # "idle" /\ blocks \subseteq {"name"}
      BY <2>0, <2>1 DEF I!Fails
    <3> QED
      BY <2>1, <3>1, FailsKeepsIInv
  <2>2. CASE ~I!Fails(I!Un(I!SetOrder[n]), {"name"})
    <3>1. /\ cpc = I!Un(I!SetOrder[n]) /\ cpc' = I!Un(I!SetOrder[n + 1])
          /\ values' = values \ {I!SetOrder[n]} /\ UNCHANGED <<result, entry, key, handles, blocks>>
      BY <1>3, <2>2 DEF I!DeleteValue
    <3>2. I!Un(I!SetOrder[n + 1]) \in Deleting
      BY <1>1 DEF I!SetOrder, I!Un
    <3> QED
      BY <2>0, <3>1, <3>2
  <2> QED
    BY <2>1, <2>2
<1> QED
  BY <1>2, <1>3

LEMMA RunKeepsIInv ==
  ASSUME IInv, NEW l \in {"idle", "fullpath", "unname"}, I!Run(l)
  PROVE  IInv'
BY DEF IInv, Places, Setting, Deleting, Values, I!Run, I!stores

\* Whatever the programs before it left half done, one that says it installed
\* itself is in the database and in the registry with all the values, one that
\* says it uninstalled itself is in neither, and none has lost a block.
THEOREM InstallIsTruthful == Spec => []Truthful
<1>1. Init => IInv
  BY DEF Init, I!Init, IInv, Places, Setting, Deleting, Values
<1>2. IInv /\ [Next]_vars => IInv'
  <2> SUFFICES ASSUME IInv, [Next]_vars
               PROVE  IInv'
      OBVIOUS
  <2>1. CASE I!Step
    BY <2>1, InstallKeepsIInv, UninstallKeepsIInv, ValuesKeepIInv DEF I!Step
  <2>2. CASE I!Run("idle") \/ I!Run("fullpath") \/ I!Run("unname")
    BY <2>2, RunKeepsIInv
  <2>3. CASE UNCHANGED install
    BY <2>3 DEF install, IInv
  <2>4. I!Step \/ I!Run("idle") \/ I!Run("fullpath") \/ I!Run("unname") \/ UNCHANGED install
    BY Zenon DEF Next, I!Next, vars, windows, DaemonStep, ServerFails, RunReturns, SigTerm, Killed,
                 Arrive, Unix, Windows, Administer, StartService, WinService, WinControl, WinForget,
                 HandlerThread, MainThread
  <2> QED
    BY <2>1, <2>2, <2>3, <2>4
<1>3. IInv => Truthful
  BY FourValues DEF IInv, Truthful, I!Truthful
<1> QED
  BY <1>1, <1>2, <1>3, PTL DEF Spec
=============================================================================
