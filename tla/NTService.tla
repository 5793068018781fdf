----------------------------- MODULE NTService -----------------------------
(***************************************************************************)
(* CService, NTService and CServiceInstall: a service of Windows.  The     *)
(* service control manager runs what CServiceInstall wrote to the registry *)
(* and believes what SetServiceStatus tells it; it sends the controls the  *)
(* service said it accepts, which are STOP, INTERROGATE and those of the   *)
(* user, so that the branches of PAUSE, CONTINUE and SHUTDOWN never run.   *)
(* ServiceMain, the watcher thread and the handler each tell it a status.  *)
(* Run from a console, a runner of the pool waits for the key q instead.   *)
(***************************************************************************)
EXTENDS Naturals

CONSTANTS
  Params,       \* what a service can be installed with
  NoParams,     \* a registry key without the value "params"
  MaxControls,  \* bound on the controls sent to one service
  MaxInstalls   \* bound on the installations

ASSUME NTServiceAssumption ==
  NoParams \notin Params /\ MaxControls \in Nat /\ MaxInstalls \in Nat

VARIABLES
  registry,     \* [there, params, given]: "no", "yes", "marked" for deletion
  installer,    \* what the process that installs is about to write
  installs,     \* how many installations were begun
  ntMode,       \* "service" or "console"
  ntMain,       \* where ServiceMainMember, or main on a console, is
  runsWith,     \* [params, rubbish]: what GetParameters read
  ntHandle,     \* m_hServiceStatus is set
  ntWatcher,    \* where the watcher thread, or the runner of the console, is
  ntHandler,    \* [at, read]: where HandlerMember is, what GetStatus gave it
  stopEvent,    \* m_hEvents[STOP]: "none", "reset", "set", "closed"
  requested,    \* m_dwRequestedControl
  ntState,      \* m_dwState
  telling,      \* the status each thread is about to pass to SetServiceStatus
  told,         \* the status the control manager was told last
  toldLate,     \* who told another status after STOPPED
  raised,       \* did an exception reach the __except of ServiceMainMember
  timedOut,     \* did DeInit give up on the watcher
  controls,     \* how many controls were sent
  ntService     \* [at, asked, remembers]: the iSvrService

installVars == <<registry, installer, installs>>
statusVars == <<ntState, telling>>
toldVars == <<told, toldLate>>
watchVars == <<ntWatcher, stopEvent>>
controlVars == <<ntHandler, requested, controls>>
endVars == <<raised, timedOut>>
runVars == <<ntMode, runsWith>>
ntVars == <<registry, installer, installs, ntMode, ntMain, runsWith, ntHandle, ntWatcher,
            ntHandler, stopEvent, requested, ntState, telling, told, toldLate, raised,
            timedOut, controls, ntService>>

Tellers == {"main", "watcher", "handler"}
Statuses == {"none", "START_PENDING", "RUNNING", "STOP_PENDING", "STOPPED"}
NTPlaces == {"absent", "events", "handler", "watcher", "pending", "initing", "running",
             "starting", "serving", "excepting", "waiting", "closing", "stopping", "ended"}

NTTypeOK ==
  /\ registry \in [there : {"no", "yes", "marked"}, params : Params \cup {NoParams},
                   given : Params \cup {NoParams}]
  /\ installer \in Params \cup {NoParams} /\ installs \in 0..MaxInstalls
  /\ ntMode \in {"service", "console"} /\ ntMain \in NTPlaces
  /\ runsWith \in [params : Params \cup {NoParams}, rubbish : BOOLEAN]
  /\ ntHandle \in BOOLEAN /\ ntWatcher \in {"none", "waiting", "asking", "polling", "ended"}
  /\ ntHandler \in [at : {"idle", "read", "telling"}, read : Statuses]
  /\ stopEvent \in {"none", "reset", "set", "closed"}
  /\ requested \in {"none", "STOP", "user"} /\ ntState \in Statuses
  /\ telling \in [Tellers -> Statuses] /\ told \in Statuses
  /\ toldLate \subseteq Tellers /\ raised \in BOOLEAN /\ timedOut \in BOOLEAN
  /\ controls \in 0..MaxControls
  /\ ntService \in [at : {"new", "serving", "done"}, asked : BOOLEAN, remembers : BOOLEAN]

Silent == [t \in Tellers |-> "none"]
Idle == [at |-> "idle", read |-> "none"]

NTInit ==
  /\ registry = [there |-> "no", params |-> NoParams, given |-> NoParams]
  /\ installer = NoParams /\ installs = 0
  /\ ntMode = "service" /\ ntMain = "absent"
  /\ runsWith = [params |-> NoParams, rubbish |-> FALSE]
  /\ ntHandle = FALSE /\ ntWatcher = "none" /\ ntHandler = Idle
  /\ stopEvent = "none" /\ requested = "none"
  /\ ntState = "none" /\ telling = Silent /\ told = "none" /\ toldLate = {}
  /\ raised = FALSE /\ timedOut = FALSE /\ controls = 0
  /\ ntService \in [at : {"new"}, asked : {FALSE}, remembers : BOOLEAN]

-----------------------------------------------------------------------------
(* CServiceInstall: Install, Remove, GetParameters *)

\* IsInstalled, or CreateService on one that is marked, ends it.
Creates(p) ==
  /\ installer = NoParams /\ registry.there = "no"
  /\ installer' = p
  /\ registry' = [there |-> "yes", params |-> NoParams, given |-> p]

Install(p) ==
  /\ installs < MaxInstalls
  /\ Creates(p)
  /\ installs' = installs + 1
  /\ UNCHANGED <<statusVars, toldVars, watchVars, controlVars, endVars, runVars, ntMain,
                 ntHandle, ntService>>

\* RegSetValueEx, or the process ends before it.
WritesParams ==
  /\ installer # NoParams
  /\ \/ registry' = [registry EXCEPT !.params = installer]
     \/ UNCHANGED registry
  /\ installer' = NoParams
  /\ UNCHANGED <<statusVars, toldVars, watchVars, controlVars, endVars, runVars,
                 installs, ntMain, ntHandle, ntService>>

\* DeleteService marks it; it goes with the last handle and the process.
Remove ==
  /\ registry.there = "yes"
  /\ registry' = [registry EXCEPT !.there = "marked"]
  /\ UNCHANGED <<statusVars, toldVars, watchVars, controlVars, endVars, runVars,
                 installer, installs, ntMain, ntHandle, ntService>>

Deleted ==
  /\ registry.there = "marked" /\ installer = NoParams
  /\ ntMain = "absent" \/ ntMode = "console"
  /\ registry' = [there |-> "no", params |-> NoParams, given |-> NoParams]
  /\ UNCHANGED <<statusVars, toldVars, watchVars, controlVars, endVars, runVars,
                 installer, installs, ntMain, ntHandle, ntService>>

\* NTService::main, run by the control manager: the value was written without
\* its NUL, and what follows it in the buffer can be read with it.
RunsService ==
  /\ ntMain = "absent" /\ registry.there = "yes"
  /\ ntMain' = "events"
  /\ ntMode' = "service"
  /\ \E r \in BOOLEAN :
       runsWith' = [params |-> registry.params, rubbish |-> r /\ registry.params # NoParams]
  /\ UNCHANGED <<installVars, statusVars, toldVars, watchVars, controlVars, endVars,
                 ntHandle, ntService>>

RunsConsole ==
  /\ ntMain = "absent"
  /\ ntMain' = "initing"
  /\ ntMode' = "console"
  /\ UNCHANGED <<installVars, statusVars, toldVars, watchVars, controlVars, endVars,
                 runsWith, ntHandle, ntService>>

\* The dispatcher returns when the service is STOPPED for the control manager,
\* wherever ServiceMain is, and main when the console's service returned.
NTProcessEnds ==
  /\ IF ntMode = "console" THEN ntMain = "ended"
     ELSE ntMain # "absent" /\ told = "STOPPED" /\ ntHandler.at = "idle"
  /\ ntMain' = "absent"
  /\ runsWith' = [params |-> NoParams, rubbish |-> FALSE]
  /\ ntHandle' = FALSE /\ ntWatcher' = "none" /\ stopEvent' = "none" /\ requested' = "none"
  /\ ntState' = "none" /\ telling' = Silent /\ told' = "none" /\ toldLate' = {}
  /\ raised' = FALSE /\ timedOut' = FALSE
  /\ ntService' = [ntService EXCEPT !.at = "new", !.asked = FALSE]
  /\ UNCHANGED <<installVars, ntMode, ntHandler, controls>>

-----------------------------------------------------------------------------
(* CService::SetStatus *)

\* The members, in the critical section.
SetStatus(t, s) ==
  /\ telling' = [telling EXCEPT ![t] = s]
  /\ ntState' = s

\* SetServiceStatus, out of it; without a handle it fails and ErrorHandler
\* raises what nobody catches: the process is gone.
Tells(t) ==
  /\ telling[t] # "none" /\ ntHandle
  /\ told' = telling[t]
  /\ toldLate' = IF told = "STOPPED" /\ telling[t] # "STOPPED"
                 THEN toldLate \cup {t} ELSE toldLate
  /\ telling' = [telling EXCEPT ![t] = "none"]
  /\ ntHandler' = IF t = "handler" THEN Idle ELSE ntHandler
  /\ UNCHANGED <<installVars, watchVars, endVars, runVars, ntMain, ntHandle, requested,
                 ntState, controls, ntService>>

-----------------------------------------------------------------------------
(* CService::ServiceMainMember *)

At(p) == ntMain = p /\ telling["main"] = "none"
NTMoves(from, to) == At(from) /\ ntMain' = to

Raises(p) == NTMoves(p, "excepting") /\ raised' = TRUE

PreInit ==
  /\ \/ NTMoves("events", "handler") /\ stopEvent' = "reset" /\ UNCHANGED raised
     \/ Raises("events") /\ UNCHANGED stopEvent
  /\ UNCHANGED <<installVars, statusVars, toldVars, controlVars, runVars, ntHandle,
                 ntWatcher, timedOut, ntService>>

SetupHandlerInside ==
  /\ \/ NTMoves("handler", "watcher") /\ ntHandle' = TRUE /\ UNCHANGED raised
     \/ Raises("handler") /\ UNCHANGED ntHandle
  /\ UNCHANGED <<installVars, statusVars, toldVars, watchVars, controlVars, runVars,
                 timedOut, ntService>>

LaunchWatcherThread ==
  /\ \/ NTMoves("watcher", "pending") /\ ntWatcher' = "waiting" /\ UNCHANGED raised
     \/ Raises("watcher") /\ UNCHANGED ntWatcher
  /\ UNCHANGED <<installVars, statusVars, toldVars, controlVars, runVars, ntHandle,
                 stopEvent, timedOut, ntService>>

StartPending ==
  /\ NTMoves("pending", "initing")
  /\ SetStatus("main", "START_PENDING")
  /\ UNCHANGED <<installVars, toldVars, watchVars, controlVars, endVars, runVars,
                 ntHandle, ntService>>

\* NTService::InitializeService; on a console it puts the runner into the pool.
NTInitialize ==
  /\ \/ /\ NTMoves("initing", IF ntMode = "console" THEN "starting" ELSE "running")
        /\ ntWatcher' = IF ntMode = "console" THEN "waiting" ELSE ntWatcher
        /\ UNCHANGED raised
     \/ /\ NTMoves("initing", IF ntMode = "console" THEN "ended" ELSE "waiting")
        /\ UNCHANGED <<ntWatcher, raised>>
     \/ ntMode = "service" /\ Raises("initing") /\ UNCHANGED ntWatcher
  /\ UNCHANGED <<installVars, statusVars, toldVars, controlVars, runVars, ntHandle,
                 stopEvent, timedOut, ntService>>

Running ==
  /\ NTMoves("running", "starting")
  /\ SetStatus("main", "RUNNING")
  /\ UNCHANGED <<installVars, toldVars, watchVars, controlVars, endVars, runVars,
                 ntHandle, ntService>>

NTStarts ==
  /\ NTMoves("starting", "serving")
  /\ ntService' = [ntService EXCEPT !.at = "serving", !.asked = @ /\ ntService.remembers]
  /\ UNCHANGED <<installVars, statusVars, toldVars, watchVars, controlVars, endVars,
                 runVars, ntHandle>>

\* start() returns, asked to or by itself, or raises.
NTServed ==
  /\ \/ NTMoves("serving", IF ntMode = "console" THEN "ended" ELSE "waiting")
        /\ UNCHANGED raised
     \/ ntMode = "service" /\ Raises("serving")
  /\ ntService' = [ntService EXCEPT !.at = "done"]
  /\ UNCHANGED <<installVars, statusVars, toldVars, watchVars, controlVars, runVars,
                 ntHandle, timedOut>>

Excepts ==
  /\ NTMoves("excepting", "waiting")
  /\ IF ntHandle THEN SetStatus("main", "STOPPED") ELSE UNCHANGED <<ntState, telling>>
  /\ UNCHANGED <<installVars, toldVars, watchVars, controlVars, endVars, runVars,
                 ntHandle, ntService>>

\* Mutant: DeInit closes the events at once.
WaitsNot ==
  /\ NTMoves("waiting", "closing")
  /\ UNCHANGED timedOut

\* DeInit: the watcher is waited for, for 10 seconds.
WaitsForWatcher ==
  /\ NTMoves("waiting", "closing")
  /\ timedOut' = (ntWatcher \notin {"none", "ended"})

DeInitWaits ==
  /\ WaitsForWatcher
  /\ UNCHANGED <<installVars, statusVars, toldVars, watchVars, controlVars, runVars,
                 ntHandle, raised, ntService>>

DeInitCloses ==
  /\ NTMoves("closing", "stopping")
  /\ stopEvent' = "closed"
  /\ UNCHANGED <<installVars, statusVars, toldVars, controlVars, endVars, runVars,
                 ntHandle, ntWatcher, ntService>>

Stopped ==
  /\ NTMoves("stopping", "ended")
  /\ SetStatus("main", "STOPPED")
  /\ UNCHANGED <<installVars, toldVars, watchVars, controlVars, endVars, runVars,
                 ntHandle, ntService>>

\* The last SetStatus of a service without a handle: the process is gone, and
\* the control manager sees it stopped.
Dies ==
  /\ telling["main"] # "none" /\ ~ntHandle
  /\ told' = "STOPPED"
  /\ telling' = [telling EXCEPT !["main"] = "none"]
  /\ UNCHANGED <<installVars, watchVars, controlVars, endVars, runVars, ntMain,
                 ntHandle, ntState, toldLate, ntService>>

-----------------------------------------------------------------------------
(* The watcher thread, and CServiceExHandler::run *)

WatcherAt(p) == ntWatcher = p /\ telling["watcher"] = "none"

\* The event is reset by the wait; the key q needs none.
WatcherWakes ==
  /\ WatcherAt("waiting")
  /\ IF ntMode = "service" THEN stopEvent = "set" /\ stopEvent' = "reset"
                           ELSE controls < MaxControls /\ UNCHANGED stopEvent
  /\ ntWatcher' = "asking"
  /\ UNCHANGED <<installVars, statusVars, toldVars, controlVars, endVars, runVars,
                 ntMain, ntHandle, ntService>>

OnStop ==
  /\ WatcherAt("asking")
  /\ ntWatcher' = "polling"
  /\ ntService' = [ntService EXCEPT !.asked = TRUE]
  /\ IF ntMode = "service" THEN SetStatus("watcher", "STOP_PENDING") ELSE UNCHANGED statusVars
  /\ UNCHANGED <<installVars, toldVars, controlVars, endVars, runVars, ntMain, ntHandle,
                 stopEvent>>

\* isStopped; each time round, the control manager is told to wait on.
Polls ==
  /\ WatcherAt("polling")
  /\ IF ntService.at = "done" THEN ntWatcher' = "ended" /\ UNCHANGED statusVars
     ELSE /\ ntMode = "service"
          /\ UNCHANGED ntWatcher
          /\ SetStatus("watcher", "STOP_PENDING")
  /\ UNCHANGED <<installVars, toldVars, controlVars, endVars, runVars, ntMain, ntHandle,
                 stopEvent, ntService>>

-----------------------------------------------------------------------------
(* CService::HandlerMember, in the thread of the dispatcher *)

Control ==
  /\ ntMode = "service" /\ ntHandle /\ ntHandler.at = "idle"
  /\ told \notin {"none", "STOPPED"} /\ controls < MaxControls
  /\ controls' = controls + 1

\* The control before was the same: nothing.  Without that, the control of a
\* user between two STOPs would still let the second through.
StopControl ==
  /\ Control /\ told = "RUNNING"
  /\ requested' = "STOP"
  /\ stopEvent' = IF requested # "STOP" /\ stopEvent = "reset" THEN "set" ELSE stopEvent
  /\ UNCHANGED <<installVars, statusVars, toldVars, endVars, runVars, ntMain, ntHandle,
                 ntWatcher, ntHandler, ntService>>

UserControl ==
  /\ Control /\ told = "RUNNING"
  /\ requested' = "user"
  /\ UNCHANGED <<installVars, statusVars, toldVars, watchVars, endVars, runVars, ntMain,
                 ntHandle, ntHandler, ntService>>

\* GetStatus, without the critical section, and SetStatus of what it gave.
Interrogate ==
  /\ Control
  /\ ntHandler' = [at |-> "read", read |-> ntState]
  /\ UNCHANGED <<installVars, statusVars, toldVars, watchVars, endVars, runVars, ntMain,
                 ntHandle, requested, ntService>>
Answers ==
  /\ ntHandler.at = "read"
  /\ SetStatus("handler", ntHandler.read)
  /\ ntHandler' = [ntHandler EXCEPT !.at = "telling"]
  /\ UNCHANGED <<installVars, toldVars, watchVars, endVars, runVars, ntMain, ntHandle,
                 requested, controls, ntService>>

-----------------------------------------------------------------------------

InstallStep == (\E p \in Params : Install(p)) \/ WritesParams \/ Remove \/ Deleted

NTMainStep ==
  \/ PreInit \/ SetupHandlerInside \/ LaunchWatcherThread \/ StartPending \/ NTInitialize
  \/ Running \/ NTStarts \/ NTServed \/ Excepts \/ DeInitWaits \/ DeInitCloses \/ Stopped
  \/ Dies \/ Tells("main")

WatcherStep == OnStop \/ Polls \/ Tells("watcher") \/ (ntMode = "service" /\ WatcherWakes)

HandlerStep == Answers \/ Tells("handler")

NTNext ==
  \/ InstallStep \/ RunsService \/ RunsConsole \/ NTProcessEnds
  \/ NTMainStep \/ WatcherStep \/ WatcherWakes \/ HandlerStep
  \/ StopControl \/ UserControl \/ Interrogate

NTSpec == NTInit /\ [][NTNext]_ntVars

\* A service ends when it was asked to.
NTMainGoesOn == NTMainStep /\ (ntMain = "serving" => ntService.asked)

-----------------------------------------------------------------------------
(* Properties *)

\* A service runs with the parameters it was installed with, or with none if
\* the installation did not finish: installing over it changes nothing.
\* (CServiceInstall.cpp:86, :109-151)
RunsAsInstalled ==
  (ntMode = "service" /\ ntMain # "absent" /\ runsWith.params # NoParams)
    => runsWith.params = registry.given

\* Unless the service raised, or DeInit gave up on the watcher after its 10
\* seconds, the watcher is over when its events are closed, and tells no
\* status after the last.  (CService.cpp:126-142)
WatcherOver ==
  (~raised /\ ~timedOut)
    => "watcher" \notin toldLate /\ (stopEvent = "closed" => ntWatcher \in {"none", "ended"})

\* A STOP given to a service that serves ends in STOPPED.
\* (CService.cpp:187-234, :397-418)
StopIsTold ==
  (stopEvent = "set" /\ ntService.at = "serving" /\ ntWatcher = "waiting") ~> told = "STOPPED"

\* A service of Windows runs as it was installed, and its watcher is over when
\* its events are closed.
NTSafe == NTTypeOK /\ RunsAsInstalled /\ WatcherOver
=============================================================================
