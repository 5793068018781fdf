-------------------------- MODULE ProcessesProofs --------------------------
(***************************************************************************)
(* What MCProcesses checks on an instance, for every value of the          *)
(* constants: a thread of the library is created, joined and let go in     *)
(* order, a daemon of Unix listens until it was asked to stop, and a       *)
(* service of Windows runs as it was installed.                            *)
(***************************************************************************)
EXTENDS ThdThread, UnixDaemon, NTService, TLAPS

-----------------------------------------------------------------------------
(* ThdThread::create and its two threads *)

\* What the places of the creator and the child say of what they share.
CreatorKnows(t) ==
  /\ startup[t] <=> creator[t] \in {"creating", "waiting", "closing"}
  /\ creator[t] \in {"start", "creating"} => child[t] = "none"
  /\ creator[t] \in {"closing", "releasing", "owning"} => initFlag[t]
  /\ creator[t] \in {"releasing", "owning"} => ~bError[t]
  /\ creator[t] = "closing" => bError[t]
  /\ creator[t] \notin {"start", "none"} => object[t]

ChildKnows(t) ==
  /\ child[t] \in {"init", "completing"} => ~initFlag[t] /\ creator[t] = "waiting"
  /\ child[t] = "none" => ~initFlag[t]
  /\ bError[t] => child[t] \in {"completing", "notifying", "exited"}

\* How often the child was joined: once on the way out of create, once by its
\* owner.  It has to be over, or never to have begun.
Joined(t) ==
  /\ creator[t] \notin {"failing", "none"} => joined[t] = 0
  /\ creator[t] = "failing" => joined[t] <= 1
  /\ joins /\ creator[t] = "failing" => child[t] \in {"none", "exited"}
  /\ joins /\ creator[t] = "none" => child[t] \in {"none", "exited"}

ThreadInv ==
  /\ ThreadTypeOK
  /\ \A t \in Threads : CreatorKnows(t) /\ ChildKnows(t) /\ Joined(t)

LEMMA ThreadInvInit == ThreadInit => ThreadInv
  <1> SUFFICES ASSUME ThreadInit PROVE ThreadInv
    OBVIOUS
  <1> USE DEF ThreadInit
  <1>1. ThreadTypeOK
    BY DEF ThreadTypeOK, CreatorPcs, ChildPcs
  <1>2. \A t \in Threads : CreatorKnows(t) /\ ChildKnows(t) /\ Joined(t)
    BY DEF CreatorKnows, ChildKnows, Joined
  <1>3. QED
    BY <1>1, <1>2 DEF ThreadInv

LEMMA ThreadCreatorSteps ==
  ASSUME ThreadInv, NEW t \in Threads,
         Begin(t) \/ CreatorStep(t) \/ OwnerReleases(t) \/ OwnerDeletes(t)
  PROVE  ThreadInv'
  <1> USE DEF ThreadInv, ThreadTypeOK, CreatorPcs, ChildPcs, CreatorKnows, ChildKnows,
     Joined, CreatorMove
  <1>1. CASE Begin(t)
    BY <1>1 DEF Begin
  <1>2. CASE Start(t)
    BY <1>2 DEF Start, ChildMove
  <1>3. CASE StartFails(t)
    BY <1>3 DEF StartFails
  <1>4. CASE Initialized(t)
    BY <1>4 DEF Initialized
  <1>5. CASE InitFailed(t)
    BY <1>5 DEF InitFailed
  <1>6. CASE Close(t)
    BY <1>6 DEF Close, CloseThread
  <1>7. CASE Fail(t)
    BY <1>7 DEF Fail, CloseThread
  <1>8. CASE ReturnSuspended(t)
    BY <1>8 DEF ReturnSuspended
  <1>9. CASE ReturnReleased(t)
    BY <1>9 DEF ReturnReleased, ReleaseThread
  <1>10. CASE OwnerReleases(t)
    BY <1>10 DEF OwnerReleases, ReleaseThread
  <1>11. CASE OwnerDeletes(t)
    BY <1>11 DEF OwnerDeletes, CloseThread
  <1>12. QED
    BY <1>1, <1>2, <1>3, <1>4, <1>5, <1>6, <1>7, <1>8, <1>9, <1>10, <1>11 DEF CreatorStep

LEMMA ThreadChildSteps ==
  ASSUME ThreadInv, NEW t \in Threads, ChildStep(t)
  PROVE  ThreadInv'
  <1> USE DEF ThreadInv, ThreadTypeOK, CreatorPcs, ChildPcs, CreatorKnows, ChildKnows,
     Joined, ChildMove
  <1>1. CASE ChildInit(t)
    BY <1>1 DEF ChildInit
  <1>2. CASE ChildSetsFlag(t)
    BY <1>2 DEF ChildSetsFlag
  <1>3. CASE ChildNotifies(t)
    BY <1>3 DEF ChildNotifies
  <1>4. CASE ChildContinues(t) \/ ChildExits(t)
    BY <1>4 DEF ChildContinues, ChildExits
  <1>5. QED
    BY <1>1, <1>2, <1>3, <1>4 DEF ChildStep

\* Whatever the interleaving of a creator and its child, and in both builds: the
\* startup condition lives until the child has reported, the object of the
\* thread outlives what runs in it, a child whose init failed never runs, and
\* nobody who joins goes on before the child is over.  (ThdThread.cpp:70-175)
THEOREM ThreadIsSafe == ThreadSpec => []ThreadSafe
  <1>1. ThreadInv /\ [ThreadNext]_threadVars => ThreadInv'
    <2>1. ASSUME ThreadInv, UNCHANGED threadVars PROVE ThreadInv'
      BY <2>1 DEF threadVars, ThreadInv, ThreadTypeOK, CreatorKnows, ChildKnows, Joined
    <2>2. QED
      BY <2>1, ThreadCreatorSteps, ThreadChildSteps DEF ThreadNext
  <1>2. ThreadInv => ThreadSafe
    BY
       DEF ThreadInv, ThreadTypeOK, CreatorPcs, ChildPcs, CreatorKnows, ChildKnows, Joined,
          ThreadSafe,
           StartupUntilFlag, ObjectOutlivesChild, FailedNeverRuns, JoinWaitsForExit
  <1>3. QED
    BY <1>1, <1>2, ThreadInvInit, PTL DEF ThreadSpec

-----------------------------------------------------------------------------
(* UnixDaemonMain::main and UnixSignalHandler *)

\* What the place of the first thread says of the signals and the handler.
MainKnows ==
  /\ daemonMain \in {"forking", "forking again", "masking"} => ~masked
  /\ daemonMain \in {"forking", "forking again", "masking", "context", "threading"}
       => sigThread = "none"
  /\ daemonMain \in {"context", "threading"} => handlerThere
  /\ sigThread # "none" /\ ~Gone => handlerThere
  /\ joinsSignals /\ daemonMain = "exited" => sigThread \in {"none", "ended"}

\* While the thread of the handler listens nothing is pending, and it leaves
\* only with an answer to the stop it asked for.
SigKnows ==
  /\ pendingSignals # {} => sigThread \in {"none", "created", "ended"}
  /\ sigThread \in {"awaiting", "ended"} => served.asked # "no"

DaemonInv == DaemonTypeOK /\ MainKnows /\ SigKnows

LEMMA DaemonInvInit == DaemonInit => DaemonInv
  <1> SUFFICES ASSUME DaemonInit PROVE DaemonInv
    OBVIOUS
  <1> USE UnixDaemonAssumption DEF DaemonInit
  <1>1. DaemonTypeOK
    <2>1. served \in [inited : {"no", "yes", "failed"}, running : {"no", "yes", "done"},
                     asked : {"no", "yes", "refused", "lost"}]
      OBVIOUS
    <2>2. pendingSignals \subseteq DaemonSignals /\ signalsSent \in 0..MaxSignals
      OBVIOUS
    <2>3. background \in BOOLEAN /\ joinsSignals \in BOOLEAN /\ masked \in BOOLEAN
          /\ handlerThere \in BOOLEAN /\ remembers \in BOOLEAN
      OBVIOUS
    <2>4. daemonMain \in DaemonPlaces /\ sigThread \in SigPlaces
      BY DEF DaemonPlaces, SigPlaces
    <2>5. QED
      BY <2>1, <2>2, <2>3, <2>4 DEF DaemonTypeOK
  <1>2. MainKnows /\ SigKnows
    BY DEF DaemonInit, MainKnows, SigKnows, Gone
  <1>3. QED
    BY <1>1, <1>2 DEF DaemonInv

LEMMA DaemonSignalSteps ==
  ASSUME DaemonInv, NEW s \in DaemonSignals, Signal(s)
  PROVE  DaemonInv'
  <1> USE DEF DaemonInv, Signal, Takes, Gone, Unblocked
  <1>1. DaemonTypeOK'
    <2> USE UnixDaemonAssumption DEF DaemonTypeOK
    <2>1. pendingSignals' \subseteq DaemonSignals
      OBVIOUS
    <2>2. signalsSent' \in 0..MaxSignals
      OBVIOUS
    <2>3. daemonMain' \in DaemonPlaces /\ sigThread' \in SigPlaces
      BY DEF DaemonPlaces, SigPlaces
    <2>4. QED
      BY <2>1, <2>2, <2>3
  <1>2. MainKnows' /\ SigKnows'
    BY DEF DaemonTypeOK, DaemonPlaces, SigPlaces, MainKnows, SigKnows
  <1>3. QED
    BY <1>1, <1>2

LEMMA DaemonMainSteps ==
  ASSUME DaemonInv, DaemonMainStep
  PROVE  DaemonInv'
  <1> USE DEF DaemonInv, DaemonTypeOK, DaemonPlaces, SigPlaces, MainKnows, SigKnows, Gone,
             MainMoves, sigVars, signalVars
  <1>1. CASE Fork
    <2>1. DaemonTypeOK'
      BY <1>1 DEF Fork
    <2>2. MainKnows'
      BY <1>1 DEF Fork
    <2>3. SigKnows'
      BY <1>1 DEF Fork
    <2>4. QED
      BY <2>1, <2>2, <2>3
  <1>2. CASE MakesHandler
    <2>1. DaemonTypeOK'
      BY <1>2 DEF MakesHandler
    <2>2. MainKnows'
      BY <1>2 DEF MakesHandler
    <2>3. SigKnows'
      BY <1>2 DEF MakesHandler
    <2>4. QED
      BY <2>1, <2>2, <2>3
  <1>3. CASE MakesContext
    <2>1. DaemonTypeOK'
      BY <1>3 DEF MakesContext
    <2>2. MainKnows'
      BY <1>3 DEF MakesContext
    <2>3. SigKnows'
      BY <1>3 DEF MakesContext
    <2>4. QED
      BY <2>1, <2>2, <2>3
  <1>4. CASE MakesSignalThread
    <2>1. DaemonTypeOK'
      BY <1>4 DEF MakesSignalThread
    <2>2. MainKnows'
      BY <1>4 DEF MakesSignalThread
    <2>3. SigKnows'
      BY <1>4 DEF MakesSignalThread
    <2>4. QED
      BY <2>1, <2>2, <2>3
  <1>5. CASE InitsService
    <2>1. DaemonTypeOK'
      BY <1>5 DEF InitsService
    <2>2. MainKnows'
      BY <1>5 DEF InitsService
    <2>3. SigKnows'
      BY <1>5 DEF InitsService
    <2>4. QED
      BY <2>1, <2>2, <2>3
  <1>6. CASE StartsService
    <2>1. DaemonTypeOK'
      BY <1>6 DEF StartsService
    <2>2. MainKnows'
      BY <1>6 DEF StartsService
    <2>3. SigKnows'
      BY <1>6 DEF StartsService
    <2>4. QED
      BY <2>1, <2>2, <2>3
  <1>7. CASE ServiceEnds
    <2>1. DaemonTypeOK'
      BY <1>7 DEF ServiceEnds
    <2>2. MainKnows'
      BY <1>7 DEF ServiceEnds
    <2>3. SigKnows'
      BY <1>7 DEF ServiceEnds
    <2>4. QED
      BY <2>1, <2>2, <2>3
  <1>8. CASE LeavesJoining
    <2>1. DaemonTypeOK'
      BY <1>8 DEF LeavesJoining
    <2>2. MainKnows'
      BY <1>8 DEF LeavesJoining
    <2>3. SigKnows'
      BY <1>8 DEF LeavesJoining
    <2>4. QED
      BY <2>1, <2>2, <2>3
  <1>9. CASE Joins
    <2>1. DaemonTypeOK'
      BY <1>9 DEF Joins
    <2>2. MainKnows'
      BY <1>9 DEF Joins
    <2>3. SigKnows'
      BY <1>9 DEF Joins
    <2>4. QED
      BY <2>1, <2>2, <2>3
  <1>10. CASE LeavesUnjoined
    <2>1. DaemonTypeOK'
      BY <1>10 DEF LeavesUnjoined
    <2>2. MainKnows'
      BY <1>10 DEF LeavesUnjoined
    <2>3. SigKnows'
      BY <1>10 DEF LeavesUnjoined
    <2>4. QED
      BY <2>1, <2>2, <2>3
  <1>11. QED
    BY <1>1, <1>2, <1>3, <1>4, <1>5, <1>6, <1>7, <1>8, <1>9, <1>10 DEF DaemonMainStep

LEMMA DaemonSigSteps ==
  ASSUME DaemonInv, SigStep
  PROVE  DaemonInv'
  <1> USE DEF DaemonInv, DaemonTypeOK, DaemonPlaces, SigPlaces, MainKnows, SigKnows, Gone,
     SigMoves,
              signalVars
  <1>1. CASE SigUnblocks
    <2>1. CASE pendingSignals # {}
      BY <1>1, <2>1 DEF SigUnblocks
    <2>2. CASE pendingSignals = {}
      <3>1. sigThread = "created" /\ sigThread' = "waiting" /\ ~Gone
        BY <1>1, <2>2 DEF SigUnblocks
      <3>2. UNCHANGED <<signalVars, daemonMain, background, joinsSignals, masked, handlerThere,
                        remembers, served>>
        BY <1>1, <2>2 DEF SigUnblocks
      <3>3. DaemonTypeOK'
        BY <3>1, <3>2
      <3>4. MainKnows'
        BY <3>1, <3>2
      <3>5. SigKnows'
        BY <2>2, <3>1, <3>2
      <3>6. QED
        BY <3>3, <3>4, <3>5
    <2>3. QED
      BY <2>1, <2>2
  <1>2. CASE SigAsks
    BY <1>2 DEF SigAsks
  <1>3. CASE SigSeesStop
    BY <1>3 DEF SigSeesStop
  <1>4. QED
    BY <1>1, <1>2, <1>3 DEF SigStep

\* However many signals come, and wherever main and the thread of the handler
\* are: the handler is there while a thread that will be joined uses it, and the
\* signals are listened to until the service was asked to stop.
\* (UnixDaemonMain.cpp:252-335, UnixSignalHandler.cpp:56-95)
THEOREM DaemonIsSafe == DaemonSpec => []DaemonSafe
  <1>1. DaemonInv /\ [DaemonNext]_daemonVars => DaemonInv'
    <2>1. ASSUME DaemonInv, UNCHANGED daemonVars PROVE DaemonInv'
      <3> USE <2>1 DEF daemonVars, DaemonInv
      <3>1. DaemonTypeOK'
        BY DEF DaemonTypeOK
      <3>2. MainKnows' /\ SigKnows'
        BY DEF MainKnows, SigKnows, Gone
      <3>3. QED
        BY <3>1, <3>2
    <2>2. QED
      BY <2>1, DaemonSignalSteps, DaemonMainSteps, DaemonSigSteps DEF DaemonNext
  <1>2. DaemonInv => DaemonSafe
    BY
       DEF DaemonInv, DaemonTypeOK, MainKnows, SigKnows, Gone, SigPlaces, DaemonSafe,
          HandlerInUse,
           SignalsHeard
  <1>3. QED
    BY <1>1, <1>2, DaemonInvInit, PTL DEF DaemonSpec

-----------------------------------------------------------------------------
(* NTService and CService *)

\* What is written is what the installation was given, and a service that
\* runs keeps its key.
RegistryKnows ==
  /\ registry.params \in {NoParams, registry.given}
  /\ installer # NoParams => registry.there # "no" /\ registry.given = installer
  /\ ntMode = "service" /\ ntMain # "absent" => registry.there # "no"

\* What is left of the last run, or a console: nothing is told.
Quiet ==
  /\ (\A t \in Tellers : telling[t] = "none") /\ told = "none" /\ toldLate = {}
  /\ ntState = "none" /\ ntHandler.at = "idle" /\ stopEvent = "none"

NTMainKnows ==
  /\ ntMain = "absent" \/ ntMode = "console" => Quiet
  /\ ntMain \in {"absent", "events", "handler", "watcher"} => ntWatcher = "none"
  /\ ntMode = "console" => ntMain \in {"absent", "initing", "starting", "serving", "ended"}
  /\ ntMain = "excepting" => raised
  /\ stopEvent = "closed" => ntMain \in {"stopping", "ended"}
  /\ timedOut => ntMain \in {"closing", "stopping", "ended"}
  /\ ntMain \in {"events", "handler", "watcher"} => telling["main"] = "none"

\* Who does not poll has told the last it had to tell.
WatcherKnows == ntWatcher # "polling" => telling["watcher"] = "none"

\* Without an exception the handle is there before the first status, and the
\* last status is the one of the last step; without a timeout the watcher is
\* over before the events are closed.
NoException ==
  /\ ntMode = "service" /\ ntMain \notin {"absent", "events", "handler"} => ntHandle
  /\ ntMain # "ended" =>
       /\ ntState # "STOPPED" /\ told # "STOPPED"
       /\ ntHandler.at = "read" => ntHandler.read # "STOPPED"
       /\ \A t \in Tellers : telling[t] # "STOPPED"
  /\ ~timedOut =>
       /\ ntMode = "service" /\ ntMain \in {"closing", "stopping", "ended"}
            => ntWatcher \in {"none", "ended"}
       /\ "watcher" \notin toldLate

NTInv ==
  /\ NTTypeOK
  /\ RegistryKnows
  /\ RunsAsInstalled
  /\ NTMainKnows /\ WatcherKnows
  /\ ~raised => NoException
LEMMA NTInvInit == NTInit => NTInv
  <1> SUFFICES ASSUME NTInit PROVE NTInv
    OBVIOUS
  <1> USE DEF NTInit, Silent, Idle, Tellers
  <1>1. NTTypeOK
    <2> USE NTServiceAssumption DEF NTPlaces, Statuses
    <2>1. /\ registry \in [there : {"no", "yes", "marked"}, params : Params \cup {NoParams},
                         given : Params \cup {NoParams}]
          /\ runsWith \in [params : Params \cup {NoParams}, rubbish : BOOLEAN]
      OBVIOUS
    <2>2. /\ ntHandler \in [at : {"idle", "read", "telling"}, read : Statuses]
          /\ telling \in [Tellers -> Statuses]
      OBVIOUS
    <2>3. ntService \in [at : {"new", "serving", "done"}, asked : BOOLEAN, remembers : BOOLEAN]
      OBVIOUS
    <2>4. installs \in 0..MaxInstalls /\ controls \in 0..MaxControls
      OBVIOUS
    <2>5. ntHandle \in BOOLEAN /\ raised \in BOOLEAN /\ timedOut \in BOOLEAN
      OBVIOUS
    <2>6. QED
      BY <2>1, <2>2, <2>3, <2>4, <2>5 DEF NTTypeOK
  <1>2. RegistryKnows /\ RunsAsInstalled /\ NTMainKnows /\ WatcherKnows
    BY DEF RegistryKnows, RunsAsInstalled, NTMainKnows, WatcherKnows, Quiet
  <1>3. NoException
    BY DEF NoException
  <1>4. QED
    BY <1>1, <1>2, <1>3 DEF NTInv

\* What the process does leaves the registry alone.
LEMMA NTRegistryKept ==
  ASSUME NTInv, UNCHANGED <<installVars, runVars>>,
         ntMain' = "absent" <=> ntMain = "absent"
  PROVE  RegistryKnows' /\ RunsAsInstalled'
  BY DEF NTInv, RegistryKnows, RunsAsInstalled, installVars, runVars

LEMMA NTInstallSteps ==
  ASSUME NTInv, InstallStep
  PROVE  NTInv'
  <1>1. UNCHANGED <<ntMode, ntMain, runsWith, ntHandle, ntWatcher, ntHandler, stopEvent,
     requested,
                    ntState, telling, told, toldLate, raised, timedOut, controls, ntService>>
    BY DEF InstallStep, Install, WritesParams, Remove, Deleted, statusVars, toldVars, watchVars,
           controlVars, endVars, runVars
  <1>2. NTMainKnows' /\ WatcherKnows' /\ (~raised' => NoException')
    BY <1>1 DEF NTInv, NTMainKnows, WatcherKnows, NoException, Quiet
  <1> USE NTServiceAssumption DEF NTInv, NTTypeOK, RegistryKnows, RunsAsInstalled
  <1>3. CASE \E p \in Params : Install(p)
    BY <1>1, <1>2, <1>3 DEF Install, Creates
  <1>4. CASE WritesParams
    BY <1>1, <1>2, <1>4 DEF WritesParams
  <1>5. CASE Remove
    BY <1>1, <1>2, <1>5 DEF Remove
  <1>6. CASE Deleted
    BY <1>1, <1>2, <1>6 DEF Deleted
  <1>7. QED
    BY <1>3, <1>4, <1>5, <1>6 DEF InstallStep

LEMMA NTProcessSteps ==
  ASSUME NTInv, RunsService \/ RunsConsole \/ NTProcessEnds
  PROVE  NTInv'
  <1> USE NTServiceAssumption DEF NTInv, installVars, statusVars, toldVars, watchVars,
     controlVars, endVars,
              runVars
  <1>1. CASE RunsService
    <2> USE <1>1 DEF RunsService
    <2>1. NTTypeOK'
      BY DEF NTTypeOK, NTPlaces, Statuses, Tellers
    <2>2. RegistryKnows' /\ RunsAsInstalled'
      BY DEF RegistryKnows, RunsAsInstalled, NTTypeOK
    <2>3. NTMainKnows'
      BY DEF NTTypeOK, Tellers, NTMainKnows, Quiet
    <2>4. WatcherKnows'
      BY DEF NTTypeOK, Tellers, NTMainKnows, WatcherKnows, Quiet
    <2>5. ~raised' => NoException'
      BY DEF NTTypeOK, NTPlaces, Tellers, NTMainKnows, WatcherKnows, NoException, Quiet
    <2>6. QED
      BY <2>1, <2>2, <2>3, <2>4, <2>5
  <1>2. CASE RunsConsole
    <2> USE <1>2 DEF RunsConsole
    <2>1. NTTypeOK'
      BY DEF NTTypeOK, NTPlaces, Statuses, Tellers
    <2>2. RegistryKnows' /\ RunsAsInstalled'
      BY DEF RegistryKnows, RunsAsInstalled, NTTypeOK
    <2>3. NTMainKnows'
      BY DEF NTTypeOK, Tellers, NTMainKnows, Quiet
    <2>4. WatcherKnows'
      BY DEF NTTypeOK, Tellers, NTMainKnows, WatcherKnows, Quiet
    <2>5. ~raised' => NoException'
      BY DEF NTTypeOK, NTPlaces, Tellers, NTMainKnows, WatcherKnows, NoException, Quiet
    <2>6. QED
      BY <2>1, <2>2, <2>3, <2>4, <2>5
  <1>3. CASE NTProcessEnds
    <2> USE <1>3 DEF NTProcessEnds, Silent
    <2>1. NTTypeOK'
      <3>1. ntService' \in [at : {"new", "serving", "done"}, asked : BOOLEAN, remembers :
         BOOLEAN]
        BY DEF NTTypeOK
      <3>2. ntHandle' \in BOOLEAN /\ raised' \in BOOLEAN /\ timedOut' \in BOOLEAN
        BY DEF NTTypeOK
      <3>3. QED
        BY <3>1, <3>2 DEF NTTypeOK, NTPlaces, Statuses, Tellers
    <2>2. RegistryKnows' /\ RunsAsInstalled'
      BY DEF RegistryKnows, RunsAsInstalled, NTTypeOK
    <2>3. NTMainKnows'
      BY DEF NTTypeOK, Tellers, NTMainKnows, Quiet
    <2>4. WatcherKnows'
      BY DEF NTTypeOK, Tellers, NTMainKnows, WatcherKnows, Quiet
    <2>5. ~raised' => NoException'
      BY DEF NTTypeOK, NTPlaces, Tellers, NTMainKnows, WatcherKnows, NoException, Quiet
    <2>6. QED
      BY <2>1, <2>2, <2>3, <2>4, <2>5
  <1>4. QED
    BY <1>1, <1>2, <1>3

LEMMA NTFirstMainSteps ==
  ASSUME NTInv, 
         PreInit \/ SetupHandlerInside \/ LaunchWatcherThread \/ StartPending \/ NTInitialize
         \/ Running \/ NTStarts
  PROVE  NTInv'
  <1> USE DEF NTInv, installVars, statusVars, toldVars, watchVars, controlVars, endVars,
              runVars
  <1>1. CASE PreInit
    <2> USE <1>1 DEF PreInit, Raises, NTMoves, At
    <2>1. NTTypeOK'
      <3>1. ntService' \in [at : {"new", "serving", "done"}, asked : BOOLEAN, remembers :
         BOOLEAN]
        BY DEF NTTypeOK
      <3>2. ntHandle' \in BOOLEAN /\ raised' \in BOOLEAN /\ timedOut' \in BOOLEAN
        BY DEF NTTypeOK
      <3>3. QED
        BY <3>1, <3>2 DEF NTTypeOK, NTPlaces, Statuses, Tellers
    <2>2. RegistryKnows' /\ RunsAsInstalled'
      BY NTRegistryKept
    <2>3. NTMainKnows'
      BY DEF NTTypeOK, Tellers, NTMainKnows, Quiet
    <2>4. WatcherKnows'
      BY DEF NTTypeOK, Tellers, NTMainKnows, WatcherKnows, Quiet
    <2>5. ~raised' => NoException'
      BY DEF NTTypeOK, NTPlaces, Tellers, NTMainKnows, WatcherKnows, NoException, Quiet
    <2>6. QED
      BY <2>1, <2>2, <2>3, <2>4, <2>5
  <1>2. CASE SetupHandlerInside
    <2> USE <1>2 DEF SetupHandlerInside, Raises, NTMoves, At
    <2>1. NTTypeOK'
      <3>1. ntService' \in [at : {"new", "serving", "done"}, asked : BOOLEAN, remembers :
         BOOLEAN]
        BY DEF NTTypeOK
      <3>2. ntHandle' \in BOOLEAN /\ raised' \in BOOLEAN /\ timedOut' \in BOOLEAN
        BY DEF NTTypeOK
      <3>3. QED
        BY <3>1, <3>2 DEF NTTypeOK, NTPlaces, Statuses, Tellers
    <2>2. RegistryKnows' /\ RunsAsInstalled'
      BY NTRegistryKept
    <2>3. NTMainKnows'
      BY DEF NTTypeOK, Tellers, NTMainKnows, Quiet
    <2>4. WatcherKnows'
      BY DEF NTTypeOK, Tellers, NTMainKnows, WatcherKnows, Quiet
    <2>5. ~raised' => NoException'
      BY DEF NTTypeOK, NTPlaces, Tellers, NTMainKnows, WatcherKnows, NoException, Quiet
    <2>6. QED
      BY <2>1, <2>2, <2>3, <2>4, <2>5
  <1>3. CASE LaunchWatcherThread
    <2> USE <1>3 DEF LaunchWatcherThread, Raises, NTMoves, At
    <2>1. NTTypeOK'
      <3>1. ntService' \in [at : {"new", "serving", "done"}, asked : BOOLEAN, remembers :
         BOOLEAN]
        BY DEF NTTypeOK
      <3>2. ntHandle' \in BOOLEAN /\ raised' \in BOOLEAN /\ timedOut' \in BOOLEAN
        BY DEF NTTypeOK
      <3>3. QED
        BY <3>1, <3>2 DEF NTTypeOK, NTPlaces, Statuses, Tellers
    <2>2. RegistryKnows' /\ RunsAsInstalled'
      BY NTRegistryKept
    <2>3. NTMainKnows'
      BY DEF NTTypeOK, Tellers, NTMainKnows, Quiet
    <2>4. WatcherKnows'
      BY DEF NTTypeOK, Tellers, NTMainKnows, WatcherKnows, Quiet
    <2>5. ~raised' => NoException'
      BY DEF NTTypeOK, NTPlaces, Tellers, NTMainKnows, WatcherKnows, NoException, Quiet
    <2>6. QED
      BY <2>1, <2>2, <2>3, <2>4, <2>5
  <1>4. CASE StartPending
    <2> USE <1>4 DEF StartPending, SetStatus, NTMoves, At
    <2>1. NTTypeOK'
      BY DEF NTTypeOK, NTPlaces, Statuses, Tellers
    <2>2. RegistryKnows' /\ RunsAsInstalled'
      BY NTRegistryKept
    <2>3. NTMainKnows'
      BY DEF NTTypeOK, Tellers, NTMainKnows, Quiet
    <2>4. WatcherKnows'
      BY DEF NTTypeOK, Tellers, NTMainKnows, WatcherKnows, Quiet
    <2>5. ~raised' => NoException'
      BY DEF NTTypeOK, NTPlaces, Tellers, NTMainKnows, WatcherKnows, NoException, Quiet
    <2>6. QED
      BY <2>1, <2>2, <2>3, <2>4, <2>5
  <1>5. CASE NTInitialize
    <2> USE <1>5 DEF NTInitialize, Raises, NTMoves, At
    <2>1. NTTypeOK'
      <3>1. ntService' \in [at : {"new", "serving", "done"}, asked : BOOLEAN, remembers :
         BOOLEAN]
        BY DEF NTTypeOK
      <3>2. ntHandle' \in BOOLEAN /\ raised' \in BOOLEAN /\ timedOut' \in BOOLEAN
        BY DEF NTTypeOK
      <3>3. QED
        BY <3>1, <3>2 DEF NTTypeOK, NTPlaces, Statuses, Tellers
    <2>2. RegistryKnows' /\ RunsAsInstalled'
      BY NTRegistryKept
    <2>3. NTMainKnows'
      BY DEF NTTypeOK, Tellers, NTMainKnows, Quiet
    <2>4. WatcherKnows'
      BY DEF NTTypeOK, Tellers, NTMainKnows, WatcherKnows, Quiet
    <2>5. ~raised' => NoException'
      BY DEF NTTypeOK, NTPlaces, Tellers, NTMainKnows, WatcherKnows, NoException, Quiet
    <2>6. QED
      BY <2>1, <2>2, <2>3, <2>4, <2>5
  <1>6. CASE Running
    <2> USE <1>6 DEF Running, SetStatus, NTMoves, At
    <2>1. NTTypeOK'
      BY DEF NTTypeOK, NTPlaces, Statuses, Tellers
    <2>2. RegistryKnows' /\ RunsAsInstalled'
      BY NTRegistryKept
    <2>3. NTMainKnows'
      BY DEF NTTypeOK, Tellers, NTMainKnows, Quiet
    <2>4. WatcherKnows'
      BY DEF NTTypeOK, Tellers, NTMainKnows, WatcherKnows, Quiet
    <2>5. ~raised' => NoException'
      BY DEF NTTypeOK, NTPlaces, Tellers, NTMainKnows, WatcherKnows, NoException, Quiet
    <2>6. QED
      BY <2>1, <2>2, <2>3, <2>4, <2>5
  <1>7. CASE NTStarts
    <2> USE <1>7 DEF NTStarts, NTMoves, At
    <2>1. NTTypeOK'
      <3>1. ntService' \in [at : {"new", "serving", "done"}, asked : BOOLEAN, remembers :
         BOOLEAN]
        BY DEF NTTypeOK
      <3>2. ntHandle' \in BOOLEAN /\ raised' \in BOOLEAN /\ timedOut' \in BOOLEAN
        BY DEF NTTypeOK
      <3>3. QED
        BY <3>1, <3>2 DEF NTTypeOK, NTPlaces, Statuses, Tellers
    <2>2. RegistryKnows' /\ RunsAsInstalled'
      BY NTRegistryKept
    <2>3. NTMainKnows'
      BY DEF NTTypeOK, Tellers, NTMainKnows, Quiet
    <2>4. WatcherKnows'
      BY DEF NTTypeOK, Tellers, NTMainKnows, WatcherKnows, Quiet
    <2>5. ~raised' => NoException'
      BY DEF NTTypeOK, NTPlaces, Tellers, NTMainKnows, WatcherKnows, NoException, Quiet
    <2>6. QED
      BY <2>1, <2>2, <2>3, <2>4, <2>5
  <1>8. QED
    BY <1>1, <1>2, <1>3, <1>4, <1>5, <1>6, <1>7

LEMMA NTLastMainSteps ==
  ASSUME NTInv, 
         NTServed \/ Excepts \/ DeInitWaits \/ DeInitCloses \/ Stopped \/ Dies
  PROVE  NTInv'
  <1> USE DEF NTInv, installVars, statusVars, toldVars, watchVars, controlVars, endVars,
              runVars
  <1>1. CASE NTServed
    <2> USE <1>1 DEF NTServed, Raises, NTMoves, At
    <2>1. NTTypeOK'
      <3>1. ntService' \in [at : {"new", "serving", "done"}, asked : BOOLEAN, remembers :
         BOOLEAN]
        BY DEF NTTypeOK
      <3>2. ntHandle' \in BOOLEAN /\ raised' \in BOOLEAN /\ timedOut' \in BOOLEAN
        BY DEF NTTypeOK
      <3>3. QED
        BY <3>1, <3>2 DEF NTTypeOK, NTPlaces, Statuses, Tellers
    <2>2. RegistryKnows' /\ RunsAsInstalled'
      BY NTRegistryKept
    <2>3. NTMainKnows'
      BY DEF NTTypeOK, Tellers, NTMainKnows, Quiet
    <2>4. WatcherKnows'
      BY DEF NTTypeOK, Tellers, NTMainKnows, WatcherKnows, Quiet
    <2>5. ~raised' => NoException'
      BY DEF NTTypeOK, NTPlaces, Tellers, NTMainKnows, WatcherKnows, NoException, Quiet
    <2>6. QED
      BY <2>1, <2>2, <2>3, <2>4, <2>5
  <1>2. CASE Excepts
    <2> USE <1>2 DEF Excepts, SetStatus, NTMoves, At
    <2>1. NTTypeOK'
      BY DEF NTTypeOK, NTPlaces, Statuses, Tellers
    <2>2. RegistryKnows' /\ RunsAsInstalled'
      BY NTRegistryKept
    <2>3. NTMainKnows'
      BY DEF NTTypeOK, Tellers, NTMainKnows, Quiet
    <2>4. WatcherKnows'
      BY DEF NTTypeOK, Tellers, NTMainKnows, WatcherKnows, Quiet
    <2>5. ~raised' => NoException'
      BY DEF NTTypeOK, NTPlaces, Tellers, NTMainKnows, WatcherKnows, NoException, Quiet
    <2>6. QED
      BY <2>1, <2>2, <2>3, <2>4, <2>5
  <1>3. CASE DeInitWaits
    <2> USE <1>3 DEF DeInitWaits, WaitsForWatcher, NTMoves, At
    <2>1. NTTypeOK'
      <3>1. ntService' \in [at : {"new", "serving", "done"}, asked : BOOLEAN, remembers :
         BOOLEAN]
        BY DEF NTTypeOK
      <3>2. ntHandle' \in BOOLEAN /\ raised' \in BOOLEAN /\ timedOut' \in BOOLEAN
        BY DEF NTTypeOK
      <3>3. QED
        BY <3>1, <3>2 DEF NTTypeOK, NTPlaces, Statuses, Tellers
    <2>2. RegistryKnows' /\ RunsAsInstalled'
      BY NTRegistryKept
    <2>3. NTMainKnows'
      BY DEF NTTypeOK, Tellers, NTMainKnows, Quiet
    <2>4. WatcherKnows'
      BY DEF NTTypeOK, Tellers, NTMainKnows, WatcherKnows, Quiet
    <2>5. ~raised' => NoException'
      <3>1. timedOut' <=> ntWatcher \notin {"none", "ended"}
        OBVIOUS
      <3>2. QED
        BY <3>1 DEF NTTypeOK, NTPlaces, Tellers, NTMainKnows, WatcherKnows, NoException, Quiet
    <2>6. QED
      BY <2>1, <2>2, <2>3, <2>4, <2>5
  <1>4. CASE DeInitCloses
    <2> USE <1>4 DEF DeInitCloses, NTMoves, At
    <2>1. NTTypeOK'
      BY DEF NTTypeOK, NTPlaces, Statuses, Tellers
    <2>2. RegistryKnows' /\ RunsAsInstalled'
      BY NTRegistryKept
    <2>3. NTMainKnows'
      BY DEF NTTypeOK, Tellers, NTMainKnows, Quiet
    <2>4. WatcherKnows'
      BY DEF NTTypeOK, Tellers, NTMainKnows, WatcherKnows, Quiet
    <2>5. ~raised' => NoException'
      BY DEF NTTypeOK, NTPlaces, Tellers, NTMainKnows, WatcherKnows, NoException, Quiet
    <2>6. QED
      BY <2>1, <2>2, <2>3, <2>4, <2>5
  <1>5. CASE Stopped
    <2> USE <1>5 DEF Stopped, SetStatus, NTMoves, At
    <2>1. NTTypeOK'
      BY DEF NTTypeOK, NTPlaces, Statuses, Tellers
    <2>2. RegistryKnows' /\ RunsAsInstalled'
      BY NTRegistryKept
    <2>3. NTMainKnows'
      BY DEF NTTypeOK, Tellers, NTMainKnows, Quiet
    <2>4. WatcherKnows'
      BY DEF NTTypeOK, Tellers, NTMainKnows, WatcherKnows, Quiet
    <2>5. ~raised' => NoException'
      BY DEF NTTypeOK, NTPlaces, Tellers, NTMainKnows, WatcherKnows, NoException, Quiet
    <2>6. QED
      BY <2>1, <2>2, <2>3, <2>4, <2>5
  <1>6. CASE Dies
    <2> USE <1>6 DEF Dies
    <2>1. NTTypeOK'
      BY DEF NTTypeOK, NTPlaces, Statuses, Tellers
    <2>2. RegistryKnows' /\ RunsAsInstalled'
      BY NTRegistryKept
    <2>3. NTMainKnows'
      BY DEF NTTypeOK, Tellers, NTMainKnows, Quiet
    <2>4. WatcherKnows'
      BY DEF NTTypeOK, Tellers, NTMainKnows, WatcherKnows, Quiet
    <2>5. ~raised' => NoException'
      BY DEF NTTypeOK, NTPlaces, Tellers, NTMainKnows, WatcherKnows, NoException, Quiet
    <2>6. QED
      BY <2>1, <2>2, <2>3, <2>4, <2>5
  <1>7. QED
    BY <1>1, <1>2, <1>3, <1>4, <1>5, <1>6

LEMMA NTOtherSteps ==
  ASSUME NTInv, 
         OnStop \/ Polls \/ WatcherWakes \/ Answers \/ StopControl \/ UserControl \/ Interrogate
  PROVE  NTInv'
  <1> USE NTServiceAssumption DEF NTInv, installVars, statusVars, toldVars, watchVars,
     controlVars, endVars,
              runVars
  <1>1. CASE OnStop
    <2> USE <1>1 DEF OnStop, SetStatus, WatcherAt
    <2>1. NTTypeOK'
      <3>1. ntService' \in [at : {"new", "serving", "done"}, asked : BOOLEAN, remembers :
         BOOLEAN]
        BY DEF NTTypeOK
      <3>2. ntHandle' \in BOOLEAN /\ raised' \in BOOLEAN /\ timedOut' \in BOOLEAN
        BY DEF NTTypeOK
      <3>3. QED
        BY <3>1, <3>2 DEF NTTypeOK, NTPlaces, Statuses, Tellers
    <2>2. RegistryKnows' /\ RunsAsInstalled'
      BY NTRegistryKept
    <2>3. NTMainKnows'
      BY DEF NTTypeOK, Tellers, NTMainKnows, Quiet
    <2>4. WatcherKnows'
      BY DEF NTTypeOK, Tellers, NTMainKnows, WatcherKnows, Quiet
    <2>5. ~raised' => NoException'
      BY DEF NTTypeOK, NTPlaces, Tellers, NTMainKnows, WatcherKnows, NoException, Quiet
    <2>6. QED
      BY <2>1, <2>2, <2>3, <2>4, <2>5
  <1>2. CASE Polls
    <2> USE <1>2 DEF Polls, SetStatus, WatcherAt
    <2>1. NTTypeOK'
      BY DEF NTTypeOK, NTPlaces, Statuses, Tellers
    <2>2. RegistryKnows' /\ RunsAsInstalled'
      BY NTRegistryKept
    <2>3. NTMainKnows'
      BY DEF NTTypeOK, Tellers, NTMainKnows, Quiet
    <2>4. WatcherKnows'
      BY DEF NTTypeOK, Tellers, NTMainKnows, WatcherKnows, Quiet
    <2>5. ~raised' => NoException'
      BY DEF NTTypeOK, NTPlaces, Tellers, NTMainKnows, WatcherKnows, NoException, Quiet
    <2>6. QED
      BY <2>1, <2>2, <2>3, <2>4, <2>5
  <1>3. CASE WatcherWakes
    <2> USE <1>3 DEF WatcherWakes, WatcherAt
    <2>1. NTTypeOK'
      BY DEF NTTypeOK, NTPlaces, Statuses, Tellers
    <2>2. RegistryKnows' /\ RunsAsInstalled'
      BY NTRegistryKept
    <2>3. NTMainKnows'
      BY DEF NTTypeOK, Tellers, NTMainKnows, Quiet
    <2>4. WatcherKnows'
      BY DEF NTTypeOK, Tellers, NTMainKnows, WatcherKnows, Quiet
    <2>5. ~raised' => NoException'
      BY DEF NTTypeOK, NTPlaces, Tellers, NTMainKnows, WatcherKnows, NoException, Quiet
    <2>6. QED
      BY <2>1, <2>2, <2>3, <2>4, <2>5
  <1>4. CASE Answers
    <2> USE <1>4 DEF Answers, SetStatus
    <2>1. NTTypeOK'
      BY DEF NTTypeOK, NTPlaces, Statuses, Tellers
    <2>2. RegistryKnows' /\ RunsAsInstalled'
      BY NTRegistryKept
    <2>3. NTMainKnows'
      BY DEF NTTypeOK, Tellers, NTMainKnows, Quiet
    <2>4. WatcherKnows'
      BY DEF NTTypeOK, Tellers, NTMainKnows, WatcherKnows, Quiet
    <2>5. ~raised' => NoException'
      BY DEF NTTypeOK, NTPlaces, Tellers, NTMainKnows, WatcherKnows, NoException, Quiet
    <2>6. QED
      BY <2>1, <2>2, <2>3, <2>4, <2>5
  <1>5. CASE StopControl
    <2> USE <1>5 DEF StopControl, Control
    <2>1. NTTypeOK'
      BY DEF NTTypeOK, NTPlaces, Statuses, Tellers
    <2>2. RegistryKnows' /\ RunsAsInstalled'
      BY NTRegistryKept
    <2>3. NTMainKnows'
      BY DEF NTTypeOK, Tellers, NTMainKnows, Quiet
    <2>4. WatcherKnows'
      BY DEF NTTypeOK, Tellers, NTMainKnows, WatcherKnows, Quiet
    <2>5. ~raised' => NoException'
      BY DEF NTTypeOK, NTPlaces, Tellers, NTMainKnows, WatcherKnows, NoException, Quiet
    <2>6. QED
      BY <2>1, <2>2, <2>3, <2>4, <2>5
  <1>6. CASE UserControl
    <2> USE <1>6 DEF UserControl, Control
    <2>1. NTTypeOK'
      BY DEF NTTypeOK, NTPlaces, Statuses, Tellers
    <2>2. RegistryKnows' /\ RunsAsInstalled'
      BY NTRegistryKept
    <2>3. NTMainKnows'
      BY DEF NTTypeOK, Tellers, NTMainKnows, Quiet
    <2>4. WatcherKnows'
      BY DEF NTTypeOK, Tellers, NTMainKnows, WatcherKnows, Quiet
    <2>5. ~raised' => NoException'
      BY DEF NTTypeOK, NTPlaces, Tellers, NTMainKnows, WatcherKnows, NoException, Quiet
    <2>6. QED
      BY <2>1, <2>2, <2>3, <2>4, <2>5
  <1>7. CASE Interrogate
    <2> USE <1>7 DEF Interrogate, Control
    <2>1. NTTypeOK'
      BY DEF NTTypeOK, NTPlaces, Statuses, Tellers
    <2>2. RegistryKnows' /\ RunsAsInstalled'
      BY NTRegistryKept
    <2>3. NTMainKnows'
      BY DEF NTTypeOK, Tellers, NTMainKnows, Quiet
    <2>4. WatcherKnows'
      BY DEF NTTypeOK, Tellers, NTMainKnows, WatcherKnows, Quiet
    <2>5. ~raised' => NoException'
      BY DEF NTTypeOK, NTPlaces, Tellers, NTMainKnows, WatcherKnows, NoException, Quiet
    <2>6. QED
      BY <2>1, <2>2, <2>3, <2>4, <2>5
  <1>8. QED
    BY <1>1, <1>2, <1>3, <1>4, <1>5, <1>6, <1>7

LEMMA NTTellSteps ==
  ASSUME NTInv, NEW t \in Tellers, Tells(t)
  PROVE  NTInv'
  <1> USE DEF NTInv, installVars, statusVars, toldVars, watchVars, controlVars, endVars,
              runVars
  <1> USE DEF Tells, Idle
  <1>1. NTTypeOK'
    BY DEF NTTypeOK, NTPlaces, Statuses, Tellers
  <1>2. RegistryKnows' /\ RunsAsInstalled'
    BY NTRegistryKept
  <1>3. NTMainKnows'
    BY DEF NTTypeOK, Tellers, NTMainKnows, Quiet
  <1>4. WatcherKnows'
    BY DEF NTTypeOK, Tellers, NTMainKnows, WatcherKnows, Quiet
  <1>5. ~raised' => NoException'
    BY DEF NTTypeOK, NTPlaces, Tellers, NTMainKnows, WatcherKnows, NoException, Quiet
  <1>6. QED
    BY <1>1, <1>2, <1>3, <1>4, <1>5

\* For any set of parameters, any number of installations and controls: a
\* service runs with what it was installed with or with nothing, and without an
\* exception or a timeout its watcher is over before the events are closed and
\* says nothing after STOPPED.  (CServiceInstall.cpp:86, CService.cpp:126-142)
THEOREM NTIsSafe == NTSpec => []NTSafe
  <1>1. NTInv /\ [NTNext]_ntVars => NTInv'
    <2>1. ASSUME NTInv, UNCHANGED ntVars PROVE NTInv'
      BY <2>1
         DEF ntVars, NTInv, NTTypeOK, RegistryKnows, RunsAsInstalled, NTMainKnows,
            WatcherKnows, NoException, Quiet
    <2>2. QED
      BY <2>1, NTInstallSteps, NTProcessSteps, NTFirstMainSteps, NTLastMainSteps,
         NTOtherSteps, NTTellSteps
         DEF NTNext, NTMainStep, WatcherStep, HandlerStep, Tellers
  <1>2. NTInv => NTSafe
    BY DEF NTInv, NTTypeOK, NTPlaces, NTMainKnows, NoException, NTSafe, WatcherOver, Quiet
  <1>3. QED
    BY <1>1, <1>2, NTInvInit, PTL DEF NTSpec
=============================================================================
