------------------------------ MODULE ThdThread ------------------------------
(***************************************************************************)
(* The life of a thread: ThdThread::create, releaseThread and the          *)
(* destructor with _ThreadEntry (src/src/thd/ThdThread.cpp), called by     *)
(* ThdManager::newWorkerThread (src/src/thd/ThdManager.cpp).               *)
(*                                                                         *)
(* The creator and the child share a Startup object on the creator's       *)
(* stack.  It owns two manual-reset events: the child signals _hInitEvent  *)
(* when init is done, and waits for _hContinueEvent, of which both sides   *)
(* keep a reference of their own.  signal() is two steps, as in ThdEvent:  *)
(* it sets the flag, and then touches the event again to notify; a wait    *)
(* can return between the two.                                             *)
(***************************************************************************)
EXTENDS Naturals

CONSTANT
  Threads  \* the threads created, each by a creator of its own

VARIABLES
  joins,      \* is pthread_join compiled: closeThread calls it in an ASSERT_D,
              \* which needs _DEBUG, and no build file defines that
  creator,    \* where the creator is
  child,      \* where the new thread is
  startup,    \* is the Startup, and with it _hInitEvent, alive
  initFlag,   \* _hInitEvent is signalled
  contFlag,   \* _hContinueEvent is signalled
  bError,     \* starter._bError
  canRelease, \* _pContinueEvent is not NULL
  object,     \* is the ThdThread alive
  joined      \* how often the child was joined

threadVars == <<joins, creator, child, startup, initFlag, contFlag, bError, canRelease,
          object, joined>>

(***************************************************************************)
(* start      before newWorkerThread                                       *)
(* creating   in pthread_create                                            *)
(* waiting    in waitForInitializeEvent                                    *)
(* closing    in create, about to call closeThread after an error          *)
(* failing    create returned false, about to delete the ThdThread         *)
(* releasing  create returned true                                         *)
(* owning     newWorkerThread returned the thread                          *)
(* none       newWorkerThread returned NULL, or the thread was deleted     *)
(***************************************************************************)
CreatorPcs == {"start", "creating", "waiting", "closing", "failing",
              "releasing", "owning", "none"}

(***************************************************************************)
(* none        not started                                                 *)
(* init        in init()                                                   *)
(* completing  wrote _bError, about to signal _hInitEvent                  *)
(* notifying   in that signal, behind the flag                             *)
(* blocked     in the wait for _hContinueEvent                             *)
(* running     in run()                                                    *)
(***************************************************************************)
ChildPcs == {"none", "init", "completing", "notifying", "blocked", "running",
            "exited"}

ThreadTypeOK ==
  /\ joins \in BOOLEAN
  /\ creator \in [Threads -> CreatorPcs]
  /\ child \in [Threads -> ChildPcs]
  /\ startup \in [Threads -> BOOLEAN]
  /\ initFlag \in [Threads -> BOOLEAN]
  /\ contFlag \in [Threads -> BOOLEAN]
  /\ bError \in [Threads -> BOOLEAN]
  /\ canRelease \in [Threads -> BOOLEAN]
  /\ object \in [Threads -> BOOLEAN]
  /\ joined \in [Threads -> 0..2]

ThreadInit ==
  /\ joins \in BOOLEAN
  /\ creator = [t \in Threads |-> "start"]
  /\ child = [t \in Threads |-> "none"]
  /\ startup = [t \in Threads |-> FALSE]
  /\ initFlag = [t \in Threads |-> FALSE]
  /\ contFlag = [t \in Threads |-> FALSE]
  /\ bError = [t \in Threads |-> FALSE]
  /\ canRelease = [t \in Threads |-> FALSE]
  /\ object = [t \in Threads |-> FALSE]
  /\ joined = [t \in Threads |-> 0]

CreatorMove(t, from, to) ==
  /\ creator[t] = from
  /\ creator' = [creator EXCEPT ![t] = to]

ChildMove(t, from, to) ==
  /\ child[t] = from
  /\ child' = [child EXCEPT ![t] = to]

-----------------------------------------------------------------------------
(* The creator *)

Begin(t) ==
  /\ CreatorMove(t, "start", "creating")
  /\ object' = [object EXCEPT ![t] = TRUE]
  /\ startup' = [startup EXCEPT ![t] = TRUE]
  /\ canRelease' = [canRelease EXCEPT ![t] = TRUE]
  /\ UNCHANGED <<joins, child, initFlag, contFlag, bError, joined>>

Start(t) ==
  /\ CreatorMove(t, "creating", "waiting")
  /\ ChildMove(t, "none", "init")
  /\ UNCHANGED <<joins, startup, initFlag, contFlag, bError, canRelease, object, joined>>

\* pthread_create fails.
StartFails(t) ==
  /\ CreatorMove(t, "creating", "failing")
  /\ startup' = [startup EXCEPT ![t] = FALSE]
  /\ UNCHANGED <<joins, child, initFlag, contFlag, bError, canRelease, object, joined>>

\* Mutant: create does not wait for _hInitEvent.
InitializedEarly(t) ==
  /\ ~bError[t]
  /\ CreatorMove(t, "waiting", "releasing")
  /\ startup' = [startup EXCEPT ![t] = FALSE]
  /\ UNCHANGED <<joins, child, initFlag, contFlag, bError, canRelease, object, joined>>

\* newWorkerThread always creates the thread suspended.
Initialized(t) ==
  /\ initFlag[t]
  /\ ~bError[t]
  /\ CreatorMove(t, "waiting", "releasing")
  /\ startup' = [startup EXCEPT ![t] = FALSE]
  /\ UNCHANGED <<joins, child, initFlag, contFlag, bError, canRelease, object, joined>>

InitFailed(t) ==
  /\ initFlag[t]
  /\ bError[t]
  /\ CreatorMove(t, "waiting", "closing")
  /\ UNCHANGED <<joins, child, startup, initFlag, contFlag, bError, canRelease, object,
                 joined>>

\* pthread_join, which waits only for a thread that is not joined yet.  What a
\* join of another one does is undefined; that it returns is one outcome.
CloseThread(t) ==
  IF joins
  THEN /\ joined[t] = 0 => child[t] \in {"none", "exited"}
       /\ joined' = [joined EXCEPT ![t] = joined[t] + 1]
  ELSE UNCHANGED joined

Close(t) ==
  /\ CreatorMove(t, "closing", "failing")
  /\ CloseThread(t)
  /\ startup' = [startup EXCEPT ![t] = FALSE]
  /\ UNCHANGED <<joins, child, initFlag, contFlag, bError, canRelease, object>>

\* `delete newThread' after create returned false.
Fail(t) ==
  /\ CreatorMove(t, "failing", "none")
  /\ CloseThread(t)
  /\ object' = [object EXCEPT ![t] = FALSE]
  /\ UNCHANGED <<joins, child, startup, initFlag, contFlag, bError, canRelease>>

\* releaseThread: a second call finds _pContinueEvent NULL.
ReleaseThread(t) ==
  /\ canRelease' = [canRelease EXCEPT ![t] = FALSE]
  /\ contFlag' = [contFlag EXCEPT ![t] = contFlag[t] \/ canRelease[t]]

\* The caller asked for keTSSuspended, or newWorkerThread releases the thread.
ReturnSuspended(t) ==
  /\ CreatorMove(t, "releasing", "owning")
  /\ UNCHANGED <<joins, child, startup, initFlag, contFlag, bError, canRelease, object,
                 joined>>

ReturnReleased(t) ==
  /\ CreatorMove(t, "releasing", "owning")
  /\ ReleaseThread(t)
  /\ UNCHANGED <<joins, child, startup, initFlag, bError, object, joined>>

OwnerReleases(t) ==
  /\ creator[t] = "owning"
  /\ ReleaseThread(t)
  /\ UNCHANGED <<joins, creator, child, startup, initFlag, bError, object, joined>>

OwnerDeletes(t) ==
  /\ CreatorMove(t, "owning", "none")
  /\ CloseThread(t)
  /\ object' = [object EXCEPT ![t] = FALSE]
  /\ UNCHANGED <<joins, child, startup, initFlag, contFlag, bError, canRelease>>

-----------------------------------------------------------------------------
(* _ThreadEntry *)

ChildInit(t) ==
  /\ ChildMove(t, "init", "completing")
  /\ \E err \in BOOLEAN : bError' = [bError EXCEPT ![t] = err]
  /\ UNCHANGED <<joins, creator, startup, initFlag, contFlag, canRelease, object, joined>>

\* Mutant: only a thread without an error says that it is initialised.
ChildSetsFlagOnSuccess(t) ==
  /\ ChildMove(t, "completing", "notifying")
  /\ initFlag' = [initFlag EXCEPT ![t] = ~bError[t]]
  /\ UNCHANGED <<joins, creator, startup, contFlag, bError, canRelease, object, joined>>

ChildSetsFlag(t) ==
  /\ ChildMove(t, "completing", "notifying")
  /\ initFlag' = [initFlag EXCEPT ![t] = TRUE]
  /\ UNCHANGED <<joins, creator, startup, contFlag, bError, canRelease, object, joined>>

\* pthread_cond_broadcast of _hInitEvent.
ChildNotifies(t) ==
  /\ ChildMove(t, "notifying", IF bError[t] THEN "exited" ELSE "blocked")
  /\ UNCHANGED <<joins, creator, startup, initFlag, contFlag, bError, canRelease, object,
                 joined>>

ChildContinues(t) ==
  /\ contFlag[t]
  /\ ChildMove(t, "blocked", "running")
  /\ UNCHANGED <<joins, creator, startup, initFlag, contFlag, bError, canRelease, object,
                 joined>>

ChildExits(t) ==
  /\ ChildMove(t, "running", "exited")
  /\ UNCHANGED <<joins, creator, startup, initFlag, contFlag, bError, canRelease, object,
                 joined>>

-----------------------------------------------------------------------------

CreatorStep(t) ==
  \/ Start(t) \/ StartFails(t) \/ Initialized(t) \/ InitFailed(t)
  \/ Close(t) \/ Fail(t) \/ ReturnSuspended(t) \/ ReturnReleased(t)

ChildStep(t) ==
  \/ ChildInit(t) \/ ChildSetsFlag(t) \/ ChildNotifies(t)
  \/ ChildContinues(t) \/ ChildExits(t)

ThreadNext ==
  \E t \in Threads :
    Begin(t) \/ CreatorStep(t) \/ ChildStep(t) \/ OwnerReleases(t) \/ OwnerDeletes(t)

ThreadSpec == ThreadInit /\ [][ThreadNext]_threadVars

\* newWorkerThread and the child go on; init() and run() return.  The owner
\* need not release or delete the thread.
ThreadFairness(t) ==
  WF_threadVars(CreatorStep(t)) /\ WF_threadVars(ChildStep(t))

-----------------------------------------------------------------------------
(* Properties *)

\* Everything the child reads and writes through `starter' before it sets the
\* flag of _hInitEvent is still there: the creator does not leave create
\* before.  (ThdThread.cpp:309-323)
StartupUntilFlag ==
  \A t \in Threads : child[t] \in {"init", "completing"} => startup[t]

\* A thread whose creation failed never gets as far as its runner, and nobody
\* is left who could release it.  (ThdThread.cpp:214-221, 327)
FailedNeverRuns ==
  \A t \in Threads :
    bError[t] /\ creator[t] = "none" => child[t] \notin {"blocked", "running"}

\* newWorkerThread returns, whatever init and pthread_create do.
CreateReturns ==
  \A t \in Threads : creator[t] = "creating" ~> creator[t] \in {"owning", "none"}

\* A release is not lost, even one that comes before the child waits for it.
ReleasedRuns ==
  \A t \in Threads : contFlag[t] ~> child[t] = "exited"

\* With the join, the ThdThread, which owns the runner, is not deleted under
\* the thread that runs it.  (ThdThread.cpp:112-132, 336-343)
ObjectOutlivesChild ==
  \A t \in Threads :
    joins /\ child[t] \in {"init", "completing", "blocked", "running"} => object[t]

\* "if there was an error, then wait until the thread exits and then return
\* from this fn()" (ThdThread.cpp:216-217).  It is true with the join; as the
\* library is built nothing joins, and create returns before the thread is over.
JoinWaitsForExit ==
  \A t \in Threads :
    joins /\ bError[t] /\ creator[t] \in {"failing", "none"} => child[t] = "exited"

\* What the creator and the thread share is there while the thread uses it, and
\* a thread that could not be initialized does not run.
ThreadSafe ==
  /\ ThreadTypeOK
  /\ StartupUntilFlag /\ ObjectOutlivesChild
  /\ FailedNeverRuns /\ JoinWaitsForExit
=============================================================================
