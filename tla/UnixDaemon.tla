----------------------------- MODULE UnixDaemon -----------------------------
(***************************************************************************)
(* UnixDaemonMain::main and UnixSignalHandler: a process that forks into   *)
(* the background, builds its context, and runs a service until a signal   *)
(* asks it to stop.  The signals are blocked in the first thread, and the  *)
(* thread that waits for them with sigwait unblocks them for itself: one   *)
(* that comes while it is anywhere but in sigwait has its default action.  *)
(* "TERM" stands for INT, QUIT and TERM, "USR1" for USR1 and USR2.         *)
(***************************************************************************)
EXTENDS Naturals

CONSTANTS
  MaxSignals   \* bound on the signals sent to the process

ASSUME UnixDaemonAssumption == MaxSignals \in Nat

VARIABLES
  daemonMain,     \* where the first thread is
  background,     \* is the action "daemon"
  joinsSignals,   \* does the destructor of a ThdThread join (a _DEBUG build)
  masked,         \* are the signals blocked in all the threads but one
  pendingSignals, \* the signals no thread takes
  signalsSent,    \* how many were sent
  sigThread,      \* where the thread of the handler is
  handlerThere,   \* is the UnixSignalHandler not yet deleted
  remembers,      \* does a stop before start() end the start(): the service's own business
  served          \* [inited, running, asked]: "no", "yes", ...

daemonVars == <<daemonMain, background, joinsSignals, masked, pendingSignals, signalsSent,
                sigThread, handlerThere, remembers, served>>
sigVars == <<sigThread, handlerThere>>
signalVars == <<pendingSignals, signalsSent>>

DaemonSignals == {"TERM", "USR1"}
DaemonPlaces == {"forking", "forking again", "masking", "context", "threading", "initing",
           "starting", "serving", "leaving", "joining", "exited", "killed"}
SigPlaces == {"none", "created", "waiting", "asking", "awaiting", "ended"}
Gone == daemonMain \in {"exited", "killed"}

DaemonTypeOK ==
  /\ daemonMain \in DaemonPlaces
  /\ background \in BOOLEAN /\ joinsSignals \in BOOLEAN /\ masked \in BOOLEAN
  /\ pendingSignals \subseteq DaemonSignals /\ signalsSent \in 0..MaxSignals
  /\ sigThread \in SigPlaces /\ handlerThere \in BOOLEAN /\ remembers \in BOOLEAN
  /\ served \in [inited : {"no", "yes", "failed"}, running : {"no", "yes", "done"},
                  asked : {"no", "yes", "refused", "lost"}]

DaemonInit ==
  /\ background \in BOOLEAN
  /\ daemonMain = IF background THEN "forking" ELSE "masking"
  /\ joinsSignals \in BOOLEAN
  /\ masked = FALSE /\ pendingSignals = {} /\ signalsSent = 0
  /\ sigThread = "none" /\ handlerThere = FALSE
  /\ remembers \in BOOLEAN
  /\ served = [inited |-> "no", running |-> "no", asked |-> "no"]

MainMoves(from, to) == daemonMain = from /\ daemonMain' = to
SigMoves(from, to) == ~Gone /\ sigThread = from /\ sigThread' = to

-----------------------------------------------------------------------------
(* Signals sent to the process. *)

Unblocked == sigThread \in {"waiting", "asking", "awaiting"}

\* Mutant: the loop ends with any signal.
TakesOnce(s) ==
  /\ sigThread = "waiting"
  /\ sigThread' = IF s = "TERM" THEN "asking" ELSE "ended"
  /\ UNCHANGED <<daemonMain, pendingSignals>>

\* sigwait returns; the loop goes round for any signal but TERM.
Takes(s) ==
  /\ sigThread = "waiting"
  /\ sigThread' = IF s = "TERM" THEN "asking" ELSE "waiting"
  /\ UNCHANGED <<daemonMain, pendingSignals>>

Signal(s) ==
  /\ ~Gone /\ signalsSent < MaxSignals
  /\ signalsSent' = signalsSent + 1
  /\ \/ Takes(s)
     \/ /\ sigThread # "waiting"
        /\ IF ~masked \/ Unblocked
           THEN daemonMain' = "killed" /\ UNCHANGED pendingSignals
           ELSE pendingSignals' = pendingSignals \cup {s} /\ UNCHANGED daemonMain
        /\ UNCHANGED sigThread
  /\ UNCHANGED <<background, joinsSignals, masked, handlerThere, remembers, served>>

-----------------------------------------------------------------------------
(* UnixDaemonMain::main, InitializeService *)

\* fork, and setsid and fork once more: what is left of it is the child, or
\* the process that could not fork.  The parents return -1.
Fork ==
  /\ \/ MainMoves("forking", "forking again")
     \/ MainMoves("forking again", "masking")
     \/ daemonMain \in {"forking", "forking again"} /\ daemonMain' = "exited"
  /\ UNCHANGED <<sigVars, signalVars, background, joinsSignals, masked, remembers,
                 served>>

\* UnixSignalHandler::instance
MakesHandler ==
  /\ MainMoves("masking", "context")
  /\ masked' = TRUE
  /\ handlerThere' = TRUE
  /\ UNCHANGED <<signalVars, background, joinsSignals, sigThread, remembers, served>>

\* The configuration, the context of its components and the node of the
\* service; without one of them the handler is released with its last owner.
MakesContext ==
  /\ \/ MainMoves("context", "threading") /\ UNCHANGED handlerThere
     \/ MainMoves("context", "leaving") /\ handlerThere' = FALSE
  /\ UNCHANGED <<signalVars, background, joinsSignals, masked, sigThread, remembers,
                 served>>

\* newWorkerThread may return NULL, which nobody looks at.
MakesSignalThread ==
  /\ MainMoves("threading", "initing")
  /\ sigThread' \in {"created", "none"}
  /\ UNCHANGED <<signalVars, background, joinsSignals, masked, handlerThere, remembers,
                 served>>

\* Only its thread keeps the handler after InitializeService.
InitsService ==
  /\ \/ /\ MainMoves("initing", "starting")
        /\ served' = [served EXCEPT !.inited = "yes"]
     \/ /\ MainMoves("initing", "leaving")
        /\ served' = [served EXCEPT !.inited = "failed"]
  /\ handlerThere' = (sigThread # "none")
  /\ UNCHANGED <<signalVars, background, joinsSignals, masked, sigThread, remembers>>

StartsService ==
  /\ MainMoves("starting", "serving")
  /\ served' = [served EXCEPT !.running = "yes",
                                 !.asked = IF @ = "yes" /\ ~remembers THEN "lost" ELSE @]
  /\ UNCHANGED <<sigVars, signalVars, background, joinsSignals, masked, remembers>>

\* start() returns: it was asked to, or has nothing more to do.
ServiceEnds ==
  /\ MainMoves("serving", "leaving")
  /\ served' = [served EXCEPT !.running = "done"]
  /\ UNCHANGED <<sigVars, signalVars, background, joinsSignals, masked, remembers>>

\* The RefCountedPtr of the signal thread is destroyed, and with the ThdThread
\* the last owner of the handler.
LeavesJoining ==
  /\ MainMoves("leaving", "joining")
  /\ joinsSignals /\ sigThread # "none"
  /\ UNCHANGED <<sigVars, signalVars, background, joinsSignals, masked, remembers,
                 served>>
Joins ==
  /\ MainMoves("joining", "exited")
  /\ sigThread = "ended"
  /\ handlerThere' = FALSE
  /\ UNCHANGED <<signalVars, background, joinsSignals, masked, sigThread, remembers,
                 served>>

LeavesUnjoined ==
  /\ MainMoves("leaving", "exited")
  /\ ~joinsSignals \/ sigThread = "none"
  /\ handlerThere' = FALSE
  /\ UNCHANGED <<signalVars, background, joinsSignals, masked, sigThread, remembers,
                 served>>

-----------------------------------------------------------------------------
(* UnixSignalHandler::run, waitforstop *)

\* pthread_sigmask(SIG_UNBLOCK), and the first sigwait.
SigUnblocks ==
  /\ ~Gone /\ sigThread = "created"
  /\ IF pendingSignals # {}
     THEN daemonMain' = "killed" /\ UNCHANGED sigThread
     ELSE sigThread' = "waiting" /\ UNCHANGED daemonMain
  /\ UNCHANGED <<signalVars, background, joinsSignals, masked, handlerThere, remembers,
                 served>>

\* stop(): -1 ends the thread, any other result is waited for.
SigAsks ==
  /\ \/ /\ SigMoves("asking", "awaiting")
        /\ served' = [served EXCEPT !.asked = "yes"]
     \/ /\ SigMoves("asking", "ended")
        /\ served' = [served EXCEPT !.asked = "refused"]
  /\ UNCHANGED <<signalVars, daemonMain, background, joinsSignals, masked, handlerThere,
                 remembers>>

\* isStopped, once in a second.
SigSeesStop ==
  /\ SigMoves("awaiting", "ended")
  /\ served.running = "done"
  /\ UNCHANGED <<signalVars, daemonMain, background, joinsSignals, masked, handlerThere,
                 remembers, served>>

-----------------------------------------------------------------------------

DaemonMainStep ==
  \/ Fork \/ MakesHandler \/ MakesContext \/ MakesSignalThread \/ InitsService
  \/ StartsService \/ ServiceEnds \/ LeavesJoining \/ Joins \/ LeavesUnjoined

SigStep == SigUnblocks \/ SigAsks \/ SigSeesStop

DaemonNext == (\E s \in DaemonSignals : Signal(s)) \/ DaemonMainStep \/ SigStep

DaemonSpec == DaemonInit /\ [][DaemonNext]_daemonVars

\* The service ends when it has been asked to, and may serve for ever when it
\* has not.
DaemonMainGoesOn == DaemonMainStep /\ (daemonMain = "serving" => served.asked = "yes")

-----------------------------------------------------------------------------
(* Properties *)

\* In a build that joins, the thread of the handler is over when the handler
\* and the process are: it is waited for, whichever way main leaves.  (Where
\* nothing joins, the handler is deleted under its thread.)
\* (UnixDaemonMain.cpp:252-335, ThdThread.cpp:131)
HandlerInUse ==
  (joinsSignals /\ sigThread \notin {"none", "ended"} /\ daemonMain # "killed")
    => handlerThere /\ daemonMain # "exited"

\* As long as nobody asked the service to stop, its handler listens, and no
\* signal is left where no thread will ever take it; after a stop() that said
\* no, nothing can stop it.  (UnixSignalHandler.cpp:56-95)
SignalsHeard ==
  (sigThread = "ended" \/ (pendingSignals # {} /\ sigThread \notin {"none", "created"}))
    => served.asked # "no"

\* A service that agreed to stop while it served, or that remembers what it
\* was asked before, ends, and the process with it; a stop that comes before
\* start() is lost on any other.  (UnixSignalHandler.cpp:75-81,
\* UnixDaemonMain.cpp:310-319)
StopEnds ==
  (/\ sigThread = "awaiting"
   /\ \/ daemonMain = "serving" /\ served.asked = "yes"
      \/ daemonMain = "starting" /\ remembers)
    ~> Gone

\* A daemon listens until it was asked to stop, and its handler outlives the
\* thread that uses it where the build joins that thread.
DaemonSafe == DaemonTypeOK /\ HandlerInUse /\ SignalsHeard
=============================================================================
