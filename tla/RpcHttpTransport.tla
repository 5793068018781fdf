-------------------------- MODULE RpcHttpTransport --------------------------
(***************************************************************************)
(* RpcHttpTransport (src/src/rpc/http/RpcHttpTransport.cpp), its server    *)
(* side: one listener thread, myWorkerFunction, which parks between a stop *)
(* and the next start, and control(), which a caller runs to start, stop   *)
(* and shut it down.  They meet in four manual-reset events, the status    *)
(* and the listening socket.  Each access to one of those is a step; what  *)
(* touches nothing shared belongs to the step before it.                   *)
(*                                                                         *)
(* control() is not reentrant and nobody calls it twice at a time: the     *)
(* server's owner does, and when it is done the destructor.  Of the client *)
(* side, sendRequest, only the posts that are pending matter here: a       *)
(* shutdown waits for their sends.  RpcClient takes the calls apart.       *)
(***************************************************************************)
EXTENDS Naturals, FiniteSets

CONSTANTS
  Requests,  \* the connections clients make, each for one request
  Silent,    \* those whose client sends nothing and does not hang up
  NoRequest

ASSUME TransportAssumption ==
  /\ IsFiniteSet(Requests)
  /\ Silent \subseteq Requests
  /\ NoRequest \notin Requests

VARIABLES
  tState,       \* _state
  shuttingDown, \* _shuttingDown
  trigger,      \* _triggerEvent is signalled, and so on
  startedEv,
  stoppedEv,
  shutdownEv,
  listening,    \* the status of _listener is STATUS_LISTENING
  listener,     \* where the listener thread is
  current,      \* the connection it works on, NoRequest between two
  conn,         \* where each connection is
  posts,        \* _pendingServer
  answers,      \* how many responses were sent on each connection
  ctl,          \* where the caller of control is
  cmd,          \* what it was asked for
  res,          \* what it returned last
  freed         \* the transport is destroyed

tVars == <<tState, shuttingDown, trigger, startedEv, stoppedEv, shutdownEv,
           listening, listener, current, conn, posts, answers, ctl, cmd, res, freed>>

TransportStates == {"Initted", "Stopped", "Started", "StopPending", "Error", "Shutdown"}

(***************************************************************************)
(* The listener thread                                                     *)
(* top         at the head of the loop of myWorkerFunction                 *)
(* stopped     about to signal _stoppedEvent                               *)
(* parked      waiting for _triggerEvent                                   *)
(* triggered   about to look at _shuttingDown                              *)
(* opening     in _listener.listen                                         *)
(* failed      set keRpcError, about to signal _startedEvent               *)
(* started     set keRpcStarted, about to signal _startedEvent             *)
(* accepting   in _listener.accept                                         *)
(* reading     in readRequest                                              *)
(* adding      before addPost                                              *)
(* queuing     before queueMessage of the server                           *)
(* exiting     behind the loop                                             *)
(* down        set keRpcShutdown, about to signal _shutdownEvent           *)
(* notifying   in that signal, behind the flag                             *)
(* gone                                                                    *)
(* none        the pool could not make the thread                          *)
(***************************************************************************)
ListenerPcs ==
  {"none", "top", "stopped", "parked", "triggered", "opening", "failed", "started",
   "accepting", "reading", "adding", "queuing", "exiting", "down", "notifying", "gone"}

(***************************************************************************)
(* A caller of control                                                     *)
(* none          no call                                                   *)
(* entered       before it reads the status                                *)
(* start1..start3    before _startedEvent.reset, _triggerEvent.signal and  *)
(*               behind them, in the wait                                  *)
(* stop1..stop5  before _stoppedEvent.reset, _triggerEvent.reset,          *)
(*               setStatus, _listener.close and in the wait                *)
(* shut1..shut5  before setShuttingDown, _shutdownEvent.reset,             *)
(*               _triggerEvent.reset, _triggerEvent.signal and in the wait *)
(* abort         before abortAllPosts                                      *)
(* abortClients  in abortAllClientPosts                                    *)
(***************************************************************************)
CtlPcs ==
  {"none", "entered", "start1", "start2", "start3", "stop1", "stop2", "stop3", "stop4",
   "stop5", "shut1", "shut2", "shut3", "shut4", "shut5", "abort",
   "abortClients"}

Commands == {"Start", "Stop", "Shutdown"}

TransportTypeOK ==
  /\ tState \in TransportStates
  /\ {shuttingDown, trigger, startedEv, stoppedEv, shutdownEv, listening, res, freed}
       \subseteq BOOLEAN
  /\ listener \in ListenerPcs
  /\ current \in Requests \cup {NoRequest}
  /\ conn \in [Requests -> {"none", "waiting", "accepted", "closed"}]
  /\ posts \subseteq Requests
  /\ answers \in [Requests -> 0..2]
  /\ ctl \in CtlPcs
  /\ cmd \in Commands

\* init() reset the two events and asked the pool for the listener thread; whether
\* there is one it does not ask.
TransportInit ==
  /\ tState = "Initted"
  /\ shuttingDown = FALSE
  /\ trigger = FALSE
  /\ startedEv = FALSE
  /\ stoppedEv = FALSE
  /\ shutdownEv = FALSE
  /\ listening = FALSE
  /\ listener \in {"top", "none"}
  /\ current = NoRequest
  /\ conn = [r \in Requests |-> "none"]
  /\ posts = {}
  /\ answers = [r \in Requests |-> 0]
  /\ ctl = "none"
  /\ cmd = "Start"
  /\ res = FALSE
  /\ freed = FALSE

eventVars == <<trigger, startedEv, stoppedEv, shutdownEv>>
postVars == <<conn, posts, answers>>
ctlVars == <<ctl, cmd, res>>

\* setStatus: nothing comes after keRpcShutdown.
SetStatus(s) == tState' = IF tState = "Shutdown" THEN tState ELSE s

Answer(rs) == answers' = [r \in Requests |-> answers[r] + IF r \in rs THEN 1 ELSE 0]

ListenerMove(from, to) ==
  /\ listener = from
  /\ listener' = to

-----------------------------------------------------------------------------
(* A client connects; the kernel queues the connection.                    *)

Connect(r) ==
  /\ listening
  /\ conn[r] = "none"
  /\ conn' = [conn EXCEPT ![r] = "waiting"]
  /\ UNCHANGED <<tState, shuttingDown, eventVars, listening, listener, current, posts,
                 answers, ctlVars, freed>>

-----------------------------------------------------------------------------
(* myWorkerFunction *)

ReportStopped ==
  /\ ListenerMove("top", "stopped")
  /\ SetStatus("Stopped")
  /\ UNCHANGED <<shuttingDown, eventVars, listening, current, postVars, ctlVars, freed>>

SignalStopped ==
  /\ ListenerMove("stopped", "parked")
  /\ stoppedEv' = TRUE
  /\ UNCHANGED <<tState, shuttingDown, trigger, startedEv, shutdownEv, listening, current,
                 postVars, ctlVars, freed>>

Triggered ==
  /\ trigger
  /\ ListenerMove("parked", "triggered")
  /\ UNCHANGED <<tState, shuttingDown, eventVars, listening, current, postVars, ctlVars,
                 freed>>

CheckShuttingDown ==
  /\ ListenerMove("triggered", IF shuttingDown THEN "exiting" ELSE "opening")
  /\ UNCHANGED <<tState, shuttingDown, eventVars, listening, current, postVars, ctlVars,
                 freed>>

\* _listener.listen and the status that goes with its result.
ListenOk ==
  /\ ListenerMove("opening", "started")
  /\ listening' = TRUE
  /\ SetStatus("Started")
  /\ UNCHANGED <<shuttingDown, eventVars, current, postVars, ctlVars, freed>>

ListenFails ==
  /\ ListenerMove("opening", "failed")
  /\ SetStatus("Error")
  /\ UNCHANGED <<shuttingDown, eventVars, listening, current, postVars, ctlVars, freed>>

SignalStarted ==
  /\ \/ ListenerMove("started", "accepting")
     \/ ListenerMove("failed", "exiting")
  /\ startedEv' = TRUE
  /\ UNCHANGED <<tState, shuttingDown, trigger, stoppedEv, shutdownEv, listening, current,
                 postVars, ctlVars, freed>>

ReportShutdown ==
  /\ ListenerMove("exiting", "down")
  /\ tState' = "Shutdown"
  /\ UNCHANGED <<shuttingDown, eventVars, listening, current, postVars, ctlVars, freed>>

\* The flag ends the wait of control; the notification touches the event again.
SignalShutdown ==
  /\ ListenerMove("down", "notifying")
  /\ shutdownEv' = TRUE
  /\ UNCHANGED <<tState, shuttingDown, trigger, startedEv, stoppedEv, listening, current,
                 postVars, ctlVars, freed>>

NotifyShutdown ==
  /\ ListenerMove("notifying", "gone")
  /\ UNCHANGED <<tState, shuttingDown, eventVars, listening, current, postVars, ctlVars,
                 freed>>

-----------------------------------------------------------------------------
(* processRequest *)

Accept(r) ==
  /\ listening
  /\ conn[r] = "waiting"
  /\ ListenerMove("accepting", "reading")
  /\ current' = r
  /\ conn' = [conn EXCEPT ![r] = "accepted"]
  /\ UNCHANGED <<tState, shuttingDown, eventVars, listening, posts, answers, ctlVars, freed>>

\* accept returned NULL.  When it did and no stop is pending, or after a passing
\* error, it is called again.
AcceptClosed ==
  /\ ~listening
  /\ tState = "StopPending"
  /\ ListenerMove("accepting", "top")
  /\ UNCHANGED <<tState, shuttingDown, eventVars, listening, current, postVars, ctlVars,
                 freed>>

\* An error is answered and the connection closed with the post; so it is,
\* unanswered, for a message that is no request.  The client may have hung up.
ReadRefused ==
  /\ current \notin Silent
  /\ ListenerMove("reading", "accepting")
  /\ \E told \in {{}, {current}} : Answer(told)
  /\ conn' = [conn EXCEPT ![current] = "closed"]
  /\ current' = NoRequest
  /\ UNCHANGED <<tState, shuttingDown, eventVars, listening, posts, ctlVars, freed>>

ReadRequest ==
  /\ current \notin Silent
  /\ ListenerMove("reading", "adding")
  /\ UNCHANGED <<tState, shuttingDown, eventVars, listening, current, postVars, ctlVars,
                 freed>>

AddPost ==
  /\ ListenerMove("adding", "queuing")
  /\ posts' = posts \cup {current}
  /\ UNCHANGED <<tState, shuttingDown, eventVars, listening, current, conn, answers,
                 ctlVars, freed>>

\* Behind queueMessage, whose result is not looked at.
Queued ==
  /\ ListenerMove("queuing", "accepting")
  /\ current' = NoRequest
  /\ UNCHANGED <<tState, shuttingDown, eventVars, listening, postVars, ctlVars, freed>>

-----------------------------------------------------------------------------
(* sendResponse, called by a thread of the server *)

\* Mutant: the post stays in the map until it is answered.
RemovePostLate(r) == UNCHANGED posts

RemovePost(r) == posts' = posts \ {r}

\* The status of a send that fails is logged.
Respond(r) ==
  /\ Answer({r})
  /\ conn' = [conn EXCEPT ![r] = "closed"]

-----------------------------------------------------------------------------
(* control, by whoever calls it.  The server's part says when and by whom. *)

Call(c) ==
  /\ ctl = "none"
  /\ ctl' = "entered"
  /\ cmd' = c

CtlMove(from, to) ==
  /\ ctl = from
  /\ ctl' = to

CtlReturn(from, r) ==
  /\ CtlMove(from, "none")
  /\ res' = r

CtlEnter ==
  /\ \/ /\ cmd = "Start" /\ tState \in {"Initted", "Stopped", "StopPending"}
        /\ CtlMove("entered", "start1")
        /\ UNCHANGED res
     \/ /\ cmd # "Start" /\ tState = "Started"
        /\ CtlMove("entered", "stop1")
        /\ UNCHANGED res
     \/ /\ cmd = "Shutdown" /\ tState \in {"Initted", "Stopped", "StopPending"}
        /\ CtlMove("entered", "shut1")
        /\ UNCHANGED res
     \/ /\ \/ tState \in {"Error", "Shutdown"}
           \/ cmd = "Start" /\ tState = "Started"
           \/ cmd = "Stop" /\ tState # "Started"
        /\ CtlReturn("entered", FALSE)
  /\ UNCHANGED <<tState, shuttingDown, eventVars, listening, listener, current, postVars,
                 cmd, freed>>

\* Mutant: _startedEvent is reset behind the trigger.
CtlStartSignalFirst ==
  /\ \/ CtlMove("start1", "start2") /\ trigger' = TRUE /\ UNCHANGED startedEv
     \/ CtlMove("start2", "start3") /\ startedEv' = FALSE /\ UNCHANGED trigger
  /\ UNCHANGED <<tState, shuttingDown, stoppedEv, shutdownEv, listening, listener, current,
                 postVars, cmd, res, freed>>

CtlStart ==
  /\ \/ CtlMove("start1", "start2") /\ startedEv' = FALSE /\ UNCHANGED trigger
     \/ CtlMove("start2", "start3") /\ trigger' = TRUE /\ UNCHANGED startedEv
  /\ UNCHANGED <<tState, shuttingDown, stoppedEv, shutdownEv, listening, listener, current,
                 postVars, cmd, res, freed>>

CtlStarted ==
  /\ startedEv
  /\ CtlReturn("start3", TRUE)
  /\ UNCHANGED <<tState, shuttingDown, eventVars, listening, listener, current, postVars,
                 cmd, freed>>

\* Closing the socket resets the connections nobody accepted yet.
CloseListener ==
  /\ listening' = FALSE
  /\ conn' = [r \in Requests |-> IF conn[r] = "waiting" THEN "closed" ELSE conn[r]]

\* Mutant: _stoppedEvent still stands from the last stop.
CtlStopStale ==
  /\ \/ /\ CtlMove("stop1", "stop3")
        /\ trigger' = FALSE
        /\ UNCHANGED <<stoppedEv, tState, listening, conn>>
     \/ /\ CtlMove("stop3", "stop4")
        /\ SetStatus("StopPending")
        /\ UNCHANGED <<trigger, stoppedEv, listening, conn>>
     \/ /\ CtlMove("stop4", "stop5")
        /\ CloseListener
        /\ UNCHANGED <<trigger, stoppedEv, tState>>
  /\ UNCHANGED <<shuttingDown, startedEv, shutdownEv, listener, current, posts, answers, cmd,
                 res, freed>>

CtlStop ==
  /\ \/ /\ CtlMove("stop1", "stop2")
        /\ stoppedEv' = FALSE
        /\ UNCHANGED <<trigger, tState, listening, conn>>
     \/ /\ CtlMove("stop2", "stop3")
        /\ trigger' = FALSE
        /\ UNCHANGED <<stoppedEv, tState, listening, conn>>
     \/ /\ CtlMove("stop3", "stop4")
        /\ SetStatus("StopPending")
        /\ UNCHANGED <<trigger, stoppedEv, listening, conn>>
     \/ /\ CtlMove("stop4", "stop5")
        /\ CloseListener
        /\ UNCHANGED <<trigger, stoppedEv, tState>>
  /\ UNCHANGED <<shuttingDown, startedEv, shutdownEv, listener, current, posts, answers, cmd,
                 res, freed>>

\* A stop returns here, a shutdown goes on.
CtlStopped ==
  /\ stoppedEv
  /\ \/ cmd = "Stop" /\ CtlReturn("stop5", TRUE)
     \/ cmd = "Shutdown" /\ CtlMove("stop5", "shut1") /\ UNCHANGED res
  /\ UNCHANGED <<tState, shuttingDown, eventVars, listening, listener, current, postVars,
                 cmd, freed>>

CtlShutdown ==
  /\ \/ /\ CtlMove("shut1", "shut2")
        /\ shuttingDown' = TRUE
        /\ UNCHANGED <<trigger, shutdownEv>>
     \/ /\ CtlMove("shut2", "shut3")
        /\ shutdownEv' = FALSE
        /\ UNCHANGED <<shuttingDown, trigger>>
     \/ /\ CtlMove("shut3", "shut4")
        /\ trigger' = FALSE
        /\ UNCHANGED <<shuttingDown, shutdownEv>>
     \/ /\ CtlMove("shut4", "shut5")
        /\ trigger' = TRUE
        /\ UNCHANGED <<shuttingDown, shutdownEv>>
  /\ UNCHANGED <<tState, startedEv, stoppedEv, listening, listener, current, postVars, cmd,
                 res, freed>>

\* Mutant: the caller does not wait for the listener to leave.
CtlShutdownUnwaited ==
  /\ CtlMove("shut5", "abort")
  /\ UNCHANGED <<tState, shuttingDown, eventVars, listening, listener, current, postVars,
                 cmd, res, freed>>

CtlShutdownDone ==
  /\ shutdownEv
  /\ CtlMove("shut5", "abort")
  /\ UNCHANGED <<tState, shuttingDown, eventVars, listening, listener, current, postVars,
                 cmd, res, freed>>

\* abortAllPosts empties the map under _guard and then answers what was in it.
AbortAllPosts ==
  /\ CtlMove("abort", "abortClients")
  /\ posts' = {}
  /\ Answer(posts)
  /\ conn' = [r \in Requests |-> IF r \in posts THEN "closed" ELSE conn[r]]
  /\ UNCHANGED <<tState, shuttingDown, eventVars, listening, listener, current, cmd, res,
                 freed>>

\* abortAllClientPosts of what is in _pendingClient: abortSend waits for m_sendMutex
\* of each, without a timeout and with _guard held.
AbortAllClientPosts(pendingClient) ==
  /\ pendingClient = {}
  /\ CtlReturn("abortClients", TRUE)
  /\ UNCHANGED <<tState, shuttingDown, eventVars, listening, listener, current, postVars,
                 cmd, freed>>

Control(pendingClient) ==
  \/ CtlEnter
  \/ CtlStart \/ CtlStarted
  \/ CtlStop \/ CtlStopped
  \/ CtlShutdown \/ CtlShutdownDone
  \/ AbortAllPosts
  \/ AbortAllClientPosts(pendingClient)

\* What the listener does on its own: all but Queued, which goes with the
\* queue of the server.
Listener ==
  \/ ReportStopped \/ SignalStopped \/ Triggered \/ CheckShuttingDown
  \/ ListenOk \/ ListenFails \/ SignalStarted
  \/ ReportShutdown \/ SignalShutdown \/ NotifyShutdown
  \/ AcceptClosed \/ ReadRefused \/ ReadRequest \/ AddPost
  \/ \E r \in Requests : Accept(r)
=============================================================================
