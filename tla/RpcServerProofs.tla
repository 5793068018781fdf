--------------------------- MODULE RpcServerProofs ---------------------------
(***************************************************************************)
(* Proofs about RpcServer, for any requests, workers and number of starts. *)
(*                                                                         *)
(* AnsweredOnce needs to know who owes the answer to a request: a worker,  *)
(* the map of pending posts or the listener, and never two of them.        *)
(* StoppedIsQuiet needs to know, for each place of the owner in start and  *)
(* stop, how far the listener can be and which events can be up.           *)
(* DestroyedIsQuiet goes on from there: the destructor finds the listener  *)
(* parked, or gone after an error, and then leaves the transport alone;    *)
(* and it finds no client call, as a call holds the transport.             *)
(***************************************************************************)
EXTENDS RpcServer, TLAPS

-----------------------------------------------------------------------------
(* AnsweredOnce: who owes the answer to a request *)

\* It has not been accepted yet.
Fresh(r) == conn[r] \in {"none", "waiting"}

\* The listener works on it and has not passed it on.
Reading(r) == current = r /\ listener \in {"reading", "adding"}

\* Worker w took it out of _pendingServer, to answer it.
Sending(w, r) == worker[w] = "sending" /\ held[w] = r

Unanswered(r) == answers[r] = 0 /\ \A w \in Workers : ~Sending(w, r)

\* Only one of them owes the answer, and a request that is answered is owed by
\* nobody.
AnswerInv ==
  /\ DOMAIN conn = Requests
  /\ DOMAIN worker = Workers
  /\ DOMAIN held = Workers
  /\ \A r \in Requests :
       /\ answers[r] \in {0, 1}
       /\ Fresh(r) => Unanswered(r) /\ ~Reading(r) /\ r \notin posts
       /\ Reading(r) => Unanswered(r) /\ r \notin posts
       /\ r \in posts => Unanswered(r)
       /\ \A w \in Workers :
            Sending(w, r) =>
              answers[r] = 0 /\ \A v \in Workers : Sending(v, r) => v = w

LEMMA AnswerInit == Init => AnswerInv
  BY DEF Init, TransportInit, AnswerInv, Fresh, Reading, Sending, Unanswered

\* A step that answers nothing and moves no duty keeps the invariant.
LEMMA AnswerKept ==
  ASSUME AnswerInv, UNCHANGED <<answers, posts>>,
         DOMAIN conn' = Requests, DOMAIN worker' = Workers, DOMAIN held' = Workers,
         \A r \in Requests : Fresh(r)' => Fresh(r),
         \A r \in Requests : Reading(r)' => Reading(r),
         \A r \in Requests, w \in Workers : Sending(w, r)' => Sending(w, r)
  PROVE  AnswerInv'
  <1> USE DEF AnswerInv, Unanswered
  <1> QED
    BY DEF AnswerInv, Unanswered

LEMMA AnswerListener ==
  ASSUME AnswerInv, Listener \/ Queued, UNCHANGED <<worker, held>>
  PROVE  AnswerInv'
  <1>1. ASSUME NEW r \in Requests, Accept(r) PROVE AnswerInv'
    BY <1>1 DEF Accept, ListenerMove, AnswerInv, Fresh, Reading, Sending, Unanswered, ctlVars,
                eventVars
  <1>2. CASE ReadRefused
    BY <1>2 DEF ReadRefused, Answer, ListenerMove, AnswerInv, Fresh, Reading, Sending,
                Unanswered
  <1>3. CASE AddPost
    BY <1>3 DEF AddPost, ListenerMove, AnswerInv, Fresh, Reading, Sending, Unanswered
  <1>4. CASE ReadRequest \/ AcceptClosed \/ Queued
    <2>1. UNCHANGED <<answers, posts, conn, worker, held>>
      BY <1>4 DEF ReadRequest, AcceptClosed, Queued, postVars
    <2>2. \A r \in Requests : Reading(r)' => Reading(r)
      BY <1>4 DEF ReadRequest, AcceptClosed, Queued, ListenerMove, Reading
    <2>3. QED
      BY <2>1, <2>2, AnswerKept DEF AnswerInv, Fresh, Sending
  <1>5. CASE \/ ReportStopped \/ SignalStopped \/ Triggered \/ CheckShuttingDown
             \/ ListenOk \/ ListenFails \/ SignalStarted
             \/ ReportShutdown \/ SignalShutdown \/ NotifyShutdown
    <2>1. UNCHANGED <<answers, posts, conn, worker, held>>
      BY <1>5
      DEF ReportStopped, SignalStopped, Triggered, CheckShuttingDown, ListenOk, ListenFails,
          SignalStarted, ReportShutdown, SignalShutdown, NotifyShutdown, postVars
    <2>2. listener' \notin {"reading", "adding"}
      BY <1>5
      DEF ReportStopped, SignalStopped, Triggered, CheckShuttingDown, ListenOk, ListenFails,
          SignalStarted, ReportShutdown, SignalShutdown, NotifyShutdown, ListenerMove
    <2>3. QED
      BY <2>1, <2>2, AnswerKept DEF AnswerInv, Fresh, Reading, Sending
  <1>6. QED
    BY <1>1, <1>2, <1>3, <1>4, <1>5 DEF Listener

LEMMA AnswerControl ==
  ASSUME AnswerInv, NEW P, Control(P), UNCHANGED <<worker, held>>
  PROVE  AnswerInv'
  <1>1. CASE AbortAllPosts
    BY <1>1 DEF AbortAllPosts, Answer, AnswerInv, Fresh, Reading, Sending, Unanswered
  <1>2. CASE CtlStop
    <2>1. /\ UNCHANGED <<answers, posts, worker, held, listener, current>>
          /\ conn' = conn \/ conn' = [r \in Requests |-> IF conn[r] = "waiting" THEN "closed"
                                                         ELSE conn[r]]
      BY <1>2 DEF CtlStop, CloseListener
    <2>2. QED
      BY <2>1, AnswerKept DEF AnswerInv, Fresh, Reading, Sending
  <1>3. CASE \/ CtlEnter \/ CtlStart \/ CtlStarted \/ CtlStopped
             \/ CtlShutdown \/ CtlShutdownDone \/ AbortAllClientPosts(P)
    <2>1. UNCHANGED <<answers, posts, conn, worker, held, listener, current>>
      BY <1>3 DEF CtlEnter, CtlStart, CtlStarted, CtlStopped, CtlShutdown, CtlShutdownDone,
                  AbortAllClientPosts, postVars
    <2>2. QED
      BY <2>1, AnswerKept DEF AnswerInv, Fresh, Reading, Sending
  <1>4. QED
    BY <1>1, <1>2, <1>3 DEF Control

LEMMA DestroyFrame ==
  Destroy => UNCHANGED <<answers, posts, conn, listener, current, listening, shuttingDown>>
  BY DEF Destroy, CallControl, Call, postVars, tVars

OwnerStep == OwnerStart \/ OwnerStop \/ OwnerShutdown \/ OwnerContinues

LEMMA AnswerOwner == ASSUME AnswerInv, OwnerStep PROVE AnswerInv'
  <1>1. UNCHANGED <<answers, posts, conn, worker, held, listener, current>>
    BY DestroyFrame
    DEF OwnerStep, OwnerContinues, OwnerStart, OwnerStop, OwnerShutdown, OwnerStarted,
        OwnerReady, OwnerStopped, OwnerSetsStopped, OwnerDown, OwnerClear, OwnerErase,
        OwnerDestroyed, OwnerUnset, OwnerDone, CallControl, Freed, postVars, tVars
  <1>2. QED
    BY <1>1, AnswerKept DEF AnswerInv, Fresh, Reading, Sending

LEMMA AnswerWorker ==
  ASSUME AnswerInv, NEW w \in Workers, Worker(w)
  PROVE  AnswerInv'
  <1>1. CASE WorkerRemovePost(w)
    <2>1. /\ UNCHANGED <<answers, conn, held, listener, current>>
          /\ posts' = posts \ {held[w]}
          /\ DOMAIN worker' = Workers
      BY <1>1 DEF WorkerRemovePost, RemovePost, WorkerMove, AnswerInv
    <2>2. \A r \in Requests, v \in Workers :
            Sending(v, r)' => Sending(v, r) \/ (v = w /\ r = held[w] /\ r \in posts)
      <3>1. /\ DOMAIN worker = Workers /\ held' = held
            /\ worker' = [worker EXCEPT ![w] = IF held[w] \in posts THEN "sending"
                                                ELSE "letting go"]
        BY <1>1 DEF WorkerRemovePost, WorkerMove, AnswerInv
      <3>2. \A v \in Workers : v # w => worker'[v] = worker[v]
        BY <3>1
      <3>3. worker'[w] = "sending" => held[w] \in posts
        BY <3>1
      <3>4. QED
        BY <3>1, <3>2, <3>3 DEF Sending
    <2>3. ASSUME NEW r \in Requests
          PROVE  /\ Fresh(r)' => Unanswered(r)' /\ ~Reading(r)' /\ r \notin posts'
                 /\ Reading(r)' => Unanswered(r)' /\ r \notin posts'
                 /\ r \in posts' => Unanswered(r)'
      BY <2>1, <2>2 DEF AnswerInv, Fresh, Reading, Unanswered
    <2>4. ASSUME NEW r \in Requests, NEW v \in Workers, Sending(v, r)'
          PROVE  answers'[r] = 0 /\ \A u \in Workers : Sending(u, r)' => u = v
      BY <2>1, <2>2, <2>4 DEF AnswerInv, Unanswered
    <2>5. QED
      BY <2>1, <2>3, <2>4 DEF AnswerInv
  <1>2. CASE WorkerSend(w)
    <2>1. /\ UNCHANGED <<posts, held, listener, current>>
          /\ conn' = [conn EXCEPT ![held[w]] = "closed"]
          /\ DOMAIN worker' = Workers
      BY <1>2 DEF WorkerSend, Respond, WorkerMove, AnswerInv
    <2>2. \A r \in Requests :
            answers'[r] = answers[r] + IF r = held[w] THEN 1 ELSE 0
      BY <1>2 DEF WorkerSend, Respond, Answer
    <2>3. /\ \A r \in Requests, v \in Workers : Sending(v, r)' => Sending(v, r) /\ v # w
          /\ Sending(w, held[w])
      BY <1>2 DEF WorkerSend, WorkerMove, AnswerInv, Sending
    <2>4. /\ DOMAIN conn' = Requests
          /\ \A r \in Requests : Fresh(r)' => Fresh(r) /\ r # held[w]
      BY <2>1 DEF AnswerInv, Fresh
    <2>5. ASSUME NEW r \in Requests
          PROVE  /\ answers'[r] \in {0, 1}
                 /\ Fresh(r)' => Unanswered(r)' /\ ~Reading(r)' /\ r \notin posts'
                 /\ Reading(r)' => Unanswered(r)' /\ r \notin posts'
                 /\ r \in posts' => Unanswered(r)'
      <3>1. CASE r = held[w]
        BY <2>1, <2>2, <2>3, <2>4, <3>1 DEF AnswerInv, Reading, Unanswered
      <3>2. CASE r # held[w]
        BY <2>1, <2>2, <2>3, <2>4, <3>2 DEF AnswerInv, Reading, Unanswered
      <3>3. QED
        BY <3>1, <3>2
    <2>6. ASSUME NEW r \in Requests, NEW v \in Workers, Sending(v, r)'
          PROVE  answers'[r] = 0 /\ \A u \in Workers : Sending(u, r)' => u = v
      BY <2>1, <2>2, <2>3, <2>6 DEF AnswerInv
    <2>7. QED
      BY <2>1, <2>4, <2>5, <2>6 DEF AnswerInv
  <1>3. CASE \/ WorkerTake(w) \/ WorkerExit(w) \/ WorkerGetTransport(w) \/ WorkerParse(w)
             \/ WorkerDispatch(w) \/ WorkerLetGo(w) \/ WorkerDestroyed(w)
    <2>1. UNCHANGED <<answers, posts, conn, listener, current>>
      BY <1>3, DestroyFrame
      DEF WorkerTake, WorkerExit, WorkerGetTransport, WorkerParse, WorkerDispatch, WorkerLetGo,
          WorkerDestroyed, Freed, postVars, tVars
    <2>2. PICK to \in WorkerPcs \ {"sending"} : worker' = [worker EXCEPT ![w] = to]
      BY <1>3
      DEF WorkerTake, WorkerExit, WorkerGetTransport, WorkerParse, WorkerDispatch, WorkerLetGo,
          WorkerDestroyed, WorkerMove, WorkerPcs
    <2>3. held' = held \/ \E r : held' = [held EXCEPT ![w] = r]
      BY <1>3
      DEF WorkerTake, WorkerExit, WorkerGetTransport, WorkerParse, WorkerDispatch, WorkerLetGo,
          WorkerDestroyed
    <2>4. \A r \in Requests, v \in Workers : Sending(v, r)' => Sending(v, r)
      BY <2>2, <2>3 DEF Sending, AnswerInv
    <2>5. DOMAIN worker' = Workers /\ DOMAIN held' = Workers
      BY <2>2, <2>3 DEF AnswerInv
    <2>6. QED
      BY <2>1, <2>4, <2>5, AnswerKept DEF AnswerInv, Fresh, Reading
  <1>4. QED
    BY <1>1, <1>2, <1>3 DEF Worker

LEMMA AnswerCaller ==
  ASSUME AnswerInv, NEW c \in Callers, Caller(c)
  PROVE  AnswerInv'
  <1>1. UNCHANGED <<answers, posts, conn, worker, held, listener, current>>
    BY DestroyFrame
    DEF Caller, CallerGetTransport, CallerUnanswered, CallerLetsGo, CallerDestroyed,
        CallerMove, Freed, postVars, tVars
  <1>2. QED
    BY <1>1, AnswerKept DEF AnswerInv, Fresh, Reading, Sending

LEMMA AnswerStep == AnswerInv /\ [Next]_vars => AnswerInv'
  <1> SUFFICES ASSUME AnswerInv, [Next]_vars PROVE AnswerInv'
    OBVIOUS
  <1>1. CASE OwnerStep
    BY <1>1, AnswerOwner
  <1>2. CASE Control(PendingClient) /\ UNCHANGED sVars
    BY <1>2, AnswerControl DEF sVars
  <1>3. CASE (Listener /\ UNCHANGED sVars) \/ ListenerQueues
    BY <1>3, AnswerListener DEF sVars, ListenerQueues
  <1>4. ASSUME NEW r \in Requests, Connect(r), UNCHANGED sVars PROVE AnswerInv'
    <2>1. UNCHANGED <<answers, posts, worker, held, listener, current>>
      BY <1>4 DEF Connect, sVars
    <2>2. conn' = [conn EXCEPT ![r] = "waiting"] /\ conn[r] = "none"
      BY <1>4 DEF Connect
    <2>3. QED
      BY <2>1, <2>2, AnswerKept DEF AnswerInv, Fresh, Reading, Sending
  <1>5. ASSUME NEW w \in Workers, Worker(w) PROVE AnswerInv'
    BY <1>5, AnswerWorker
  <1>c. ASSUME NEW c \in Callers, Caller(c) PROVE AnswerInv'
    BY <1>c, AnswerCaller
  <1>6. CASE UNCHANGED vars
    <2>1. UNCHANGED <<answers, posts, conn, worker, held, listener, current>>
      BY <1>6 DEF vars, tVars, sVars
    <2>2. QED
      BY <2>1, AnswerKept DEF AnswerInv, Fresh, Reading, Sending
  <1>7. QED
    BY <1>1, <1>2, <1>3, <1>4, <1>5, <1>c, <1>6 DEF Next, OwnerStep

\* No request is answered twice, whatever workers, listener, stops and the
\* shutdown do, for any requests and workers.  (RpcHttpTransport.cpp:453-468,
\* 727-747)
THEOREM RpcAnsweredOnce == Spec => []AnsweredOnce
  <1>1. AnswerInv => AnsweredOnce
    BY DEF AnswerInv, AnsweredOnce
  <1>2. QED
    BY <1>1, AnswerInit, AnswerStep, PTL DEF Spec

-----------------------------------------------------------------------------
(* StoppedIsQuiet: where the listener is while the owner goes on *)

\* The transport is still in the map, and nobody but the owner calls control.
Early == owner \notin {"destroying", "unsetting", "leaving", "done"}

Stopping == owner \in {"stopping", "lastStopping"}

\* The listener left the socket or has not got to it yet.
Off == ~listening /\ current = NoRequest /\ ~shuttingDown

\* It is on its way to the trigger, or there, or there is none.
Parking ==
  /\ Off
  /\ listener \in {"none", "top", "stopped", "parked"}
  /\ tState \in {"Initted", "Stopped"}

Parked == Parking /\ listener = "parked" /\ ~trigger

\* It was triggered and goes to the socket.
Opening ==
  /\ Off
  /\ listener \in {"triggered", "opening"}
  /\ tState \in {"Initted", "Stopped"}

Serves == listener \in {"started", "accepting", "reading", "adding", "queuing"}

Serving == Serves /\ tState = "Started" /\ listening /\ ~shuttingDown

\* It could not open the socket.
Broken ==
  /\ listener \in {"failed", "exiting", "down", "notifying", "gone"}
  /\ tState \in {"Error", "Shutdown"}

\* A start: until _triggerEvent is signalled the listener stays where it was
\* parked, and _startedEvent is up only when the listener has come through.
StartPhase ==
  /\ owner = "starting"
  /\ \/ ctl \in {"entered", "start1"} /\ cmd = "Start" /\ Parking /\ ~trigger
     \/ ctl = "start2" /\ Parking /\ ~trigger /\ ~startedEv
     \/ ctl = "start3" /\ (Parking \/ Opening) /\ ~startedEv
     \/ ctl = "start3" /\ (Serving \/ Broken)
     \/ ctl = "none" /\ res /\ (Serving \/ Broken)

\* A stop: the listener goes from the socket to the trigger, which is down by
\* then, and _stoppedEvent is up only when it is there.
StopCall(pc) == ctl = pc /\ cmd = "Stop" /\ sState = "Started"

Leaving ==
  /\ ~shuttingDown /\ ~listening /\ ~trigger
  /\ \/ Serves /\ tState = "StopPending" /\ ~stoppedEv
     \/ listener = "top" /\ Off /\ tState = "StopPending" /\ ~stoppedEv
     \/ listener = "stopped" /\ Off /\ tState = "Stopped" /\ ~stoppedEv
     \/ Parked

StopPhase ==
  /\ Stopping
  /\ \/ StopCall("entered") /\ (Serving \/ Broken)
     \/ StopCall("stop1") /\ Serving
     \/ StopCall("stop2") /\ Serving /\ ~stoppedEv
     \/ StopCall("stop3") /\ Serving /\ ~stoppedEv /\ ~trigger
     \/ /\ StopCall("stop4")
        /\ Serves /\ tState = "StopPending" /\ listening /\ ~shuttingDown
        /\ ~stoppedEv /\ ~trigger
     \/ StopCall("stop5") /\ Leaving
     \/ ctl = "none" /\ res /\ Parked
     \/ ctl = "none" /\ ~res /\ sState = "Started" /\ Broken

QuietPhase ==
  \/ owner = "init" /\ ctl = "none" /\ Parking /\ ~trigger /\ sState = "Initted"
  \/ StartPhase
  \/ owner = "started" /\ ctl = "none" /\ (Serving \/ Broken)
  \/ owner = "up" /\ ctl = "none" /\ sState = "Started" /\ (Serving \/ Broken)
  \/ StopPhase
  \/ owner \in {"stopped", "lastStopped"} /\ ctl = "none" /\ Parked
  \/ owner = "up" /\ ctl = "none" /\ sState = "Stopped" /\ Parked
  \/ owner \in {"closing", "clearing", "erasing"} /\ ctl = "none"

\* Accepted connections are the business of the listener at the socket only.
CurrentOk == current # NoRequest => listener \in {"reading", "adding", "queuing"}

QuietInv ==
  /\ inMap <=> Early
  /\ CurrentOk
  /\ Early => QuietPhase

LEMMA QuietInit == Init => QuietInv
  BY DEF Init, TransportInit, QuietInv, Early, CurrentOk, QuietPhase, Parking, Off

quietVars == <<inMap, owner, sState, ctl, cmd, res, listener, current, listening, shuttingDown,
               tState, trigger, startedEv, stoppedEv>>

LEMMA QuietKept == QuietInv /\ UNCHANGED quietVars => QuietInv'
  BY DEF QuietInv, Early, CurrentOk, QuietPhase, StartPhase, StopPhase, Stopping, StopCall,
         Leaving, Parked, Parking, Opening, Serving, Serves, Broken, Off, quietVars

\* When the transport is no longer in the map, only CurrentOk is left to show.
LEMMA QuietLate ==
  ASSUME QuietInv, ~inMap, UNCHANGED <<inMap, owner>>, CurrentOk'
  PROVE  QuietInv'
  BY DEF QuietInv, Early

-----------------------------------------------------------------------------

LEMMA QuietWorker ==
  ASSUME QuietInv, NEW w \in Workers, Worker(w)
  PROVE  QuietInv'
  <1>1. CASE WorkerLetGo(w)
    <2>1. CASE inMap
      <3>1. UNCHANGED quietVars
        BY <1>1, <2>1 DEF WorkerLetGo, quietVars, tVars
      <3>2. QED
        BY <3>1, QuietKept
    <2>2. CASE ~inMap
      <3>1. UNCHANGED <<inMap, owner, listener, current>>
        BY <1>1, DestroyFrame DEF WorkerLetGo, tVars
      <3>2. QED
        BY <2>2, <3>1, QuietLate DEF QuietInv, CurrentOk
    <2>3. QED
      BY <2>1, <2>2
  <1>2. CASE \/ WorkerTake(w) \/ WorkerExit(w) \/ WorkerGetTransport(w) \/ WorkerParse(w)
             \/ WorkerDispatch(w) \/ WorkerRemovePost(w) \/ WorkerSend(w)
             \/ WorkerDestroyed(w)
    <2>1. UNCHANGED quietVars
      BY <1>2
      DEF WorkerTake, WorkerExit, WorkerGetTransport, WorkerParse, WorkerDispatch,
          WorkerRemovePost, WorkerSend, WorkerDestroyed, Freed, quietVars, tVars, eventVars,
          ctlVars
    <2>2. QED
      BY <2>1, QuietKept
  <1>3. QED
    BY <1>1, <1>2 DEF Worker

LEMMA QuietCaller ==
  ASSUME QuietInv, NEW c \in Callers, Caller(c)
  PROVE  QuietInv'
  <1>1. CASE ~inMap /\ CallerLetsGo(c)
    <2>1. UNCHANGED <<inMap, owner, listener, current>>
      BY <1>1, DestroyFrame DEF CallerLetsGo, CallerMove, tVars
    <2>2. QED
      BY <1>1, <2>1, QuietLate DEF QuietInv, CurrentOk
  <1>2. CASE ~(~inMap /\ CallerLetsGo(c))
    <2>1. UNCHANGED quietVars
      BY <1>2
      DEF Caller, CallerGetTransport, CallerUnanswered, CallerLetsGo, CallerDestroyed,
          CallerMove, Freed, quietVars, tVars, eventVars, ctlVars
    <2>2. QED
      BY <2>1, QuietKept
  <1>3. QED
    BY <1>1, <1>2

LEMMA QuietOwner == ASSUME QuietInv, OwnerStep PROVE QuietInv'
  <1> USE DEF QuietInv, Early, QuietPhase, CurrentOk
  <1>1. CASE OwnerStart
    BY <1>1
    DEF OwnerStart, CallControl, Call, eventVars, StartPhase, StopPhase, Stopping, Parked,
        Parking, Off
  <1>2. CASE OwnerStarted \/ OwnerReady
    BY <1>2
    DEF OwnerStarted, OwnerReady, OwnerMove, tVars, StartPhase, StopPhase, Stopping, Serving,
        Serves, Broken
  <1>3. CASE OwnerStop
    BY <1>3
    DEF OwnerStop, OwnerMove, CallControl, Call, eventVars, StartPhase, StopPhase, StopCall,
        Stopping, Serving, Serves, Broken
  <1>4. CASE OwnerStopped
    BY <1>4
    DEF OwnerStopped, OwnerMove, tVars, StartPhase, StopPhase, StopCall, Stopping, Serving,
        Serves, Broken, Parked, Parking, Off
  <1>5. CASE OwnerSetsStopped
    BY <1>5
    DEF OwnerSetsStopped, OwnerMove, tVars, StartPhase, StopPhase, Stopping, Parked, Parking,
        Off
  <1>6. CASE OwnerShutdown \/ OwnerDown
    BY <1>6 DEF OwnerShutdown, OwnerDown, OwnerMove, tVars, StartPhase, StopPhase, Stopping
  <1>7. CASE OwnerClear \/ OwnerErase
    BY <1>7, DestroyFrame
    DEF OwnerClear, OwnerErase, OwnerMove, tVars, StartPhase, StopPhase, Stopping
  <1>8. CASE OwnerDestroyed \/ OwnerUnset \/ OwnerDone
    BY <1>8 DEF OwnerDestroyed, OwnerUnset, OwnerDone, OwnerMove, Freed, tVars
  <1>9. QED
    BY <1>1, <1>2, <1>3, <1>4, <1>5, <1>6, <1>7, <1>8 DEF OwnerStep, OwnerContinues

LEMMA QuietControl ==
  ASSUME QuietInv, NEW P, Control(P), UNCHANGED sVars
  PROVE  QuietInv'
  <1>1. UNCHANGED <<inMap, owner, sState, listener, current>>
    BY DEF Control, CtlEnter, CtlStart, CtlStarted, CtlStop, CtlStopped, CtlShutdown,
           CtlShutdownDone, AbortAllPosts, AbortAllClientPosts, sVars
  <1>2. CASE ~inMap
    BY <1>1, <1>2, QuietLate DEF QuietInv, CurrentOk
  <1>3. CASE inMap
    <2> SUFFICES QuietPhase'
      BY <1>1 DEF QuietInv, Early, CurrentOk
    <2>1. QuietPhase /\ ctl # "none" /\ CurrentOk
      BY <1>3
      DEF QuietInv, Control, CtlEnter, CtlStart, CtlStarted, CtlStop, CtlStopped, CtlShutdown,
          CtlShutdownDone, AbortAllPosts, AbortAllClientPosts, CtlMove, CtlReturn
    <2>2. CASE StartPhase
      <3>1. CASE CtlEnter \/ CtlStart \/ CtlStarted
        BY <1>1, <2>1, <2>2, <3>1
        DEF CtlEnter, CtlStart, CtlStarted, CtlMove, CtlReturn, eventVars, StartPhase,
            QuietPhase, Parking, Opening, Serving, Serves, Broken, Off
      <3>2. CASE \/ CtlStop \/ CtlStopped \/ CtlShutdown \/ CtlShutdownDone
                 \/ AbortAllPosts \/ AbortAllClientPosts(P)
        BY <2>1, <2>2, <3>2
        DEF CtlStop, CtlStopped, CtlShutdown, CtlShutdownDone, AbortAllPosts,
            AbortAllClientPosts, CtlMove, CtlReturn, StartPhase
      <3>3. QED
        BY <3>1, <3>2 DEF Control
    <2>3. CASE StopPhase
      <3>1. CASE CtlEnter
        BY <1>1, <2>1, <2>3, <3>1
        DEF CtlEnter, CtlMove, CtlReturn, eventVars, StopPhase, StopCall, Stopping, QuietPhase,
            Serving, Serves, Broken
      <3>2. CASE CtlStop
        BY <1>1, <2>1, <2>3, <3>2
        DEF CtlStop, CtlMove, SetStatus, CloseListener, StopPhase, StopCall, Stopping,
            QuietPhase, Serving, Serves, Leaving
      <3>3. CASE CtlStopped
        BY <1>1, <2>1, <2>3, <3>3
        DEF CtlStopped, CtlMove, CtlReturn, eventVars, StopPhase, StopCall, Stopping,
            QuietPhase, Leaving, Parked, Parking, Off
      <3>4. CASE \/ CtlStart \/ CtlStarted \/ CtlShutdown \/ CtlShutdownDone
                 \/ AbortAllPosts \/ AbortAllClientPosts(P)
        BY <2>1, <2>3, <3>4
        DEF CtlStart, CtlStarted, CtlShutdown, CtlShutdownDone, AbortAllPosts,
            AbortAllClientPosts, CtlMove, CtlReturn, StopPhase, StopCall
      <3>5. QED
        BY <3>1, <3>2, <3>3, <3>4 DEF Control
    <2>4. QED
      BY <2>1, <2>2, <2>3 DEF QuietPhase
  <1>4. QED
    BY <1>2, <1>3

LEMMA QuietListener ==
  ASSUME QuietInv, Listener \/ Queued, UNCHANGED <<inMap, owner, sState>>
  PROVE  QuietInv'
  <1>c. CurrentOk'
    BY DEF QuietInv, CurrentOk, Listener, Queued, ReportStopped, SignalStopped, Triggered,
           CheckShuttingDown, ListenOk, ListenFails, SignalStarted, ReportShutdown,
           SignalShutdown, NotifyShutdown, AcceptClosed, ReadRefused, ReadRequest, AddPost,
           Accept, ListenerMove
  <1>f. UNCHANGED <<inMap, owner, sState, ctl, cmd, res, shuttingDown>>
    BY DEF Listener, Queued, ReportStopped, SignalStopped, Triggered,
           CheckShuttingDown, ListenOk, ListenFails, SignalStarted, ReportShutdown,
           SignalShutdown, NotifyShutdown, AcceptClosed, ReadRefused, ReadRequest, AddPost,
           Accept, ctlVars
  <1>l. CASE ~inMap
    BY <1>c, <1>f, <1>l, QuietLate
  <1> SUFFICES ASSUME inMap, Early, QuietPhase, CurrentOk PROVE QuietPhase'
    BY <1>c, <1>f, <1>l DEF QuietInv, Early
  <1> USE <1>f
      DEF ListenerMove, QuietPhase, StartPhase, StopPhase, Stopping, StopCall, Leaving, Parked,
          Parking, Opening, Serving, Serves, Broken, Off
  <1>1. CASE ReportStopped
    BY <1>1 DEF ReportStopped, SetStatus, eventVars
  <1>2. CASE SignalStopped
    BY <1>2 DEF SignalStopped
  <1>3. CASE Triggered \/ CheckShuttingDown
    BY <1>3 DEF Triggered, CheckShuttingDown, eventVars
  <1>4. CASE ListenOk
    BY <1>4 DEF ListenOk, SetStatus, eventVars
  <1>5. CASE ListenFails
    BY <1>5 DEF ListenFails, SetStatus, eventVars
  <1>6. CASE SignalStarted
    BY <1>6 DEF SignalStarted
  <1>7. CASE ReportShutdown \/ SignalShutdown \/ NotifyShutdown
    BY <1>7 DEF ReportShutdown, SignalShutdown, NotifyShutdown, eventVars
  <1>8. CASE AcceptClosed
    BY <1>8 DEF AcceptClosed, eventVars, CurrentOk
  <1>9. CASE ReadRefused \/ ReadRequest \/ AddPost \/ Queued
    BY <1>9 DEF ReadRefused, ReadRequest, AddPost, Queued, eventVars
  <1>10. ASSUME NEW r \in Requests, Accept(r) PROVE QuietPhase'
    BY <1>10 DEF Accept, eventVars
  <1>11. QED
    BY <1>1, <1>2, <1>3, <1>4, <1>5, <1>6, <1>7, <1>8, <1>9, <1>10 DEF Listener

LEMMA QuietStep == QuietInv /\ [Next]_vars => QuietInv'
  <1> SUFFICES ASSUME QuietInv, [Next]_vars PROVE QuietInv'
    OBVIOUS
  <1>1. CASE OwnerStep
    BY <1>1, QuietOwner
  <1>2. CASE Control(PendingClient) /\ UNCHANGED sVars
    BY <1>2, QuietControl
  <1>3. CASE (Listener /\ UNCHANGED sVars) \/ ListenerQueues
    BY <1>3, QuietListener DEF sVars, ListenerQueues
  <1>4. ASSUME NEW r \in Requests, Connect(r), UNCHANGED sVars PROVE QuietInv'
    BY <1>4, QuietKept DEF Connect, sVars, quietVars, eventVars, ctlVars
  <1>5. ASSUME NEW w \in Workers, Worker(w) PROVE QuietInv'
    BY <1>5, QuietWorker
  <1>c. ASSUME NEW c \in Callers, Caller(c) PROVE QuietInv'
    BY <1>c, QuietCaller
  <1>6. CASE UNCHANGED vars
    BY <1>6, QuietKept DEF vars, tVars, sVars, quietVars
  <1>7. QED
    BY <1>1, <1>2, <1>3, <1>4, <1>5, <1>c, <1>6 DEF Next, OwnerStep

\* When stop has returned, the listener has left the socket and is parked, on
\* whatever connections and however often the server was started before.
\* (RpcHttpTransport.cpp:263-289, 667-674)
THEOREM RpcStoppedIsQuiet == Spec => []StoppedIsQuiet
  <1>1. QuietInv => StoppedIsQuiet
    BY DEF QuietInv, Early, QuietPhase, StartPhase, StopPhase, Stopping, Parked, Parking, Off,
           StoppedIsQuiet
  <1>2. QED
    BY <1>1, QuietInit, QuietStep, PTL DEF Spec
-----------------------------------------------------------------------------
(* DestroyedIsQuiet: what shutdown leaves for the destructor *)

\* Nobody is in the destructor, or was.
Undestroyed ==
  /\ ~freed
  /\ owner # "destroying"
  /\ \A w \in Workers : worker[w] # "destroying"
  /\ \A c \in Callers : caller[c] # "destroying"

\* The listener is parked while the destructor tells it to leave.
Doomed ==
  /\ shuttingDown /\ ~trigger /\ current = NoRequest
  /\ listener = "parked"

\* It was told, and has not signalled that it does.
Ending ==
  /\ shuttingDown /\ current = NoRequest /\ ~shutdownEv
  /\ listener \in {"parked", "triggered", "exiting", "down"}
  /\ listener = "down" => tState = "Shutdown"

Over ==
  /\ shuttingDown /\ current = NoRequest
  /\ listener \in {"notifying", "gone"}
  /\ tState = "Shutdown"

\* The destructor's call of control, and what it leaves.
ShutPhase ==
  /\ cmd = "Shutdown"
  /\ ctl # "none" => ~freed
  /\ \/ ctl \in {"entered", "shut1"} /\ Parked
     \/ ctl = "shut2" /\ Doomed
     \/ ctl \in {"shut3", "shut4"} /\ Doomed /\ ~shutdownEv
     \/ ctl = "shut5" /\ (Ending \/ Over)
     \/ ctl = "abort" /\ Over
     \/ ctl \in {"abortClients", "none"} /\ Over /\ posts = {}

\* The owner stopped the transport, or it failed to listen: then the destructor
\* leaves it alone.
LatePhase ==
  \/ ctl = "none" /\ ~shuttingDown /\ Broken
  \/ ctl = "none" /\ Undestroyed /\ Parked
  \/ ShutPhase

Serviced == Early /\ owner \notin {"closing", "clearing", "erasing"}

DestroyInv == IF Serviced THEN Undestroyed /\ ~shuttingDown ELSE LatePhase

\* The destructor runs when the map and everybody else let go of the transport, so
\* no call is pending.
HoldInv ==
  /\ DOMAIN caller = Callers
  /\ ctl # "none" /\ ~Serviced => ~inMap /\ Holders = {}

destroyVars == <<owner, freed, worker, caller, shuttingDown, ctl, cmd, listener, current, listening,
                 trigger, shutdownEv, tState, posts>>

LEMMA DestroyInit == Init => DestroyInv
  BY DEF Init, TransportInit, DestroyInv, Serviced, Early, Undestroyed

LEMMA DestroyKept == DestroyInv /\ UNCHANGED destroyVars => DestroyInv'
  BY DEF DestroyInv, Serviced, Early, LatePhase, Undestroyed, ShutPhase, Doomed, Ending, Over,
         Parked, Parking, Broken, Off, destroyVars

LEMMA HoldInit == Init => HoldInv
  BY DEF Init, TransportInit, HoldInv

\* Without the map, nobody gets hold of the transport any more.
LEMMA HoldKept ==
  ASSUME HoldInv, DOMAIN caller' = Callers,
         ctl' # "none" /\ ~Serviced' => ctl # "none" /\ ~Serviced,
         ~inMap => ~inMap' /\ Holders' \subseteq Holders
  PROVE  HoldInv'
  BY DEF HoldInv

\* Before, nobody tells the listener to leave.
LEMMA QuietEarly ==
  ASSUME QuietInv, Serviced
  PROVE  ctl \notin {"shut1", "shut2", "shut3", "shut4", "shut5", "abort", "abortClients"}
  BY DEF QuietInv, Serviced, Early, QuietPhase, StartPhase, StopPhase, StopCall

\* The destructor finds the transport stopped or broken, or runs for nothing.
LEMMA DestroyLate ==
  ASSUME LatePhase, ctl = "none", Destroy
  PROVE  \/ UNCHANGED tVars /\ ~shuttingDown /\ Broken
         \/ UNCHANGED tVars /\ ShutPhase
         \/ /\ UNCHANGED <<freed, shuttingDown, listener, current, listening, trigger, tState>>
            /\ ctl' = "entered" /\ cmd' = "Shutdown" /\ ~freed /\ Parked
  <1>1. CASE ~shuttingDown /\ Broken
    BY <1>1 DEF Destroy, Broken
  <1>2. CASE Undestroyed /\ Parked
    BY <1>2 DEF Destroy, CallControl, Call, Parked, Parking, Undestroyed, eventVars
  <1>3. CASE ShutPhase
    BY <1>3 DEF Destroy, ShutPhase, Over
  <1>4. QED
    BY <1>1, <1>2, <1>3 DEF LatePhase

LEMMA DestroyRuns ==
  ASSUME LatePhase, Destroy
  PROVE  LatePhase'
  <1>1. CASE ctl = "none"
    <2>1. CASE UNCHANGED tVars /\ ~shuttingDown /\ Broken
      BY <1>1, <2>1 DEF tVars, LatePhase, Broken
    <2>2. CASE UNCHANGED tVars /\ ShutPhase
      <3>1. ShutPhase'
        BY <2>2 DEF tVars, ShutPhase, Doomed, Ending, Over, Parked, Parking, Off
      <3>2. QED
        BY <3>1 DEF LatePhase
    <2>3. CASE /\ UNCHANGED <<freed, shuttingDown, listener, current, listening, trigger, tState>>
               /\ ctl' = "entered" /\ cmd' = "Shutdown" /\ ~freed /\ Parked
      BY <1>1, <2>3 DEF LatePhase, ShutPhase, Parked, Parking, Off, tVars
    <2>4. QED
      BY <1>1, <2>1, <2>2, <2>3, DestroyLate
  <1>2. CASE ctl # "none"
    <2>1. UNCHANGED tVars
      BY <1>2 DEF Destroy, CallControl, Call
    <2>2. ShutPhase
      BY <1>2 DEF LatePhase
    <2>3. ShutPhase'
      BY <2>1, <2>2 DEF tVars, ShutPhase, Doomed, Ending, Over, Parked, Parking, Off
    <2>4. QED
      BY <1>2, <2>3 DEF LatePhase
  <1>3. QED
    BY <1>1, <1>2

\* While nobody was in the destructor, a step that sends nobody there, and is
\* none of the transport's, leaves the phase as it was.
LEMMA LateKept ==
  ASSUME LatePhase,
         UNCHANGED <<freed, shuttingDown, ctl, cmd, listener, current, listening, trigger,
                     shutdownEv, tState>>,
         posts' \subseteq posts,
         Undestroyed => Undestroyed'
  PROVE  LatePhase'
  <1>1. CASE ctl = "none" /\ ~shuttingDown /\ Broken
    BY <1>1 DEF LatePhase, Broken
  <1>2. CASE ctl = "none" /\ Undestroyed /\ Parked
    BY <1>2 DEF LatePhase, Parked, Parking, Off
  <1>3. CASE ShutPhase
    BY <1>3 DEF LatePhase, ShutPhase, Doomed, Ending, Over, Parked, Parking, Off
  <1>4. QED
    BY <1>1, <1>2, <1>3 DEF LatePhase

LEMMA FreedKept ==
  ASSUME LatePhase, ~Undestroyed, Freed
  PROVE  LatePhase'
  <1>1. CASE ctl = "none" /\ ~shuttingDown /\ Broken
    BY <1>1 DEF Freed, LatePhase, Broken, eventVars, ctlVars
  <1>2. CASE ShutPhase
    BY <1>2 DEF Freed, LatePhase, ShutPhase, Over, eventVars, ctlVars, postVars
  <1>3. QED
    BY <1>1, <1>2 DEF LatePhase

LEMMA DestroyWorker ==
  ASSUME AnswerInv, QuietInv, DestroyInv, NEW w \in Workers, Worker(w)
  PROVE  DestroyInv'
  <1>d. DOMAIN worker = Workers
    BY DEF AnswerInv
  <1>1. CASE WorkerLetGo(w)
    <2>1. UNCHANGED <<owner, caller>>
      BY <1>1 DEF WorkerLetGo
    <2>2. CASE ~inMap /\ Holders = {w}
      <3>1. ~Serviced /\ ~Serviced'
        BY <2>1, <2>2 DEF QuietInv, Serviced, Early
      <3>2. Destroy
        BY <1>1, <2>2 DEF WorkerLetGo
      <3>3. QED
        BY <3>1, <3>2, DestroyRuns DEF DestroyInv
    <2>3. CASE ~(~inMap /\ Holders = {w})
      <3>1. UNCHANGED tVars /\ worker' = [worker EXCEPT ![w] = "waiting"]
        BY <1>1, <2>3 DEF WorkerLetGo, WorkerMove
      <3>2. Undestroyed => Undestroyed'
        BY <1>d, <2>1, <3>1 DEF Undestroyed, tVars
      <3>3. LatePhase => LatePhase'
        BY <3>1, <3>2, LateKept DEF tVars
      <3>4. QED
        BY <2>1, <3>1, <3>2, <3>3 DEF DestroyInv, Serviced, Early, tVars
    <2>4. QED
      BY <2>2, <2>3
  <1>2. CASE WorkerDestroyed(w)
    <2>1. ~Undestroyed /\ Freed /\ UNCHANGED owner
      BY <1>2 DEF WorkerDestroyed, WorkerMove, Undestroyed
    <2>2. QED
      BY <2>1, FreedKept DEF DestroyInv, Serviced, Early
  <1>3. CASE \/ WorkerTake(w) \/ WorkerExit(w) \/ WorkerGetTransport(w) \/ WorkerParse(w)
             \/ WorkerDispatch(w) \/ WorkerRemovePost(w) \/ WorkerSend(w)
    <2>1. /\ UNCHANGED <<owner, freed, shuttingDown, ctl, cmd, listener, current, listening,
                         trigger, shutdownEv, tState>>
          /\ posts' \subseteq posts
      BY <1>3
      DEF WorkerTake, WorkerExit, WorkerGetTransport, WorkerParse, WorkerDispatch,
          WorkerRemovePost, RemovePost, WorkerSend, tVars, eventVars, ctlVars
    <2>2. PICK to \in WorkerPcs \ {"destroying"} : worker' = [worker EXCEPT ![w] = to]
      BY <1>3
      DEF WorkerTake, WorkerExit, WorkerGetTransport, WorkerParse, WorkerDispatch,
          WorkerRemovePost, WorkerSend, WorkerMove, WorkerPcs
    <2>c. UNCHANGED caller
      BY <1>3
      DEF WorkerTake, WorkerExit, WorkerGetTransport, WorkerParse, WorkerDispatch,
          WorkerRemovePost, WorkerSend
    <2>3. Undestroyed => Undestroyed'
      BY <1>d, <2>1, <2>2, <2>c DEF Undestroyed
    <2>4. LatePhase => LatePhase'
      BY <2>1, <2>3, LateKept
    <2>5. QED
      BY <2>1, <2>3, <2>4 DEF DestroyInv, Serviced, Early
  <1>4. QED
    BY <1>1, <1>2, <1>3 DEF Worker

LEMMA DestroyCaller ==
  ASSUME HoldInv, QuietInv, DestroyInv, NEW c \in Callers, Caller(c)
  PROVE  DestroyInv'
  <1>d. DOMAIN caller = Callers
    BY DEF HoldInv
  <1>f. UNCHANGED <<owner, worker>>
    BY DEF Caller, CallerGetTransport, CallerUnanswered, CallerLetsGo, CallerDestroyed,
           CallerMove
  <1>1. CASE CallerLetsGo(c) /\ ~inMap /\ Holders = {c}
    <2>1. ~Serviced /\ ~Serviced' /\ Destroy
      BY <1>1, <1>f DEF QuietInv, Serviced, Early, CallerLetsGo
    <2>2. QED
      BY <2>1, DestroyRuns DEF DestroyInv
  <1>2. CASE CallerDestroyed(c)
    <2>1. ~Undestroyed /\ Freed
      BY <1>2 DEF CallerDestroyed, CallerMove, Undestroyed
    <2>2. QED
      BY <1>f, <2>1, FreedKept DEF DestroyInv, Serviced, Early
  <1>3. CASE ~CallerDestroyed(c) /\ ~(CallerLetsGo(c) /\ ~inMap /\ Holders = {c})
    <2>1. UNCHANGED tVars
      BY <1>3 DEF Caller, CallerGetTransport, CallerUnanswered, CallerLetsGo
    <2>2. PICK to \in CallerPcs \ {"destroying"} : caller' = [caller EXCEPT ![c] = to]
      BY <1>3
      DEF Caller, CallerGetTransport, CallerUnanswered, CallerLetsGo, CallerMove, CallerPcs
    <2>3. Undestroyed => Undestroyed'
      BY <1>d, <1>f, <2>1, <2>2 DEF Undestroyed, tVars
    <2>4. LatePhase => LatePhase'
      BY <2>1, <2>3, LateKept DEF tVars
    <2>5. QED
      BY <1>f, <2>1, <2>3, <2>4 DEF DestroyInv, Serviced, Early, tVars
  <1>4. QED
    BY <1>1, <1>2, <1>3 DEF Caller

LEMMA DestroyOwner ==
  ASSUME QuietInv, DestroyInv, OwnerStep
  PROVE  DestroyInv'
  <1>1. CASE OwnerStart \/ OwnerStarted \/ OwnerReady
    BY <1>1
    DEF OwnerStart, OwnerStarted, OwnerReady, OwnerMove, CallControl, Call, tVars,
        DestroyInv, Serviced, Early, Undestroyed
  <1>2. CASE OwnerStop
    BY <1>2
    DEF OwnerStop, OwnerMove, CallControl, Call, DestroyInv, Serviced, Early, Undestroyed
  <1>3. CASE OwnerStopped
    <2>1. CASE owner = "lastStopping" /\ ~res
      <3>1. Broken /\ ctl = "none" /\ ~shuttingDown
        BY <1>3, <2>1
        DEF OwnerStopped, QuietInv, Early, QuietPhase, StartPhase, StopPhase, StopCall,
            DestroyInv, Serviced, Parked, Parking
      <3>2. QED
        BY <1>3, <2>1, <3>1
        DEF OwnerStopped, OwnerMove, tVars, DestroyInv, Serviced, Early, LatePhase, Broken
    <2>2. CASE ~(owner = "lastStopping" /\ ~res)
      BY <1>3, <2>2
      DEF OwnerStopped, OwnerMove, tVars, DestroyInv, Serviced, Early, Undestroyed
    <2>3. QED
      BY <2>1, <2>2
  <1>4. CASE OwnerSetsStopped \/ OwnerShutdown
    <2>1. CASE owner = "stopped"
      BY <1>4, <2>1
      DEF OwnerSetsStopped, OwnerShutdown, OwnerMove, tVars, DestroyInv, Serviced, Early,
          Undestroyed
    <2>2. CASE owner # "stopped"
      <3>1. /\ Parked /\ ctl = "none" /\ Undestroyed /\ owner' = "closing"
            /\ UNCHANGED <<tVars, worker, caller>>
        BY <1>4, <2>2
        DEF OwnerSetsStopped, OwnerShutdown, OwnerMove, QuietInv, Early, QuietPhase, StartPhase,
            StopPhase, Stopping, DestroyInv, Serviced
      <3>2. QED
        BY <3>1
        DEF tVars, DestroyInv, Serviced, LatePhase, Undestroyed, Parked, Parking, Off
    <2>3. QED
      BY <2>1, <2>2
  <1>5. CASE OwnerDown \/ OwnerClear \/ OwnerUnset \/ OwnerDone
    <2>1. UNCHANGED <<tVars, worker, caller>> /\ ~Serviced /\ ~Serviced' /\ owner' # "destroying"
      BY <1>5 DEF OwnerDown, OwnerClear, OwnerUnset, OwnerDone, OwnerMove, Serviced, Early
    <2>2. QED
      BY <2>1, LateKept DEF DestroyInv, Undestroyed, tVars
  <1>6. CASE OwnerErase
    <2>1. ~Serviced /\ ~Serviced' /\ UNCHANGED <<worker, caller>>
      BY <1>6 DEF OwnerErase, OwnerMove, Serviced, Early
    <2>2. CASE Holders = {}
      BY <1>6, <2>1, <2>2, DestroyRuns DEF OwnerErase, DestroyInv
    <2>3. CASE Holders # {}
      <3>1. UNCHANGED tVars /\ owner' # "destroying"
        BY <1>6, <2>3 DEF OwnerErase, OwnerMove
      <3>2. QED
        BY <2>1, <3>1, LateKept DEF DestroyInv, Undestroyed, tVars
    <2>4. QED
      BY <2>2, <2>3
  <1>7. CASE OwnerDestroyed
    <2>1. ~Undestroyed /\ Freed /\ ~Serviced /\ ~Serviced'
      BY <1>7 DEF OwnerDestroyed, OwnerMove, Undestroyed, Serviced, Early
    <2>2. QED
      BY <2>1, FreedKept DEF DestroyInv
  <1>8. QED
    BY <1>1, <1>2, <1>3, <1>4, <1>5, <1>6, <1>7 DEF OwnerStep, OwnerContinues

LEMMA DestroyControl ==
  ASSUME QuietInv, DestroyInv, NEW P, Control(P), UNCHANGED sVars
  PROVE  DestroyInv'
  <1>1. UNCHANGED <<owner, worker, caller, freed, listener, current>> /\ ctl # "none"
    BY DEF Control, CtlEnter, CtlStart, CtlStarted, CtlStop, CtlStopped, CtlShutdown,
           CtlShutdownDone, AbortAllPosts, AbortAllClientPosts, CtlMove, CtlReturn, sVars
  <1>2. CASE Serviced
    <2>1. ctl \notin {"shut1", "shut2", "shut3", "shut4", "shut5", "abort", "abortClients"}
      BY <1>2, QuietEarly
    <2>2. UNCHANGED shuttingDown
      BY <2>1
      DEF Control, CtlEnter, CtlStart, CtlStarted, CtlStop, CtlStopped, CtlShutdown,
          CtlShutdownDone, AbortAllPosts, AbortAllClientPosts, CtlMove, CtlReturn
    <2>3. QED
      BY <1>1, <1>2, <2>2 DEF DestroyInv, Serviced, Early, Undestroyed
  <1>3. CASE ~Serviced
    <2>1. ShutPhase
      BY <1>1, <1>3 DEF DestroyInv, LatePhase
    <2> SUFFICES ShutPhase'
      BY <1>1, <1>3 DEF DestroyInv, LatePhase, Serviced, Early
    <2>2. CASE CtlEnter
      BY <1>1, <2>1, <2>2
      DEF CtlEnter, CtlMove, CtlReturn, eventVars, ShutPhase, Parked, Parking, Off
    <2>3. CASE CtlStart \/ CtlStarted \/ CtlStop \/ CtlStopped
      BY <2>1, <2>3
      DEF CtlStart, CtlStarted, CtlStop, CtlStopped, CtlMove, CtlReturn, ShutPhase
    <2>4. CASE CtlShutdown
      BY <1>1, <2>1, <2>4
      DEF CtlShutdown, CtlMove, ShutPhase, Doomed, Ending, Parked, Parking, Off
    <2>5. CASE CtlShutdownDone
      BY <1>1, <2>1, <2>5 DEF CtlShutdownDone, CtlMove, ShutPhase, Ending, Over
    <2>6. CASE AbortAllPosts
      BY <1>1, <2>1, <2>6 DEF AbortAllPosts, CtlMove, ShutPhase, Over
    <2>7. CASE AbortAllClientPosts(P)
      BY <1>1, <2>1, <2>7 DEF AbortAllClientPosts, CtlReturn, CtlMove, ShutPhase, Over, postVars
    <2>8. QED
      BY <2>2, <2>3, <2>4, <2>5, <2>6, <2>7 DEF Control
  <1>4. QED
    BY <1>2, <1>3

LEMMA DestroyListener ==
  ASSUME DestroyInv, Listener \/ Queued, UNCHANGED <<owner, worker, caller>>
  PROVE  DestroyInv'
  <1>1. UNCHANGED <<freed, ctl, cmd, shuttingDown>>
    BY DEF Listener, Queued, ReportStopped, SignalStopped, Triggered, CheckShuttingDown,
           ListenOk, ListenFails, SignalStarted, ReportShutdown, SignalShutdown, NotifyShutdown,
           AcceptClosed, ReadRefused, ReadRequest, AddPost, Accept, ctlVars
  <1>2. CASE Serviced
    BY <1>1, <1>2 DEF DestroyInv, Serviced, Early, Undestroyed
  <1>3. CASE ~Serviced
    <2> SUFFICES LatePhase'
      BY <1>3 DEF DestroyInv, Serviced, Early
    <2>0. LatePhase
      BY <1>3 DEF DestroyInv
    <2>1. ASSUME ~Triggered, ~CheckShuttingDown, ~SignalStarted, ~ReportShutdown,
                 ~SignalShutdown, ~NotifyShutdown
          PROVE  listener \in {"top", "stopped", "opening", "accepting", "reading", "adding",
                               "queuing"}
      BY <2>1
      DEF Listener, Queued, ReportStopped, SignalStopped, ListenOk, ListenFails, AcceptClosed,
          ReadRefused, ReadRequest, AddPost, Accept, ListenerMove
    <2>2. listener \in {"failed", "parked", "triggered", "exiting", "down", "notifying", "gone"}
      BY <2>0 DEF LatePhase, ShutPhase, Broken, Parked, Doomed, Ending, Over
    <2>3. CASE Triggered \/ CheckShuttingDown
      BY <1>1, <2>0, <2>3
      DEF Triggered, CheckShuttingDown, ListenerMove, LatePhase, ShutPhase, Broken, Parked,
          Doomed, Ending, Over, eventVars
    <2>4. CASE SignalStarted
      BY <1>1, <2>0, <2>4
      DEF SignalStarted, ListenerMove, LatePhase, ShutPhase, Broken, Parked, Doomed, Ending, Over
    <2>5. CASE ReportShutdown
      BY <1>1, <2>0, <2>5
      DEF ReportShutdown, ListenerMove, LatePhase, ShutPhase, Broken, Parked, Doomed, Ending,
          Over, eventVars
    <2>6. CASE SignalShutdown
      BY <1>1, <2>0, <2>6
      DEF SignalShutdown, ListenerMove, LatePhase, ShutPhase, Broken, Parked, Doomed, Ending, Over
    <2>7. CASE NotifyShutdown
      BY <1>1, <2>0, <2>7
      DEF NotifyShutdown, ListenerMove, LatePhase, ShutPhase, Broken, Parked, Doomed, Ending,
          Over, eventVars, postVars
    <2>8. QED
      BY <2>1, <2>2, <2>3, <2>4, <2>5, <2>6, <2>7
  <1>4. QED
    BY <1>2, <1>3

LEMMA DestroyStep ==
  AnswerInv /\ QuietInv /\ HoldInv /\ DestroyInv /\ [Next]_vars => DestroyInv'
  <1> SUFFICES ASSUME AnswerInv, QuietInv, HoldInv, DestroyInv, [Next]_vars PROVE DestroyInv'
    OBVIOUS
  <1>1. CASE OwnerStep
    BY <1>1, DestroyOwner
  <1>2. CASE Control(PendingClient) /\ UNCHANGED sVars
    BY <1>2, DestroyControl
  <1>3. CASE (Listener /\ UNCHANGED sVars) \/ ListenerQueues
    BY <1>3, DestroyListener DEF sVars, ListenerQueues
  <1>4. ASSUME NEW r \in Requests, Connect(r), UNCHANGED sVars PROVE DestroyInv'
    BY <1>4, DestroyKept DEF Connect, sVars, destroyVars, eventVars, ctlVars
  <1>5. ASSUME NEW w \in Workers, Worker(w) PROVE DestroyInv'
    BY <1>5, DestroyWorker
  <1>c. ASSUME NEW c \in Callers, Caller(c) PROVE DestroyInv'
    BY <1>c, DestroyCaller
  <1>6. CASE UNCHANGED vars
    BY <1>6, DestroyKept DEF vars, tVars, sVars, destroyVars
  <1>7. QED
    BY <1>1, <1>2, <1>3, <1>4, <1>5, <1>c, <1>6 DEF Next, OwnerStep

-----------------------------------------------------------------------------
(* No call is pending when the destructor runs                             *)

LEMMA HoldOwner == ASSUME QuietInv, HoldInv, OwnerStep PROVE HoldInv'
  <1>h. Holders' = Holders /\ DOMAIN caller' = Callers
    BY DEF OwnerStep, OwnerContinues, OwnerStart, OwnerStop, OwnerShutdown, OwnerStarted,
           OwnerReady, OwnerStopped, OwnerSetsStopped, OwnerDown, OwnerClear, OwnerErase,
           OwnerDestroyed, OwnerUnset, OwnerDone, Holders, PendingClient, HoldInv
  <1>1. CASE OwnerErase
    <2>1. CASE Holders = {}
      BY <1>1, <1>h, <2>1 DEF OwnerErase, HoldInv
    <2>2. CASE Holders # {}
      <3>1. ctl' = ctl /\ ctl = "none"
        BY <1>1, <2>2
        DEF OwnerErase, OwnerMove, tVars, QuietInv, Early, QuietPhase, StartPhase, StopPhase,
            Stopping
      <3>2. QED
        BY <1>h, <3>1 DEF HoldInv
    <2>3. QED
      BY <2>1, <2>2
  <1>2. CASE OwnerStart \/ OwnerStop
    <2>1. Serviced' /\ UNCHANGED inMap
      BY <1>2 DEF OwnerStart, OwnerStop, OwnerMove, Serviced, Early
    <2>2. QED
      BY <1>h, <2>1, HoldKept
  <1>3. CASE OwnerDestroyed
    <2>1. ctl' = "none"
      BY <1>3 DEF OwnerDestroyed, Freed, ctlVars
    <2>2. QED
      BY <1>h, <2>1 DEF HoldInv
  <1>4. CASE \/ OwnerShutdown \/ OwnerStarted \/ OwnerReady \/ OwnerStopped
             \/ OwnerSetsStopped \/ OwnerDown \/ OwnerClear \/ OwnerUnset \/ OwnerDone
    <2>1. UNCHANGED <<inMap, ctl>>
      BY <1>4 DEF OwnerShutdown, OwnerStarted, OwnerReady, OwnerStopped, OwnerSetsStopped,
                  OwnerDown, OwnerClear, OwnerUnset, OwnerDone, tVars
    <2>2. Serviced /\ ~Serviced' => ctl = "none"
      BY <1>4
      DEF OwnerShutdown, OwnerStarted, OwnerReady, OwnerStopped, OwnerSetsStopped, OwnerDown,
          OwnerClear, OwnerUnset, OwnerDone, OwnerMove, Serviced, Early, QuietInv, QuietPhase,
          StartPhase, StopPhase, Stopping
    <2>3. QED
      BY <1>h, <2>1, <2>2, HoldKept
  <1>5. QED
    BY <1>1, <1>2, <1>3, <1>4 DEF OwnerStep, OwnerContinues

LEMMA HoldWorker ==
  ASSUME AnswerInv, HoldInv, NEW w \in Workers, Worker(w)
  PROVE  HoldInv'
  <1>f. UNCHANGED <<owner, inMap, caller>>
    BY DEF Worker, WorkerTake, WorkerExit, WorkerGetTransport, WorkerParse, WorkerDispatch,
           WorkerRemovePost, WorkerSend, WorkerLetGo, WorkerDestroyed
  <1>p. PendingClient' = PendingClient /\ PendingClient \subseteq Callers
    BY <1>f DEF PendingClient
  <1>1. CASE WorkerLetGo(w) /\ ~inMap /\ Holders = {w}
    <2>1. PendingClient = {}
      BY <1>1, <1>p, ServerAssumption DEF Holders
    <2>2. worker' = [worker EXCEPT ![w] = "destroying"]
      BY <1>1 DEF WorkerLetGo, WorkerMove
    <2>3. Holders' = {}
      BY <1>1, <1>p, <2>1, <2>2 DEF Holders, AnswerInv
    <2>4. QED
      BY <1>1, <1>f, <2>3 DEF HoldInv
  <1>2. CASE ~(WorkerLetGo(w) /\ ~inMap /\ Holders = {w})
    <2>1. ctl' = ctl
      BY <1>2
      DEF Worker, WorkerTake, WorkerExit, WorkerGetTransport, WorkerParse, WorkerDispatch,
          WorkerRemovePost, WorkerSend, WorkerLetGo, WorkerDestroyed, Freed, tVars, ctlVars
    <2>2. \E to \in WorkerPcs :
            /\ worker' = [worker EXCEPT ![w] = to]
            /\ ~inMap /\ to \in {"parsing", "dispatching", "answering", "sending",
                                 "letting go", "crashed"} => w \in Holders
      BY DEF Worker, WorkerTake, WorkerExit, WorkerGetTransport, GetTransport, WorkerParse,
             WorkerDispatch, WorkerRemovePost, WorkerSend, WorkerLetGo, WorkerDestroyed,
             WorkerMove, WorkerPcs, Holders
    <2>3. ~inMap => Holders' \subseteq Holders
      BY <1>p, <2>2 DEF Holders, AnswerInv
    <2>4. QED
      BY <1>f, <2>1, <2>3, HoldKept DEF HoldInv, Serviced, Early
  <1>3. QED
    BY <1>1, <1>2

LEMMA HoldCaller ==
  ASSUME HoldInv, NEW c \in Callers, Caller(c)
  PROVE  HoldInv'
  <1>f. UNCHANGED <<owner, inMap, worker>>
    BY DEF Caller, CallerGetTransport, CallerUnanswered, CallerLetsGo, CallerDestroyed,
           CallerMove
  <1>c. DOMAIN caller = Callers /\ DOMAIN caller' = Callers
    BY DEF HoldInv, Caller, CallerGetTransport, CallerUnanswered, CallerLetsGo,
           CallerDestroyed, CallerMove
  <1>1. CASE CallerLetsGo(c) /\ ~inMap /\ Holders = {c}
    <2>1. caller' = [caller EXCEPT ![c] = "destroying"]
      BY <1>1 DEF CallerLetsGo, CallerMove
    <2>2. Holders' = {}
      BY <1>1, <1>f, <1>c, <2>1, ServerAssumption DEF Holders, PendingClient
    <2>3. QED
      BY <1>1, <1>f, <1>c, <2>2 DEF HoldInv
  <1>2. CASE ~(CallerLetsGo(c) /\ ~inMap /\ Holders = {c})
    <2>1. ctl' = ctl
      BY <1>2
      DEF Caller, CallerGetTransport, CallerUnanswered, CallerLetsGo, CallerDestroyed, Freed,
          tVars, ctlVars
    <2>2. \E to \in CallerPcs :
            /\ caller' = [caller EXCEPT ![c] = to]
            /\ ~inMap /\ to \in {"calling", "unanswered"} => c \in PendingClient
      BY DEF Caller, CallerGetTransport, GetTransport, CallerUnanswered, CallerLetsGo,
             CallerDestroyed, CallerMove, CallerPcs, PendingClient
    <2>3. ~inMap => PendingClient' \subseteq PendingClient
      BY <1>c, <2>2 DEF PendingClient
    <2>4. ~inMap => Holders' \subseteq Holders
      BY <1>f, <2>3 DEF Holders
    <2>5. QED
      BY <1>f, <1>c, <2>1, <2>4, HoldKept DEF Serviced, Early
  <1>3. QED
    BY <1>1, <1>2

LEMMA HoldStep == AnswerInv /\ QuietInv /\ HoldInv /\ [Next]_vars => HoldInv'
  <1> SUFFICES ASSUME AnswerInv, QuietInv, HoldInv, [Next]_vars PROVE HoldInv'
    OBVIOUS
  <1>1. CASE OwnerStep
    BY <1>1, HoldOwner
  <1>2. CASE Control(PendingClient) /\ UNCHANGED sVars
    <2>1. ctl # "none"
      BY <1>2
      DEF Control, CtlEnter, CtlStart, CtlStarted, CtlStop, CtlStopped, CtlShutdown,
          CtlShutdownDone, AbortAllPosts, AbortAllClientPosts, CtlMove, CtlReturn
    <2>2. QED
      BY <1>2, <2>1, HoldKept DEF sVars, HoldInv, Holders, PendingClient, Serviced, Early
  <1>3. CASE \/ (Listener /\ UNCHANGED sVars) \/ ListenerQueues \/ UNCHANGED vars
             \/ \E r \in Requests : Connect(r) /\ UNCHANGED sVars
    <2>1. UNCHANGED <<owner, inMap, worker, caller>>
      BY <1>3 DEF sVars, vars, ListenerQueues
    <2>2. UNCHANGED ctl
      BY <1>3
      DEF Listener, ListenerQueues, Queued, ReportStopped, SignalStopped, Triggered,
          CheckShuttingDown, ListenOk, ListenFails, SignalStarted, ReportShutdown,
          SignalShutdown, NotifyShutdown, AcceptClosed, ReadRefused, ReadRequest, AddPost,
          Accept, Connect, ctlVars, vars, tVars
    <2>3. QED
      BY <2>1, <2>2, HoldKept DEF HoldInv, Holders, PendingClient, Serviced, Early
  <1>4. ASSUME NEW w \in Workers, Worker(w) PROVE HoldInv'
    BY <1>4, HoldWorker
  <1>5. ASSUME NEW c \in Callers, Caller(c) PROVE HoldInv'
    BY <1>5, HoldCaller
  <1>6. QED
    BY <1>1, <1>2, <1>3, <1>4, <1>5 DEF Next, OwnerStep

\* When the transport was shut down and is destroyed, its listener uses nothing
\* of it but the event it is leaving, and no post is left; and the shutdown, which
\* would wait for a pending call, finds none; whichever of owner, workers and
\* callers ran the destructor.  (RpcHttpTransport.cpp:100-111, 293-324, 753-765)
THEOREM RpcDestroyedIsQuiet == Spec => []DestroyedIsQuiet
  <1>1. QuietInv /\ HoldInv /\ DestroyInv => DestroyedIsQuiet
    <2> SUFFICES ASSUME QuietInv, HoldInv, DestroyInv PROVE DestroyedIsQuiet
      OBVIOUS
    <2>1. freed /\ shuttingDown => listener \in {"notifying", "gone"} /\ posts = {}
      BY DEF DestroyInv, Undestroyed, LatePhase, Parked, Parking, Off, ShutPhase, Over
    <2>2. ctl = "abortClients" => PendingClient = {}
      BY QuietEarly DEF HoldInv, Holders
    <2>3. QED
      BY <2>1, <2>2 DEF DestroyedIsQuiet
  <1>2. QED
    BY <1>1, AnswerInit, AnswerStep, QuietInit, QuietStep, HoldInit, HoldStep, DestroyInit,
       DestroyStep, PTL
    DEF Spec
=============================================================================
