------------------------------ MODULE RpcServer ------------------------------
(***************************************************************************)
(* RpcServer (src/src/rpc/RpcServer.cpp) with the one transport there is,  *)
(* RpcHttpTransport.  Its owner calls init, which also starts it, then     *)
(* stop, start and at last shutdown, one at a time as their assertions     *)
(* demand; worker threads take messages from the queue, dispatch them and  *)
(* answer through the transport; the transport's listener queues them.     *)
(*                                                                         *)
(* The transport is reference counted: by the server's map, and by each    *)
(* worker from getTransport to the end of its turn.  Whoever lets go of it *)
(* last runs its destructor, and in it control(keShutdownCtl).             *)
(*                                                                         *)
(* The queue is the abstract one ThdQueue was shown to implement (see      *)
(* ClosableQueue).  Not modelled: addTransport and removeTransport after   *)
(* init, authenticators (authenticate starts from TRUE and asks none).     *)
(***************************************************************************)
EXTENDS RpcHttpTransport, Sequences, SequencesExt

CONSTANTS
  Workers,
  Callers,   \* the threads that call sendRequest, once each
  MaxStarts  \* bound: how often the owner starts the server

ASSUME ServerAssumption == MaxStarts \in Nat /\ Workers \cap Callers = {}

VARIABLES
  sState,     \* _state of the server
  owner,      \* where the owner is
  ready,      \* what the last start returned, until the next stop
  starts,     \* how often it was called
  queue,      \* _messageQueue
  down,       \* the queue is down
  dispatcher, \* _dispatcher is not NULL
  inMap,      \* _transports holds the transport
  worker,     \* where each worker is
  held,       \* the message it works on
  caller      \* where each caller is

sVars == <<sState, owner, ready, starts, queue, down, dispatcher, inMap, worker, held,
           caller>>
vars == <<tVars, sVars>>

(***************************************************************************)
(* The owner                                                               *)
(* init                    in init, the transport's init is done           *)
(* up                      between two calls                               *)
(* starting, stopping      in commandAll                                   *)
(* started, stopped        behind it, before setStatus                     *)
(* lastStopping,           likewise in the stop that shutdown calls        *)
(* lastStopped                                                             *)
(* closing                 before _messageQueue.down                       *)
(* clearing                before the block under _guard                   *)
(* erasing                 in it, in _transports.clear                     *)
(* destroying              in that, in the destructor of the transport     *)
(* unsetting               in it, before _dispatcher = NULL                *)
(* leaving                 before setStatus(keRpcShutdown)                 *)
(* done                                                                    *)
(***************************************************************************)
OwnerPcs ==
  {"init", "up", "starting", "stopping", "started", "stopped", "lastStopping",
   "lastStopped", "closing", "clearing", "erasing", "destroying", "unsetting", "leaving",
   "done"}

(***************************************************************************)
(* A worker                                                                *)
(* none         the pool could not make it                                 *)
(* waiting      in _messageQueue.remove                                    *)
(* taken        before getTransport                                        *)
(* parsing      before toDocument                                          *)
(* dispatching  in _dispatcher->dispatch                                   *)
(* answering    before removePost                                          *)
(* sending      removed the post, about to send the response               *)
(* letting go   at the end of its turn                                     *)
(* destroying   in the destructor of the transport                         *)
(* crashed      in dispatch without a dispatcher                           *)
(* lost         in getTransport, at an entry that is being erased          *)
(* exited                                                                  *)
(***************************************************************************)
WorkerPcs ==
  {"none", "waiting", "taken", "parsing", "dispatching", "answering", "sending",
   "letting go", "destroying", "crashed", "lost", "exited"}

(***************************************************************************)
(* A caller of sendRequest                                                 *)
(* calling      in sendRequest of the transport, whose reference it holds  *)
(* unanswered   there, and the remote server keeps the connection and says *)
(*              nothing, for good                                          *)
(* destroying, lost    like a worker                                       *)
(***************************************************************************)
CallerPcs == {"none", "calling", "unanswered", "destroying", "lost", "returned"}

TypeOK ==
  /\ TransportTypeOK
  /\ sState \in {"NoState", "Initted", "Started", "Stopped", "Shutdown"}
  /\ owner \in OwnerPcs
  /\ {ready, down, dispatcher, inMap} \subseteq BOOLEAN
  /\ starts \in 0..MaxStarts
  /\ queue \in BoundedSeq(Requests, Cardinality(Requests))
  /\ worker \in [Workers -> WorkerPcs]
  /\ held \in [Workers -> Requests \cup {NoRequest}]
  /\ caller \in [Callers -> CallerPcs]

\* init made the workers, as many as the pool could.
Init ==
  /\ TransportInit
  /\ sState = "Initted"
  /\ owner = "init"
  /\ ready = FALSE
  /\ starts = 0
  /\ queue = <<>>
  /\ down = FALSE
  /\ dispatcher = TRUE
  /\ inMap = TRUE
  /\ worker \in [Workers -> {"waiting", "none"}]
  /\ held = [w \in Workers |-> NoRequest]
  /\ caller = [c \in Callers |-> "none"]

OwnerMove(from, to) ==
  /\ owner = from
  /\ owner' = to

WorkerMove(w, from, to) ==
  /\ worker[w] = from
  /\ worker' = [worker EXCEPT ![w] = to]

\* Call leaves everything of the transport but the caller's place alone.
CallControl(c) ==
  /\ Call(c)
  /\ UNCHANGED <<tState, shuttingDown, eventVars, listening, listener, current,
                 postVars, res, freed>>

\* _pendingClient: the posts of the calls.
PendingClient == {c \in Callers : caller[c] \in {"calling", "unanswered"}}

Holders ==
  {w \in Workers : worker[w] \in {"parsing", "dispatching", "answering", "sending",
                                  "letting go", "crashed"}}
    \cup PendingClient

\* The destructor: it shuts the transport down in the states it names.
Destroy ==
  IF tState \in {"Started", "Stopped", "Initted"}
  THEN CallControl("Shutdown")
  ELSE UNCHANGED tVars

-----------------------------------------------------------------------------
(* init, start, stop, shutdown *)

\* The end of init is a start.
OwnerStart ==
  /\ \/ owner = "init"
     \/ owner = "up" /\ sState \in {"Initted", "Stopped"}
  /\ starts < MaxStarts
  /\ starts' = starts + 1
  /\ owner' = "starting"
  /\ CallControl("Start")
  /\ UNCHANGED <<sState, ready, queue, down, dispatcher, inMap, worker, held, caller>>

\* commandAll: the result is that of the one transport.
OwnerStarted ==
  /\ ctl = "none"
  /\ OwnerMove("starting", IF res THEN "started" ELSE "up")
  /\ UNCHANGED <<tVars, sState, ready, starts, queue, down, dispatcher, inMap, worker,
                 held, caller>>

OwnerReady ==
  /\ OwnerMove("started", "up")
  /\ sState' = "Started"
  /\ ready' = TRUE
  /\ UNCHANGED <<tVars, starts, queue, down, dispatcher, inMap, worker, held, caller>>

OwnerStop ==
  /\ sState = "Started"
  /\ \/ OwnerMove("up", "stopping")
     \/ OwnerMove("up", "lastStopping")
  /\ ready' = FALSE
  /\ CallControl("Stop")
  /\ UNCHANGED <<sState, starts, queue, down, dispatcher, inMap, worker, held, caller>>

OwnerStopped ==
  /\ ctl = "none"
  /\ \/ OwnerMove("stopping", IF res THEN "stopped" ELSE "up")
     \/ OwnerMove("lastStopping", IF res THEN "lastStopped" ELSE "closing")
  /\ UNCHANGED <<tVars, sState, ready, starts, queue, down, dispatcher, inMap, worker,
                 held, caller>>

OwnerSetsStopped ==
  /\ \/ OwnerMove("stopped", "up")
     \/ OwnerMove("lastStopped", "closing")
  /\ sState' = "Stopped"
  /\ UNCHANGED <<tVars, ready, starts, queue, down, dispatcher, inMap, worker, held,
                 caller>>

\* shutdown of a server that is not started; of one that is, see OwnerStop.
OwnerShutdown ==
  /\ sState # "Started"
  /\ OwnerMove("up", "closing")
  /\ UNCHANGED <<tVars, sState, ready, starts, queue, down, dispatcher, inMap, worker,
                 held, caller>>

OwnerDown ==
  /\ OwnerMove("closing", "clearing")
  /\ down' = TRUE
  /\ UNCHANGED <<tVars, sState, ready, starts, queue, dispatcher, inMap, worker, held,
                 caller>>

OwnerClear ==
  /\ OwnerMove("clearing", "erasing")
  /\ UNCHANGED <<tVars, sState, ready, starts, queue, down, dispatcher, inMap, worker,
                 held, caller>>

\* _transports.clear: the last reference may be this one.
OwnerErase ==
  /\ OwnerMove("erasing", IF Holders = {} THEN "destroying" ELSE "unsetting")
  /\ inMap' = FALSE
  /\ IF Holders = {} THEN Destroy ELSE UNCHANGED tVars
  /\ UNCHANGED <<sState, ready, starts, queue, down, dispatcher, worker, held, caller>>

\* The destructor is done; the members go with it.
Freed ==
  /\ ctl = "none"
  /\ freed' = TRUE
  /\ UNCHANGED <<tState, shuttingDown, eventVars, listening, listener, current,
                 postVars, ctlVars>>

OwnerDestroyed ==
  /\ OwnerMove("destroying", "unsetting")
  /\ Freed
  /\ UNCHANGED <<sState, ready, starts, queue, down, dispatcher, inMap, worker, held,
                 caller>>

OwnerUnset ==
  /\ OwnerMove("unsetting", "leaving")
  /\ dispatcher' = FALSE
  /\ UNCHANGED <<tVars, sState, ready, starts, queue, down, inMap, worker, held,
                 caller>>

OwnerDone ==
  /\ OwnerMove("leaving", "done")
  /\ sState' = "Shutdown"
  /\ UNCHANGED <<tVars, ready, starts, queue, down, dispatcher, inMap, worker, held,
                 caller>>

-----------------------------------------------------------------------------
(* queueMessage, by the listener: getStatus takes _guard, which shutdown   *)
(* holds while it destroys the transport.                                  *)

GuardHeld == owner \in {"erasing", "destroying", "unsetting"}

ListenerQueues ==
  /\ ~GuardHeld
  /\ Queued
  /\ queue' = IF sState = "Started" /\ ~down THEN Append(queue, current) ELSE queue
  /\ UNCHANGED <<sState, owner, ready, starts, down, dispatcher, inMap, worker, held,
                 caller>>

-----------------------------------------------------------------------------
(* doWork *)

WorkerTake(w) ==
  /\ ~down
  /\ queue # <<>>
  /\ WorkerMove(w, "waiting", "taken")
  /\ held' = [held EXCEPT ![w] = Head(queue)]
  /\ queue' = Tail(queue)
  /\ UNCHANGED <<tVars, sState, owner, ready, starts, down, dispatcher, inMap, caller>>

WorkerExit(w) ==
  /\ down
  /\ WorkerMove(w, "waiting", "exited")
  /\ UNCHANGED <<tVars, sState, owner, ready, starts, queue, down, dispatcher, inMap,
                 held, caller>>

\* getTransport takes no lock: while the map is cleared it finds the entry, finds
\* nothing or runs into memory that is gone.
GetTransport == (IF inMap THEN {"found"} ELSE {"nothing"}) \cup
                (IF owner \in {"erasing", "destroying"} THEN {"nothing", "lost"} ELSE {})

\* Without a transport the message is dropped.
WorkerGetTransport(w) ==
  /\ \/ /\ "found" \in GetTransport
        /\ WorkerMove(w, "taken", "parsing")
        /\ UNCHANGED held
     \/ /\ "nothing" \in GetTransport
        /\ WorkerMove(w, "taken", "waiting")
        /\ held' = [held EXCEPT ![w] = NoRequest]
     \/ /\ "lost" \in GetTransport
        /\ WorkerMove(w, "taken", "lost")
        /\ UNCHANGED held
  /\ UNCHANGED <<tVars, sState, owner, ready, starts, queue, down, dispatcher, inMap,
                 caller>>

\* What cannot be parsed is answered with an error.
WorkerParse(w) ==
  /\ \/ WorkerMove(w, "parsing", "dispatching")
     \/ WorkerMove(w, "parsing", "answering")
  /\ UNCHANGED <<tVars, sState, owner, ready, starts, queue, down, dispatcher, inMap,
                 held, caller>>

\* dispatch and the method it calls; with _dispatcher NULL, or deleted meanwhile,
\* it may do anything.
WorkerDispatch(w) ==
  /\ \/ WorkerMove(w, "dispatching", "answering")
     \/ ~dispatcher /\ WorkerMove(w, "dispatching", "crashed")
  /\ UNCHANGED <<tVars, sState, owner, ready, starts, queue, down, dispatcher, inMap,
                 held, caller>>

\* sendResponse finds the post, or somebody answered it before.
WorkerRemovePost(w) ==
  /\ WorkerMove(w, "answering", IF held[w] \in posts THEN "sending" ELSE "letting go")
  /\ RemovePost(held[w])
  /\ UNCHANGED <<tState, shuttingDown, eventVars, listening, listener, current, conn,
                 answers, ctlVars, freed, sState, owner, ready, starts, queue, down,
                 dispatcher, inMap, held, caller>>

WorkerSend(w) ==
  /\ WorkerMove(w, "sending", "letting go")
  /\ Respond(held[w])
  /\ UNCHANGED <<tState, shuttingDown, eventVars, listening, listener, current, posts,
                 ctlVars, freed, sState, owner, ready, starts, queue, down, dispatcher,
                 inMap, held, caller>>

\* The end of the turn; the worker's reference may be the last one.
WorkerLetGo(w) ==
  LET last == ~inMap /\ Holders = {w}
  IN  /\ WorkerMove(w, "letting go", IF last THEN "destroying" ELSE "waiting")
      /\ held' = [held EXCEPT ![w] = NoRequest]
      /\ IF last THEN Destroy ELSE UNCHANGED tVars
      /\ UNCHANGED <<sState, owner, ready, starts, queue, down, dispatcher, inMap,
                     caller>>

WorkerDestroyed(w) ==
  /\ WorkerMove(w, "destroying", "waiting")
  /\ Freed
  /\ UNCHANGED <<sState, owner, ready, starts, queue, down, dispatcher, inMap, held,
                 caller>>

-----------------------------------------------------------------------------
(* sendRequest, by a thread that was given the server when it was up *)

CallerMove(c, from, to) ==
  /\ caller[c] = from
  /\ caller' = [caller EXCEPT ![c] = to]
  /\ UNCHANGED <<sState, owner, ready, starts, queue, down, dispatcher, inMap, worker,
                 held>>

CallerGetTransport(c) ==
  /\ starts > 0
  /\ \/ "found" \in GetTransport /\ CallerMove(c, "none", "calling")
     \/ "nothing" \in GetTransport /\ CallerMove(c, "none", "returned")
     \/ "lost" \in GetTransport /\ CallerMove(c, "none", "lost")
  /\ UNCHANGED tVars

CallerUnanswered(c) ==
  /\ CallerMove(c, "calling", "unanswered")
  /\ UNCHANGED tVars

\* The end of the call, whatever it brought.
CallerLetsGo(c) ==
  LET last == ~inMap /\ Holders = {c}
  IN  /\ CallerMove(c, "calling", IF last THEN "destroying" ELSE "returned")
      /\ IF last THEN Destroy ELSE UNCHANGED tVars

CallerDestroyed(c) ==
  /\ CallerMove(c, "destroying", "returned")
  /\ Freed

-----------------------------------------------------------------------------

\* What the owner does once it called one of the functions.
OwnerContinues ==
  \/ owner = "init" /\ OwnerStart
  \/ OwnerStarted \/ OwnerReady
  \/ OwnerStopped \/ OwnerSetsStopped
  \/ OwnerDown \/ OwnerClear \/ OwnerErase \/ OwnerDestroyed \/ OwnerUnset \/ OwnerDone

Caller(c) ==
  \/ CallerGetTransport(c) \/ CallerUnanswered(c)
  \/ CallerLetsGo(c) \/ CallerDestroyed(c)

Worker(w) ==
  \/ WorkerTake(w) \/ WorkerExit(w)
  \/ WorkerGetTransport(w) \/ WorkerParse(w) \/ WorkerDispatch(w)
  \/ WorkerRemovePost(w) \/ WorkerSend(w)
  \/ WorkerLetGo(w) \/ WorkerDestroyed(w)

Next ==
  \/ OwnerStart \/ OwnerStop \/ OwnerShutdown
  \/ OwnerContinues
  \/ Control(PendingClient) /\ UNCHANGED sVars
  \/ Listener /\ UNCHANGED sVars
  \/ ListenerQueues
  \/ \E r \in Requests : Connect(r) /\ UNCHANGED sVars
  \/ \E w \in Workers : Worker(w)
  \/ \E c \in Callers : Caller(c)

Spec == Init /\ [][Next]_vars

\* Every thread goes on until it waits, for an event, for the queue, for a
\* connection or for the data of its client; dispatch returns, and a call whose
\* server says something.  Nobody has to connect, to call or to stop the server.
FairSpec ==
  /\ Spec
  /\ WF_vars(OwnerContinues)
  /\ WF_vars(Control(PendingClient) /\ UNCHANGED sVars)
  /\ WF_vars((Listener /\ UNCHANGED sVars) \/ ListenerQueues)
  /\ \A w \in Workers : WF_vars(Worker(w))
  /\ \A c \in Callers : WF_vars(CallerLetsGo(c) \/ CallerDestroyed(c))

-----------------------------------------------------------------------------
(* Properties *)

\* No request is answered twice: not by a worker and by the shutdown that
\* aborts what is pending, in whatever order they come.
\* (RpcHttpTransport.cpp:453-468, 727-747)
AnsweredOnce == \A r \in Requests : answers[r] <= 1

\* Once stop has returned, the listener has left the socket and parked, and
\* works on no connection, whatever the events were left at by earlier rounds.
\* (RpcHttpTransport.cpp:263-289, 667-674)
StoppedIsQuiet ==
  owner = "up" /\ sState = "Stopped" =>
    listener = "parked" /\ ~listening /\ current = NoRequest

\* When the transport was shut down before it was destroyed, nobody is left
\* who uses it, but for the tail of the signal the destructor waited for, and
\* nobody waits for an answer.  The shutdown itself waits for the sends of pending
\* calls without a timeout; the destructor never finds one.
\* (RpcHttpTransport.cpp:100-111, 293-324, 753-765)
DestroyedIsQuiet ==
  /\ freed /\ shuttingDown => listener \in {"notifying", "gone"} /\ posts = {}
  /\ ctl = "abortClients" => PendingClient = {}

\* A call of control comes back, unless a client that sends nothing keeps the
\* listener or there is none: no event is signalled before it is reset, and nobody
\* waits for a thread that waits for a lock of his, nor for a client call, which
\* may hang for good.  (RpcHttpTransport.cpp:227-330, 753-765)
ControlReturns ==
  ctl # "none" ~> ctl = "none" \/ current \in Silent \/ listener = "none"

\* In dispatch without a dispatcher, or in a map that is being erased.
Crashed ==
  \/ \E w \in Workers : worker[w] \in {"crashed", "lost"}
  \/ \E c \in Callers : caller[c] = "lost"

\* A request that made it into the queue is answered, by a worker or at the
\* latest by the shutdown of the transport.  It is not if a thread crashed, if the
\* transport was destroyed without a shutdown, after an error, if the pool made no
\* worker at all, or if a call that hangs keeps the transport from its shutdown.
\* (RpcServer.cpp:512-614, RpcHttpTransport.cpp:727-747)
QueuedIsAnswered ==
  \A r \in Requests :
    r \in ToSet(queue) ~>
      \/ answers[r] = 1
      \/ Crashed
      \/ freed /\ ~shuttingDown
      \/ \A w \in Workers : worker[w] = "none"
      \/ \E c \in Callers : caller[c] = "unanswered"

\* A caller of the server and a client whose request was queued get on.
RpcProgress == ControlReturns /\ QueuedIsAnswered

\* "doing a hard close on the socket will cause the listener in processRequest
\* to return a NULL socket, in which case processRequest will return and block
\* on the trigger" (RpcHttpTransport.cpp:273-275).  It is false: see the run
\* rpc_stop.
StopParksListener == ctl = "stop5" ~> listener = "parked"
=============================================================================
