--------------------------- MODULE ContentServer ---------------------------
(***************************************************************************)
(* RpcContentServer (src/src/rpc/RpcContentHandlerServer.cpp), a server    *)
(* with several transports, and the server side of NetSocketServer         *)
(* (src/src/net/NetSocketServer.cpp), which it starts, stops and shuts     *)
(* down.  Neither is built; NetSocketServer is RpcHttpTransport over       *)
(* again, whose events the module RpcHttpTransport takes apart.  Here a    *)
(* reset and the signal that follows it are one step, and what matters is  *)
(* several transports, their references, and a caller that commands them   *)
(* in turn.                                                                *)
(*                                                                         *)
(* One thread, the owner, calls the server; what is left of its call is    *)
(* its plan.  The users, a worker while it looks at a message and a caller *)
(* of sendRequest for as long as that takes, hold a reference to a         *)
(* transport; who drops the last one runs the destructor.                  *)
(***************************************************************************)
EXTENDS Naturals, Sequences, SequencesExt, FiniteSets

CONSTANTS
  Transports,    \* the transport objects
  NameOf,        \* their getName()
  ContentPosts,  \* the connections clients make
  NoTransport,
  MaxOwnerCalls  \* bound: calls of the owner

ASSUME ContentServerAssumption ==
  /\ IsFiniteSet(Transports) /\ NoTransport \notin Transports
  /\ Transports \subseteq DOMAIN NameOf
  /\ MaxOwnerCalls \in Nat

VARIABLES
  contentState, \* _state of the server
  contentGuard, \* its _guard is held by the owner
  installed,    \* _transports: the objects in the map
  contentQ,     \* _messageQueue
  contentDown,  \* it is down
  plan,         \* what is left of the owner's call
  obeyed,       \* res of commandAll
  ownerCalls,   \* how many calls the owner made
  userHolds,    \* the transport of each user, or NoTransport
  userAt,       \* where each user is
  tState,       \* _state of each transport
  tDown,        \* _shuttingDown
  trigger,      \* _triggerEvent
  startedEv, stoppedEv, shutdownEv,
  listenerAt,   \* where each myWorkerFunction is
  serving,      \* the connection it works on
  control,      \* where a caller of control is
  pending,      \* _pendingServer
  post,         \* where each connection is
  postOf,       \* the transport that accepted it
  replies       \* how many answers it got

serverVars == <<contentState, contentGuard, installed, contentQ, contentDown>>
ownerVars == <<plan, obeyed, ownerCalls>>
workVars == <<userHolds, userAt>>
eventVars == <<trigger, startedEv, stoppedEv, shutdownEv>>
connectionVars == <<pending, post, postOf, replies>>
contentVars == <<serverVars, ownerVars, workVars, tState, tDown, eventVars, listenerAt,
                 serving, control, connectionVars>>

(***************************************************************************)
(* A transport is new, and after init: its listener thread could not be    *)
(* made, of which ThdPool::add does not tell (unmade), or is at the top of *)
(* the loop, parked at the trigger, listening, serving a connection        *)
(* (reading its request; adding: its post is not in _pendingServer yet,    *)
(* queuing: it is), stuck in the read of a client that says nothing and    *)
(* keeps the connection, behind the loop (leaving) or gone.                *)
(***************************************************************************)
ListenerPlaces ==
  {"new", "unmade", "top", "parked", "listening", "reading", "stuck", "adding", "queuing",
   "leaving", "gone"}

\* It left accept and has not come back, or is there.
Serving(t) == listenerAt[t] \in {"listening", "reading", "stuck", "adding", "queuing"}

Users == {"worker", "sender"}

(***************************************************************************)
(* A user waits for a message, or is about to call (waiting), holds a      *)
(* transport, runs its destructor, ran into a map that is being erased     *)
(* (lost) or is through (gone); the workers are made by init.              *)
(***************************************************************************)
UserPlaces == {"none", "waiting", "holding", "destroying", "lost", "gone"}

HeldBy(u, t) == userHolds[u] = t
Held(t) == \E u \in Users : HeldBy(u, t)

ContentInit ==
  /\ contentState = "NoState"
  /\ contentGuard = FALSE
  /\ installed = {}
  /\ contentQ = <<>>
  /\ contentDown = FALSE
  /\ plan = <<>>
  /\ obeyed = FALSE
  /\ ownerCalls = 0
  /\ userHolds = [u \in Users |-> NoTransport]
  /\ userAt = [u \in Users |-> "none"]
  /\ tState = [t \in Transports |-> "NoState"]
  /\ tDown = [t \in Transports |-> FALSE]
  /\ trigger = [t \in Transports |-> FALSE]
  /\ startedEv = [t \in Transports |-> FALSE]
  /\ stoppedEv = [t \in Transports |-> FALSE]
  /\ shutdownEv = [t \in Transports |-> FALSE]
  /\ listenerAt = [t \in Transports |-> "new"]
  /\ serving = [t \in Transports |-> {}]
  /\ control = [t \in Transports |-> "none"]
  /\ pending = [t \in Transports |-> {}]
  /\ post = [r \in ContentPosts |-> "none"]
  /\ postOf = [r \in ContentPosts |-> NoTransport]
  /\ replies = [r \in ContentPosts |-> 0]

\* setStatus of a transport: nothing comes after keRpcShutdown.
SetTransport(t, s) ==
  tState' = [tState EXCEPT ![t] = IF tState[t] = "Shutdown" THEN "Shutdown" ELSE s]

ListenerGoes(t, from, to) ==
  /\ listenerAt[t] = from
  /\ listenerAt' = [listenerAt EXCEPT ![t] = to]

-----------------------------------------------------------------------------
(* control *)

Commandable(t) == tState[t] \notin {"Shutdown", "Error"}

\* Up to the first wait.  What cannot be obeyed returns false at once.
ControlStarts(t) ==
  /\ control' = [control EXCEPT ![t] = "starting"]
  /\ startedEv' = [startedEv EXCEPT ![t] = FALSE]
  /\ trigger' = [trigger EXCEPT ![t] = TRUE]
  /\ UNCHANGED <<tState, tDown, stoppedEv, shutdownEv>>

\* The listener is closed.
ControlStops(t, place) ==
  /\ control' = [control EXCEPT ![t] = place]
  /\ stoppedEv' = [stoppedEv EXCEPT ![t] = FALSE]
  /\ trigger' = [trigger EXCEPT ![t] = FALSE]
  /\ SetTransport(t, "StopPending")
  /\ UNCHANGED <<tDown, startedEv, shutdownEv>>

ControlShuts(t) ==
  /\ control' = [control EXCEPT ![t] = "shutting"]
  /\ tDown' = [tDown EXCEPT ![t] = TRUE]
  /\ shutdownEv' = [shutdownEv EXCEPT ![t] = FALSE]
  /\ trigger' = [trigger EXCEPT ![t] = TRUE]
  /\ UNCHANGED <<tState, startedEv, stoppedEv>>

NoControl == UNCHANGED <<control, tState, tDown, eventVars>>

ControlBegins(t, cmd) ==
  CASE ~Commandable(t) -> NoControl
    [] Commandable(t) /\ cmd = "Start" ->
         IF tState[t] # "Started" THEN ControlStarts(t) ELSE NoControl
    [] Commandable(t) /\ cmd = "Stop" ->
         IF tState[t] = "Started" THEN ControlStops(t, "stopping") ELSE NoControl
    [] Commandable(t) /\ cmd = "Shutdown" ->
         IF tState[t] = "Started" THEN ControlStops(t, "halting") ELSE ControlShuts(t)

\* Mutant: the answers stay pending.
AbortNoPosts(t) == UNCHANGED <<pending, post, replies>>

\* abortAllPosts
AbortAllPosts(t) ==
  /\ pending' = [pending EXCEPT ![t] = {}]
  /\ post' = [r \in ContentPosts |-> IF r \in pending[t] THEN "closed" ELSE post[r]]
  /\ replies' = [r \in ContentPosts |-> replies[r] + IF r \in pending[t] THEN 1 ELSE 0]

\* The wait of a start or a stop is over; a start is obeyed even when the
\* listener could not listen.
ControlDone(t) ==
  /\ \/ control[t] = "starting" /\ startedEv[t]
     \/ control[t] = "stopping" /\ stoppedEv[t]
  /\ control' = [control EXCEPT ![t] = "none"]
  /\ obeyed' = TRUE
  /\ UNCHANGED <<serverVars, workVars, eventVars, connectionVars, plan, ownerCalls,
                 tState, tDown, listenerAt, serving>>

\* keShutdownCtl goes on behind its stop.
ControlHalted(t) ==
  /\ control[t] = "halting" /\ stoppedEv[t]
  /\ ControlShuts(t)
  /\ UNCHANGED <<serverVars, ownerVars, workVars, connectionVars, listenerAt, serving>>

ControlDown(t) ==
  /\ control[t] = "shutting" /\ shutdownEv[t]
  /\ control' = [control EXCEPT ![t] = "aborting"]
  /\ AbortAllPosts(t)
  /\ UNCHANGED <<serverVars, ownerVars, workVars, eventVars, tState, tDown, listenerAt,
                 serving, postOf>>

\* sendRequest of the transport is under way.
Sends(u, t) == u = "sender" /\ HeldBy(u, t) /\ userAt[u] = "holding"

\* abortAllClientPosts waits for the sends that are pending, without a timeout.
ControlAborts(t) ==
  /\ control[t] = "aborting" /\ ~\E u \in Users : Sends(u, t)
  /\ control' = [control EXCEPT ![t] = "none"]
  /\ UNCHANGED <<serverVars, ownerVars, workVars, eventVars, connectionVars, tState,
                 tDown, listenerAt, serving>>

-----------------------------------------------------------------------------
(* myWorkerFunction and processRequest *)

ListenerStopped(t) ==
  /\ ListenerGoes(t, "top", "parked")
  /\ SetTransport(t, "Stopped")
  /\ stoppedEv' = [stoppedEv EXCEPT ![t] = TRUE]
  /\ UNCHANGED <<serverVars, ownerVars, workVars, connectionVars, tDown, trigger,
                 startedEv, shutdownEv, serving, control>>

ListenerTriggered(t) ==
  /\ trigger[t]
  /\ ListenerGoes(t, "parked", IF tDown[t] THEN "leaving" ELSE "listening")
  /\ IF tDown[t] THEN UNCHANGED <<tState, startedEv>>
     ELSE SetTransport(t, "Started") /\ startedEv' = [startedEv EXCEPT ![t] = TRUE]
  /\ UNCHANGED <<serverVars, ownerVars, workVars, connectionVars, tDown, trigger,
                 stoppedEv, shutdownEv, serving, control>>

\* Mutant: nobody is told that the start is over.
ListenFailsUntold(t) ==
  /\ trigger[t] /\ ~tDown[t]
  /\ ListenerGoes(t, "parked", "leaving")
  /\ SetTransport(t, "Error")
  /\ UNCHANGED <<serverVars, ownerVars, workVars, eventVars, connectionVars, tDown,
                 serving, control>>

ListenFails(t) ==
  /\ trigger[t] /\ ~tDown[t]
  /\ ListenerGoes(t, "parked", "leaving")
  /\ SetTransport(t, "Error")
  /\ startedEv' = [startedEv EXCEPT ![t] = TRUE]
  /\ UNCHANGED <<serverVars, ownerVars, workVars, connectionVars, tDown, trigger,
                 stoppedEv, shutdownEv, serving, control>>

\* The client may say nothing and keep the connection: then the read does not end.
ListenerAccepts(t, r) ==
  /\ post[r] = "connected" /\ postOf[r] = t
  /\ tState[t] # "StopPending"
  /\ \/ ListenerGoes(t, "listening", "reading")
     \/ ListenerGoes(t, "listening", "stuck")
  /\ post' = [post EXCEPT ![r] = "accepted"]
  /\ serving' = [serving EXCEPT ![t] = {r}]
  /\ UNCHANGED <<serverVars, ownerVars, workVars, eventVars, tState, tDown, control,
                 pending, postOf, replies>>

ListenerReads(t) ==
  /\ ListenerGoes(t, "reading", "adding")
  /\ UNCHANGED <<serverVars, ownerVars, workVars, eventVars, connectionVars, tState,
                 tDown, serving, control>>

\* What cannot be read, or has no payload, is answered here, or just closed.
ListenerRefuses(t) ==
  /\ ListenerGoes(t, "reading", "listening")
  /\ post' = [r \in ContentPosts |-> IF r \in serving[t] THEN "closed" ELSE post[r]]
  /\ \E told \in {{}, serving[t]} :
       replies' = [r \in ContentPosts |-> replies[r] + IF r \in told THEN 1 ELSE 0]
  /\ serving' = [serving EXCEPT ![t] = {}]
  /\ UNCHANGED <<serverVars, ownerVars, workVars, eventVars, tState, tDown, control,
                 pending, postOf>>

\* addPost
ListenerAdds(t) ==
  /\ ListenerGoes(t, "adding", "queuing")
  /\ pending' = [pending EXCEPT ![t] = @ \cup serving[t]]
  /\ UNCHANGED <<serverVars, ownerVars, workVars, eventVars, tState, tDown, serving,
                 control, post, postOf, replies>>

\* accept of the closed listener
ListenerCloses(t) ==
  /\ tState[t] = "StopPending"
  /\ ListenerGoes(t, "listening", "top")
  /\ post' = [r \in ContentPosts |->
                IF postOf[r] = t /\ post[r] = "connected" THEN "closed" ELSE post[r]]
  /\ UNCHANGED <<serverVars, ownerVars, workVars, eventVars, tState, tDown, serving,
                 control, pending, postOf, replies>>

\* queueMessage of the server, which takes its guard for the status.  What it
\* returns is ignored.
QueueMessage(t) ==
  /\ ~contentGuard
  /\ ListenerGoes(t, "queuing", "listening")
  /\ contentQ' =
       IF contentState = "Started" THEN Append(contentQ, NameOf[t]) ELSE contentQ
  /\ serving' = [serving EXCEPT ![t] = {}]
  /\ UNCHANGED <<ownerVars, workVars, eventVars, connectionVars, contentState,
                 contentGuard, installed, contentDown, tState, tDown, control>>

ListenerLeaves(t) ==
  /\ ListenerGoes(t, "leaving", "gone")
  /\ SetTransport(t, "Shutdown")
  /\ shutdownEv' = [shutdownEv EXCEPT ![t] = TRUE]
  /\ UNCHANGED <<serverVars, ownerVars, workVars, connectionVars, tDown, trigger,
                 startedEv, stoppedEv, serving, control>>

ClientConnects(t, r) ==
  /\ post[r] = "none" /\ tState[t] = "Started" /\ Serving(t)
  /\ post' = [post EXCEPT ![r] = "connected"]
  /\ postOf' = [postOf EXCEPT ![r] = t]
  /\ UNCHANGED <<serverVars, ownerVars, workVars, eventVars, tState, tDown, listenerAt,
                 serving, control, pending, replies>>

-----------------------------------------------------------------------------
(* The owner *)

Control(t, cmd) == [step |-> "control", t |-> t, cmd |-> cmd]
Step(step, cmd) == [step |-> step, t |-> NoTransport, cmd |-> cmd]
Drop(t) == [step |-> "drop", t |-> t, cmd |-> "Shutdown"]

\* The map is in the order of the names, which is that of the objects here.
All(cmd) == [i \in DOMAIN SetToSeq(installed) |-> Control(SetToSeq(installed)[i], cmd)]

\* commandAll(cmd), or nothing for keNoCtl, and setStatus if one obeyed.
CommandAll(cmd) == IF cmd = "No" THEN <<>> ELSE All(cmd)

StartPlan ==
  CommandAll(IF contentState \in {"Stopped", "Initted"} THEN "Start" ELSE "No")
    \o <<Step("obeyed", "Started")>>

StopPlan ==
  CommandAll(IF contentState = "Started" THEN "Stop" ELSE "No")
    \o <<Step("obeyed", "Stopped")>>

ShutdownPlan ==
  (IF contentState = "Started" THEN StopPlan ELSE <<>>)
    \o <<Step("down", "No"), Step("lock", "No")>>
    \o [i \in DOMAIN SetToSeq(installed) |-> Drop(SetToSeq(installed)[i])]
    \o <<Step("unlock", "No"), Step("set", "Shutdown")>>

\* Who is in the destructor of t is a user that dropped the last reference.
DestroyedBy(u, t) == userAt[u] = "destroying" /\ HeldBy(u, t)

\* Nothing that the owner called is still running.
Waited ==
  \A t \in Transports : control[t] # "none" => \E u \in Users : DestroyedBy(u, t)

Calls(newPlan) ==
  /\ plan = <<>> /\ Waited /\ ownerCalls < MaxOwnerCalls
  /\ plan' = newPlan
  /\ obeyed' = FALSE
  /\ ownerCalls' = ownerCalls + 1

\* init: the transports whose own init succeeds are added, with a listener if
\* the pool could make it; one that has the name of another takes its place.
\* Then the workers are made, and start.
InitServer ==
  /\ contentState = "NoState"
  /\ \E set \in SUBSET Transports \ {{}} :
       /\ \A t, u \in set : NameOf[t] = NameOf[u] => t = u
       /\ installed' = set
       /\ tState' = [t \in Transports |-> IF t \in set THEN "Initted" ELSE tState[t]]
       /\ listenerAt' \in [Transports -> {"new", "unmade", "top"}]
       /\ \A t \in Transports : t \in set <=> listenerAt'[t] # "new"
       /\ Calls([i \in DOMAIN SetToSeq(set) |-> Control(SetToSeq(set)[i], "Start")]
                  \o <<Step("obeyed", "Started")>>)
  /\ contentState' = "Initted"
  /\ userAt' = [u \in Users |-> "waiting"]
  /\ UNCHANGED <<eventVars, connectionVars, contentGuard, contentQ, contentDown,
                 userHolds, tDown, serving, control>>

StartServer ==
  /\ contentState \notin {"NoState", "Shutdown"}
  /\ Calls(StartPlan)
  /\ UNCHANGED <<serverVars, workVars, eventVars, connectionVars, tState, tDown,
                 listenerAt, serving, control>>

StopServer ==
  /\ contentState \notin {"NoState", "Shutdown"}
  /\ Calls(StopPlan)
  /\ UNCHANGED <<serverVars, workVars, eventVars, connectionVars, tState, tDown,
                 listenerAt, serving, control>>

ShutdownServer ==
  /\ contentState \notin {"NoState", "Shutdown"}
  /\ Calls(ShutdownPlan)
  /\ UNCHANGED <<serverVars, workVars, eventVars, connectionVars, tState, tDown,
                 listenerAt, serving, control>>

\* addTransport of an object that was initialised; what has its name goes.
AddTransport(t) ==
  LET same == {u \in installed : NameOf[u] = NameOf[t]} IN
  /\ contentState \in {"Initted", "Started", "Stopped"} /\ listenerAt[t] = "new"
  /\ Calls([i \in DOMAIN SetToSeq(same) |-> Drop(SetToSeq(same)[i])]
             \o IF contentState = "Started" THEN <<Control(t, "Start")>> ELSE <<>>)
  /\ installed' = installed \cup {t}
  /\ tState' = [tState EXCEPT ![t] = "Initted"]
  /\ \E place \in {"unmade", "top"} : listenerAt' = [listenerAt EXCEPT ![t] = place]
  /\ UNCHANGED <<workVars, eventVars, connectionVars, contentState, contentGuard,
                 contentQ, contentDown, tDown, serving, control>>

RemoveTransport(t) ==
  /\ t \in installed /\ contentState # "Shutdown"
  /\ Calls((IF contentState = "Started" THEN <<Control(t, "Stop")>> ELSE <<>>)
             \o <<Drop(t)>>)
  /\ UNCHANGED <<serverVars, workVars, eventVars, connectionVars, tState, tDown,
                 listenerAt, serving, control>>

\* The next step of the plan.
Next1(step) == plan # <<>> /\ Head(plan).step = step /\ plan' = Tail(plan)

OwnerControls ==
  /\ Waited
  /\ Next1("control")
  /\ ControlBegins(Head(plan).t, Head(plan).cmd)
  /\ UNCHANGED <<serverVars, workVars, connectionVars, obeyed, ownerCalls, listenerAt,
                 serving>>

\* ~NetSocketServer, by who drops the last reference.
Destroys(t) ==
  IF tState[t] \in {"Started", "Stopped", "Initted"}
  THEN ControlBegins(t, "Shutdown") ELSE NoControl

OwnerDrops ==
  /\ Waited
  /\ Next1("drop")
  /\ installed' = installed \ {Head(plan).t}
  /\ IF Held(Head(plan).t) THEN NoControl ELSE Destroys(Head(plan).t)
  /\ UNCHANGED <<workVars, connectionVars, contentState, contentGuard, contentQ,
                 contentDown, obeyed, ownerCalls, listenerAt, serving>>

OwnerObeyed ==
  /\ Waited
  /\ Next1("obeyed")
  /\ contentState' = IF obeyed THEN Head(plan).cmd ELSE contentState
  /\ UNCHANGED <<workVars, eventVars, connectionVars, contentGuard, installed, contentQ,
                 contentDown, obeyed, ownerCalls, tState, tDown, listenerAt, serving,
                 control>>

OwnerSets ==
  /\ Waited
  /\ Next1("set")
  /\ contentState' = Head(plan).cmd
  /\ UNCHANGED <<workVars, eventVars, connectionVars, contentGuard, installed, contentQ,
                 contentDown, obeyed, ownerCalls, tState, tDown, listenerAt, serving,
                 control>>

OwnerDowns ==
  /\ Waited
  /\ Next1("down")
  /\ contentDown' = TRUE
  /\ UNCHANGED <<workVars, eventVars, connectionVars, contentState, contentGuard,
                 installed, contentQ, obeyed, ownerCalls, tState, tDown, listenerAt,
                 serving, control>>

OwnerLocks ==
  /\ Waited
  /\ Next1("lock")
  /\ contentGuard' = TRUE
  /\ UNCHANGED <<workVars, eventVars, connectionVars, contentState, installed, contentQ,
                 contentDown, obeyed, ownerCalls, tState, tDown, listenerAt, serving,
                 control>>

\* Not before the destructors that clear runs are through.
OwnerUnlocks ==
  /\ Waited
  /\ Next1("unlock")
  /\ contentGuard' = FALSE
  /\ UNCHANGED <<workVars, eventVars, connectionVars, contentState, installed, contentQ,
                 contentDown, obeyed, ownerCalls, tState, tDown, listenerAt, serving,
                 control>>

-----------------------------------------------------------------------------
(* doWork and sendRequest *)

UserGoes(u, from, to) ==
  /\ userAt[u] = from
  /\ userAt' = [userAt EXCEPT ![u] = to]

\* The owner erases an entry of the map, or runs a destructor there.
Erasing == ~Waited \/ (plan # <<>> /\ Head(plan).step = "drop")

\* getTransport takes no lock: while the map is erased it finds what was there or
\* not, or runs into memory that is gone.
GetTransport(u, name) ==
  LET found == {t \in installed : NameOf[t] = name} IN
  \/ /\ \E t \in found : userHolds' = [userHolds EXCEPT ![u] = t]
     /\ UserGoes(u, "waiting", "holding")
  \/ (found = {} \/ Erasing) /\ UserGoes(u, "waiting", "waiting") /\ UNCHANGED userHolds
  \/ Erasing /\ UserGoes(u, "waiting", "lost") /\ UNCHANGED userHolds

DoWork ==
  /\ ~contentDown /\ contentQ # <<>>
  /\ contentQ' = Tail(contentQ)
  /\ GetTransport("worker", Head(contentQ))
  /\ UNCHANGED <<ownerVars, eventVars, connectionVars, contentState, contentGuard,
                 installed, contentDown, tState, tDown, listenerAt, serving, control>>

SenderCalls ==
  /\ \E t \in Transports : GetTransport("sender", NameOf[t])
  /\ UNCHANGED <<serverVars, ownerVars, eventVars, connectionVars, tState, tDown,
                 listenerAt, serving, control>>

\* Of doWork, which does nothing with the message and answers nobody; or of
\* sendRequest, whenever that is.
LetsGo(u) ==
  LET t == userHolds[u]
      last == t \notin installed /\ \A v \in Users \ {u} : ~HeldBy(v, t)
  IN  /\ UserGoes(u, "holding", IF last THEN "destroying" ELSE "waiting")
      /\ userHolds' = [userHolds EXCEPT ![u] = IF last THEN t ELSE NoTransport]
      /\ IF last THEN Destroys(t) ELSE NoControl
      /\ UNCHANGED <<serverVars, ownerVars, connectionVars, listenerAt, serving>>

UserDestroyed(u) ==
  /\ UserGoes(u, "destroying", "waiting") /\ control[userHolds[u]] = "none"
  /\ userHolds' = [userHolds EXCEPT ![u] = NoTransport]
  /\ UNCHANGED <<serverVars, ownerVars, eventVars, connectionVars, tState, tDown,
                 listenerAt, serving, control>>

WorkerLeaves ==
  /\ contentDown /\ UserGoes("worker", "waiting", "gone")
  /\ UNCHANGED <<serverVars, ownerVars, eventVars, connectionVars, userHolds, tState,
                 tDown, listenerAt, serving, control>>

-----------------------------------------------------------------------------

OwnerStep ==
  \/ OwnerControls \/ OwnerDrops \/ OwnerObeyed \/ OwnerSets
  \/ OwnerDowns \/ OwnerLocks \/ OwnerUnlocks

ControlStep(t) ==
  ControlDone(t) \/ ControlHalted(t) \/ ControlDown(t) \/ ControlAborts(t)

ListenerStep(t) ==
  \/ ListenerStopped(t)
  \/ ListenerTriggered(t)
  \/ ListenFails(t)
  \/ \E r \in ContentPosts : ListenerAccepts(t, r)
  \/ ListenerReads(t)
  \/ ListenerRefuses(t)
  \/ ListenerAdds(t)
  \/ ListenerCloses(t)
  \/ QueueMessage(t)
  \/ ListenerLeaves(t)

WorkStep == DoWork \/ LetsGo("worker") \/ UserDestroyed("worker") \/ WorkerLeaves

SendStep == SenderCalls \/ LetsGo("sender") \/ UserDestroyed("sender")

ContentNext ==
  \/ InitServer \/ StartServer \/ StopServer \/ ShutdownServer
  \/ \E t \in Transports :
       \/ AddTransport(t)
       \/ RemoveTransport(t)
       \/ ControlStep(t)
       \/ ListenerStep(t)
       \/ \E r \in ContentPosts : ClientConnects(t, r)
  \/ OwnerStep
  \/ WorkStep
  \/ SendStep

\* Everybody who has begun goes on; nobody has to call or to connect, and a call
\* of sendRequest need not come back.
ContentFairness ==
  /\ WF_contentVars(OwnerStep)
  /\ WF_contentVars(WorkStep)
  /\ WF_contentVars(UserDestroyed("sender"))
  /\ \A t \in Transports :
       WF_contentVars(ControlStep(t)) /\ WF_contentVars(ListenerStep(t))

ContentSpec == ContentInit /\ [][ContentNext]_contentVars

-----------------------------------------------------------------------------
(* Properties *)

\* When stop or shutdown has returned and the server says so, none of its
\* transports listens, whichever of them were there when it was called.
\* (RpcContentHandlerServer.cpp:145-202)
StoppedTransports ==
  contentState \in {"Stopped", "Shutdown"} /\ plan = <<>> =>
    \A t \in installed : tState[t] # "Started" /\ ~Serving(t)

Destroyed(t) ==
  /\ listenerAt[t] # "new" /\ t \notin installed /\ ~Held(t) /\ control[t] = "none"
  /\ ~\E i \in DOMAIN plan : plan[i].t = t

\* Every request is answered at most once, and a transport that is gone leaves
\* none without an answer, unless its last start failed: then it is not shut down
\* (NetSocketServer.cpp:120) and its posts are dropped with it.
ContentAnsweredOnce ==
  /\ \A r \in ContentPosts : replies[r] <= 1
  /\ \A t \in Transports : \A r \in pending[t] : post[r] = "accepted" /\ replies[r] = 0
  /\ \A t \in Transports :
       Destroyed(t) /\ pending[t] # {} => ~tDown[t]

\* The listener thread is never left behind by its object, but for the end of
\* the function after a listen that failed: the destructor does not wait for
\* that.  And the shutdown that would wait for sends finds none: who sends holds
\* the transport. (NetSocketServer.cpp:115-126, 295-330)
ListenerHasObject ==
  \A t \in Transports :
    /\ Destroyed(t) =>
         listenerAt[t] = "gone" \/ (listenerAt[t] = "leaving" /\ tState[t] = "Error")
    /\ control[t] = "aborting" => ~\E u \in Users : Sends(u, t)

\* What the owner calls returns, unless a client that says nothing keeps the
\* listener of the transport it waits for, or there is none: commandAll waits for its transports one
\* after the other, and clear for the destructors under the guard that the
\* listeners take for the status; neither waits for a sendRequest.
\* (RpcContentHandlerServer.cpp:186-236, NetSocketServer.cpp:265-330)
OwnerReturns ==
  plan # <<>> ~>
    \/ plan = <<>> /\ Waited
    \/ \E t \in Transports :
         \/ listenerAt[t] = "stuck" /\ control[t] \in {"stopping", "halting"}
         \/ listenerAt[t] = "unmade" /\ control[t] \in {"starting", "shutting"}

\* A transport the server dropped has stopped, a post is answered once, and a
\* listener has its object while it runs.
ContentSafe == StoppedTransports /\ ContentAnsweredOnce /\ ListenerHasObject
=============================================================================
