----------------------------- MODULE RpcClient -----------------------------
(***************************************************************************)
(* The client side of the RPC: RpcServer::sendRequest                      *)
(* (src/src/rpc/RpcServer.cpp) over RpcHttpTransport::sendRequest          *)
(* (src/src/rpc/http/RpcHttpTransport.cpp), and the three classes that are *)
(* not built: RpcContentServer::sendRequest over NetSocketServer, and      *)
(* RpcClient::callMethod (src/src/rpc/RpcClient.cpp) over                  *)
(* RpcHttpClientTransport, which does not retry.                           *)
(*                                                                         *)
(* An attempt is HttpClientPost::send (see NetHttpPost).  The network may  *)
(* lose a request or its reply, a request whose sender gave up may still   *)
(* be carried out, later, and a server may keep a connection and never say *)
(* a word: then the attempt hangs, and nothing ends it.                    *)
(*                                                                         *)
(* control(keShutdownCtl) of the transports aborts the pending posts.  Of  *)
(* RpcServer and RpcContentServer only the transport's destructor calls    *)
(* it, when no call holds the transport; here somebody calls it directly.  *)
(***************************************************************************)
EXTENDS Naturals, FiniteSets

CONSTANTS
  Callers,
  Retries   \* _retries

ASSUME RpcClientAssumption == Retries \in Nat \ {0}

\* RpcServer, RpcContentServer and RpcClient, each over its transport.
Sides == {"server", "content", "client"}
MaxAttempts(side) == IF side = "client" THEN 1 ELSE Retries

VARIABLES
  reachable,     \* the sides whose map has the transport
  transportUp,   \* the status of the transport is keRpcStarted
  abortAt,       \* where abortAllClientPosts of each transport is
  toAbort,       \* the posts its loop has before it
  abortOf,       \* the post whose m_sendMutex it waits for
  call,          \* where each caller is
  side,          \* which class it calls
  activePosts,   \* _pendingClient of the transports, their callers
  attempts,      \* currentRetry
  late,          \* attempts since the transport went down
  aborting,      \* callers whose post was told to abort, before the attempt looked
  onTheWay,      \* requests of a caller that reached the server and wait there
  executed,      \* how often its method was run
  reply,         \* what the last attempt brought
  result         \* what the call returned

abortVars == <<abortAt, toAbort, abortOf>>
clientVars == <<reachable, transportUp, abortVars, call, side, activePosts, attempts,
                late, aborting, onTheWay, executed, reply, result>>

(***************************************************************************)
(* What can come back: the answer of a method that was run, with a node in *)
(* its response or without; an error code of HTTP; 204, without a body;    *)
(* and what no RpcServer sends: a document without the instruction,        *)
(* without its result, with another root, or no document.                  *)
(***************************************************************************)
Answers == {"ok", "ok, no node", "error"}
Foreign == {"no instruction", "no result", "other root", "no document"}
Replies == Answers \cup Foreign \cup {"http error", "no content", "none"}

CallPlaces ==
  {"idle", "found", "deciding", "checked", "posting", "hung", "sleeping", "posted",
   "returned"}

ClientTypeOK ==
  /\ reachable \subseteq Sides
  /\ transportUp \in [Sides -> BOOLEAN]
  /\ abortAt \in [Sides -> {"none", "counting", "locking", "looping", "done"}]
  /\ toAbort \in [Sides -> SUBSET Callers]
  /\ abortOf \in [Sides -> SUBSET Callers]
  /\ call \in [Callers -> CallPlaces]
  /\ side \in [Callers -> Sides]
  /\ activePosts \subseteq Callers
  /\ attempts \in [Callers -> 0..Retries]
  /\ reply \in [Callers -> Replies]

ClientInit ==
  /\ reachable = Sides
  /\ transportUp = [s \in Sides |-> TRUE]
  /\ abortAt = [s \in Sides |-> "none"]
  /\ toAbort = [s \in Sides |-> {}]
  /\ abortOf = [s \in Sides |-> {}]
  /\ call = [c \in Callers |-> "idle"]
  /\ side \in [Callers -> Sides]
  /\ activePosts = {}
  /\ attempts = [c \in Callers |-> 0]
  /\ late = [c \in Callers |-> 0]
  /\ aborting = {}
  /\ onTheWay = [c \in Callers |-> 0]
  /\ executed = [c \in Callers |-> 0]
  /\ reply = [c \in Callers |-> "none"]
  /\ result = [c \in Callers |-> "none"]

CallMove(c, from, to) ==
  /\ call[c] = from
  /\ call' = [call EXCEPT ![c] = to]

-----------------------------------------------------------------------------
(* sendRequest and callMethod up to the transport *)

\* The request is put together, and getTransport under the lock: the reference
\* keeps the transport when it is removed.
SendRequest(c) ==
  /\ side[c] \in reachable
  /\ CallMove(c, "idle", "found")
  /\ UNCHANGED <<reachable, transportUp, abortVars, side, activePosts, attempts, late,
                 aborting, onTheWay, executed, reply, result>>

NoTransportFound(c) ==
  /\ side[c] \notin reachable
  /\ CallMove(c, "idle", "returned")
  /\ result' =
       [result EXCEPT ![c] = IF side[c] = "client" THEN "keError" ELSE "keParamError"]
  /\ UNCHANGED <<reachable, transportUp, abortVars, side, activePosts, attempts, late,
                 aborting, onTheWay, executed, reply>>

\* What happens to a class that nobody calls is left out.
InUse(s) == \E c \in Callers : side[c] = s

\* removeTransport, or close: the calls that have it go on with it.
RemoveClientTransport(s) ==
  /\ s \in reachable /\ InUse(s)
  /\ reachable' = reachable \ {s}
  /\ UNCHANGED <<transportUp, abortVars, call, side, activePosts, attempts, late,
                 aborting, onTheWay, executed, reply, result>>

-----------------------------------------------------------------------------
(* The transports: RpcHttpTransport, NetSocketServer, RpcHttpClientTransport *)

\* _guard of the transport: only the loop of abortAllClientPosts keeps it for long.
GuardFree(c) == abortAt[side[c]] # "looping"

\* addClientPost, which RpcHttpClientTransport does not have.
AddClientPost(c) ==
  /\ GuardFree(c)
  /\ CallMove(c, "found", "deciding")
  /\ activePosts' = IF side[c] = "client" THEN activePosts ELSE activePosts \cup {c}
  /\ UNCHANGED <<reachable, transportUp, abortVars, side, attempts, late, aborting,
                 onTheWay, executed, reply, result>>

\* NetSocketServer looks at the status before it sends, under _guard; in
\* RpcHttpTransport that is commented out.
GivesUp(c) ==
  \/ attempts[c] = MaxAttempts(side[c])
  \/ side[c] = "content" /\ ~transportUp[side[c]]

\* Mutant: nobody looks at the status.
CheckAttempts(c) ==
  /\ attempts[c] < MaxAttempts(side[c])
  /\ CallMove(c, "deciding", "checked")
  /\ UNCHANGED <<reachable, transportUp, abortVars, side, activePosts, attempts, late,
                 aborting, onTheWay, executed, reply, result>>

Check(c) ==
  /\ ~GivesUp(c)
  /\ side[c] = "content" => GuardFree(c)
  /\ CallMove(c, "deciding", "checked")
  /\ UNCHANGED <<reachable, transportUp, abortVars, side, activePosts, attempts, late,
                 aborting, onTheWay, executed, reply, result>>

\* The attempt clears what an abort before it has left.
Attempt(c) ==
  /\ CallMove(c, "checked", "posting")
  /\ attempts' = [attempts EXCEPT ![c] = @ + 1]
  /\ late' = [late EXCEPT ![c] = IF transportUp[side[c]] THEN 0 ELSE @ + 1]
  /\ aborting' = aborting \ {c}
  /\ UNCHANGED <<reachable, transportUp, abortVars, side, activePosts, onTheWay,
                 executed, reply, result>>

\* Nothing reached the server: send returns FALSE, and the caller sleeps before
\* the next attempt.
AttemptFails(c) ==
  /\ CallMove(c, "posting", "sleeping")
  /\ UNCHANGED <<reachable, transportUp, abortVars, side, activePosts, attempts, late,
                 aborting, onTheWay, executed, reply, result>>

\* The request is at the server, which may get to it when nobody waits any more.
AttemptArrives(c) ==
  /\ call[c] = "posting" /\ c \notin aborting /\ onTheWay[c] < attempts[c]
  /\ onTheWay' = [onTheWay EXCEPT ![c] = @ + 1]
  /\ call' = [call EXCEPT ![c] = "sleeping"]
  /\ UNCHANGED <<reachable, transportUp, abortVars, side, activePosts, attempts, late,
                 aborting, executed, reply, result>>

\* The server accepts the connection and says nothing, for good; it may have got
\* the request.
AttemptHangs(c) ==
  /\ c \notin aborting
  /\ CallMove(c, "posting", "hung")
  /\ \E n \in {0, 1} : onTheWay' = [onTheWay EXCEPT ![c] = @ + n]
  /\ UNCHANGED <<reachable, transportUp, abortVars, side, activePosts, attempts, late,
                 aborting, executed, reply, result>>

\* The reply to this attempt comes in time; a method that was run has been run
\* once more.
AttemptReplied(c) ==
  /\ c \notin aborting
  /\ CallMove(c, "posting", "posted")
  /\ \E r \in Replies \ {"none"} :
       /\ reply' = [reply EXCEPT ![c] = r]
       /\ executed' = [executed EXCEPT ![c] = @ + IF r \in Answers THEN 1 ELSE 0]
  /\ UNCHANGED <<reachable, transportUp, abortVars, side, activePosts, attempts, late,
                 aborting, onTheWay, result>>

ServerRunsLate(c) ==
  /\ onTheWay[c] > 0
  /\ onTheWay' = [onTheWay EXCEPT ![c] = @ - 1]
  /\ \E n \in {0, 1} : executed' = [executed EXCEPT ![c] = @ + n]
  /\ UNCHANGED <<reachable, transportUp, abortVars, call, side, activePosts, attempts,
                 late, aborting, reply, result>>

Wake(c) ==
  /\ CallMove(c, "sleeping", "deciding")
  /\ UNCHANGED <<reachable, transportUp, abortVars, side, activePosts, attempts, late,
                 aborting, onTheWay, executed, reply, result>>

\* The loop ends without a reply.
GiveUp(c) ==
  /\ GivesUp(c)
  /\ GuardFree(c)
  /\ CallMove(c, "deciding", "returned")
  /\ activePosts' = activePosts \ {c}
  /\ result' = [result EXCEPT ![c] = "keError"]
  /\ UNCHANGED <<reachable, transportUp, abortVars, side, attempts, late, aborting,
                 onTheWay, executed, reply>>

-----------------------------------------------------------------------------
(* The result: what each class makes of a reply.                           *)

\* RpcServer: a missing result is the text "", and toInt of that is keOk; a
\* response that is no document is released all the same.
ServerResult(r) ==
  CASE r = "ok" -> "keOk"
    [] r \in {"ok, no node", "no result"} -> "keOkNoResult"
    [] r \in {"no document", "no content"} -> "crash"
    [] OTHER -> "keError"

\* RpcContentServer: the same, but nothing is released.
ContentResult(r) == IF ServerResult(r) = "crash" THEN "keError" ELSE ServerResult(r)

\* RpcClient: the node is selected and not handed on, and the root is not looked
\* at.
ClientResult(r) ==
  CASE r \in {"ok", "ok, no node", "other root"} -> "keOk"
    [] r = "no instruction" -> "keParamError"
    [] OTHER -> "keError"

Result(s, r) ==
  CASE s = "server" -> ServerResult(r)
    [] s = "content" -> ContentResult(r)
    [] s = "client" -> ClientResult(r)

CallReturns(c) ==
  /\ GuardFree(c)
  /\ CallMove(c, "posted", "returned")
  /\ activePosts' = activePosts \ {c}
  /\ result' = [result EXCEPT ![c] = Result(side[c], reply[c])]
  /\ UNCHANGED <<reachable, transportUp, abortVars, side, attempts, late, aborting,
                 onTheWay, executed, reply>>

-----------------------------------------------------------------------------
(* control: the transport is shut down *)

TransportStops(s) ==
  /\ s # "client" /\ InUse(s) /\ transportUp[s]
  /\ transportUp' = [transportUp EXCEPT ![s] = FALSE]
  /\ abortAt' = [abortAt EXCEPT ![s] = "counting"]
  /\ UNCHANGED <<reachable, toAbort, abortOf, call, side, activePosts, attempts, late,
                 aborting, onTheWay, executed, reply, result>>

OfSide(s) == {c \in activePosts : side[c] = s}

\* getNumActiveClientPosts, then the loop under the lock: who comes between the
\* two is aborted too, who comes behind is not.
CountClientPosts(s) ==
  /\ abortAt[s] = "counting"
  /\ abortAt' = [abortAt EXCEPT ![s] = IF OfSide(s) = {} THEN "done" ELSE "locking"]
  /\ UNCHANGED <<reachable, transportUp, toAbort, abortOf, call, side, activePosts,
                 attempts, late, aborting, onTheWay, executed, reply, result>>

LockClientPosts(s) ==
  /\ abortAt[s] = "locking"
  /\ abortAt' = [abortAt EXCEPT ![s] = "looping"]
  /\ toAbort' = [toAbort EXCEPT ![s] = OfSide(s)]
  /\ UNCHANGED <<reachable, transportUp, abortOf, call, side, activePosts, attempts,
                 late, aborting, onTheWay, executed, reply, result>>

\* abortSend: m_abort comes too late for an attempt that has connected.
AbortSend(s, c) ==
  /\ c \in toAbort[s] /\ abortOf[s] = {}
  /\ toAbort' = [toAbort EXCEPT ![s] = @ \ {c}]
  /\ abortOf' = [abortOf EXCEPT ![s] = {c}]
  /\ \/ aborting' = aborting \cup (IF call[c] = "posting" THEN {c} ELSE {})
     \/ UNCHANGED aborting
  /\ UNCHANGED <<reachable, transportUp, abortAt, call, side, activePosts, attempts,
                 late, onTheWay, executed, reply, result>>

\* It returns when it had m_sendMutex, which an attempt keeps to its end.
SendAborted(s) ==
  /\ \E c \in abortOf[s] : call[c] \notin {"posting", "hung"}
  /\ abortOf' = [abortOf EXCEPT ![s] = {}]
  /\ UNCHANGED <<reachable, transportUp, abortAt, toAbort, call, side, activePosts,
                 attempts, late, aborting, onTheWay, executed, reply, result>>

UnlockClientPosts(s) ==
  /\ abortAt[s] = "looping" /\ toAbort[s] = {} /\ abortOf[s] = {}
  /\ abortAt' = [abortAt EXCEPT ![s] = "done"]
  /\ UNCHANGED <<reachable, transportUp, toAbort, abortOf, call, side, activePosts,
                 attempts, late, aborting, onTheWay, executed, reply, result>>

AbortAllClientPosts(s) ==
  \/ CountClientPosts(s) \/ LockClientPosts(s)
  \/ \E c \in Callers : AbortSend(s, c)
  \/ SendAborted(s) \/ UnlockClientPosts(s)

-----------------------------------------------------------------------------

CallStep(c) ==
  \/ AddClientPost(c)
  \/ Check(c)
  \/ Attempt(c)
  \/ AttemptFails(c)
  \/ AttemptArrives(c)
  \/ AttemptHangs(c)
  \/ AttemptReplied(c)
  \/ Wake(c)
  \/ GiveUp(c)
  \/ CallReturns(c)

ClientNext ==
  \/ \E c \in Callers :
       \/ SendRequest(c)
       \/ NoTransportFound(c)
       \/ CallStep(c)
       \/ ServerRunsLate(c)
  \/ \E s \in Sides :
       \/ RemoveClientTransport(s)
       \/ TransportStops(s)
       \/ AbortAllClientPosts(s)

\* An attempt ends or hangs (see NetHttpPost!PostReturns for when it ends).
ClientFairness ==
  /\ \A c \in Callers : WF_clientVars(CallStep(c))
  /\ \A s \in Sides : WF_clientVars(AbortAllClientPosts(s))

ClientSpec == ClientInit /\ [][ClientNext]_clientVars

-----------------------------------------------------------------------------
(* Properties *)

Succeeded(c) == result[c] \in {"keOk", "keOkNoResult"}

\* A call that succeeds was carried out, as long as an RpcServer answers it; it
\* was carried out more than once only if it was sent more than once.  That it
\* failed says nothing: it may have been carried out, and may be yet.
\* (RpcHttpTransport.cpp:551-570)
SuccessMeansExecuted ==
  \A c \in Callers :
    /\ Succeeded(c) /\ reply[c] \notin Foreign => executed[c] > 0
    /\ executed[c] + onTheWay[c] <= attempts[c]

\* Where the status is looked at, a call sends at most one request when the
\* transport is down, the one that had looked before; where it is not, the
\* retries go on. (NetSocketServer.cpp:568-576, RpcHttpTransport.cpp:554-562)
QuietAfterStop == \A c \in Callers : side[c] = "content" => late[c] <= 1

InTransport(c) ==
  call[c] \in {"deciding", "checked", "posting", "hung", "sleeping", "posted"}

\* The post of a call can be aborted as long as the call is in the transport,
\* and is forgotten when it returns; but not under the feet of the loop that
\* aborts the posts. (RpcHttpTransport.cpp:546-575, 753-765)
PostsAreCalls ==
  /\ \A c \in Callers :
       side[c] # "client" /\ InTransport(c) => c \in activePosts
  /\ \A c \in activePosts : call[c] \notin {"idle", "found", "returned"}
  /\ \A s \in Sides : toAbort[s] \cup abortOf[s] \subseteq activePosts

\* A call hangs on its server.
Hangs(s) == \E c \in Callers : side[c] = s /\ call[c] = "hung"

\* Every call returns, unless its server says nothing, or that of a call of which
\* the shutdown waits to be done, with the lock held.
\* (RpcHttpTransport.cpp:546-575, 753-765)
CallsReturn ==
  \A c \in Callers :
    call[c] = "found" ~>
      \/ call[c] \in {"returned", "hung"}
      \/ abortAt[side[c]] = "looping" /\ Hangs(side[c])

\* So does the shutdown's abort of the pending posts: it waits for each attempt to
\* end, however often the call tries again.
\* (RpcHttpTransport.cpp:753-765, NetHttpClientPost.cpp:50-58)
AbortReturns ==
  \A s \in Sides : abortAt[s] = "counting" ~> abortAt[s] = "done" \/ Hangs(s)

\* A call that succeeds was executed, a transport that is down gets one request
\* more at most, and the posts registered are those of the calls.
CallSafe == ClientTypeOK /\ SuccessMeansExecuted /\ QuietAfterStop /\ PostsAreCalls
=============================================================================
