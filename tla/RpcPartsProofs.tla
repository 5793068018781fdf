--------------------------- MODULE RpcPartsProofs ---------------------------
(***************************************************************************)
(* Proofs about the parts of RPC around the server, for any callers,       *)
(* tenants, requests and transports: a call is answered by what was        *)
(* carried out, the dispatcher calls what lives and answers every          *)
(* instruction, and a server with several transports leaves none of them   *)
(* behind.                                                                 *)
(***************************************************************************)
EXTENDS RpcClient, RpcDispatch, ContentServer, FiniteSetTheorems, TLAPS

-----------------------------------------------------------------------------
(* RpcClient *)

\* The types that ClientTypeOK leaves to the counting below.
CountTypeOK ==
  /\ late \in [Callers -> Nat]
  /\ aborting \subseteq Callers
  /\ onTheWay \in [Callers -> Nat]
  /\ executed \in [Callers -> Nat]
  /\ result \in [Callers -> {"none", "keOk", "keOkNoResult", "keError", "keParamError",
                           "crash"}]

\* Each attempt is carried out at most once, and not before it was made; the one
\* under way is not yet counted as carried out or as waiting at the server.
AttemptsCounted(c) ==
  /\ attempts[c] <= MaxAttempts(side[c])
  /\ call[c] \in {"idle", "found"} => attempts[c] = 0
  /\ call[c] = "checked" => attempts[c] < MaxAttempts(side[c])
  /\ executed[c] + onTheWay[c] <= attempts[c]
  /\ call[c] = "posting" => executed[c] + onTheWay[c] < attempts[c]

\* Only who looked at the status before the transport went down is late.
LateKnows(c) ==
  /\ call[c] \in {"idle", "found"} => late[c] = 0
  /\ late[c] # 0 => ~transportUp[side[c]]
  /\ side[c] = "content" => late[c] <= 1
  /\ side[c] = "content" /\ call[c] = "checked" => late[c] = 0

\* What came back is the answer of a method that was run.
ReplyKnows(c) ==
  /\ call[c] # "returned" => result[c] = "none"
  /\ call[c] = "posted" /\ reply[c] \in Answers => executed[c] > 0
  /\ Succeeded(c) /\ reply[c] \notin Foreign => executed[c] > 0

\* The loop of abortAllClientPosts has posts of its transport only while it runs.
AbortKnows(s) ==
  /\ transportUp[s] => abortAt[s] = "none"
  /\ abortAt[s] # "looping" => toAbort[s] = {} /\ abortOf[s] = {}
  /\ \A c \in toAbort[s] \cup abortOf[s] : side[c] = s

CallInv ==
  /\ ClientTypeOK /\ CountTypeOK
  /\ \A s \in Sides : AbortKnows(s)
  /\ \A c \in Callers : AttemptsCounted(c) /\ LateKnows(c) /\ ReplyKnows(c)
  /\ PostsAreCalls

LEMMA CallInvInit == ClientInit => CallInv
  <1> SUFFICES ASSUME ClientInit PROVE CallInv
    OBVIOUS
  <1> USE RpcClientAssumption DEF ClientInit, Sides
  <1>1. ClientTypeOK /\ CountTypeOK
    BY DEF ClientTypeOK, CountTypeOK, CallPlaces, Replies
  <1>2. \A c \in Callers : AttemptsCounted(c) /\ LateKnows(c) /\ ReplyKnows(c)
    BY DEF AttemptsCounted, LateKnows, ReplyKnows, Succeeded, MaxAttempts, Answers
  <1>3. PostsAreCalls
    BY DEF PostsAreCalls, InTransport
  <1>4. \A s \in Sides : AbortKnows(s)
    BY DEF AbortKnows
  <1>5. QED
    BY <1>1, <1>2, <1>3, <1>4 DEF CallInv

LEMMA CallBeginSteps ==
  ASSUME CallInv, NEW c \in Callers,
         SendRequest(c) \/ NoTransportFound(c)
  PROVE  CallInv'
  <1> USE DEF CallInv, abortVars
  <1>1. CASE SendRequest(c)
    <2> USE <1>1 DEF SendRequest, CallMove
    <2>1. ClientTypeOK' /\ CountTypeOK'
      BY RpcClientAssumption DEF ClientTypeOK, CountTypeOK, CallPlaces, Replies
    <2>2. \A d \in Callers : AttemptsCounted(d)'
      BY RpcClientAssumption DEF ClientTypeOK, CountTypeOK, AttemptsCounted, MaxAttempts, Sides
    <2>3. \A d \in Callers : LateKnows(d)'
      BY DEF ClientTypeOK, CountTypeOK, LateKnows, Sides
    <2>4. \A d \in Callers : ReplyKnows(d)'
      BY DEF ClientTypeOK, CountTypeOK, ReplyKnows, Succeeded, Answers, Foreign
    <2>5. PostsAreCalls'
      BY DEF ClientTypeOK, PostsAreCalls, InTransport, GuardFree, AbortKnows
    <2>6. \A t \in Sides : AbortKnows(t)'
      BY DEF ClientTypeOK, PostsAreCalls, AbortKnows
    <2>7. QED
      BY <2>1, <2>2, <2>3, <2>4, <2>5, <2>6
  <1>2. CASE NoTransportFound(c)
    <2> USE <1>2 DEF NoTransportFound, CallMove
    <2>1. ClientTypeOK' /\ CountTypeOK'
      BY RpcClientAssumption DEF ClientTypeOK, CountTypeOK, CallPlaces, Replies
    <2>2. \A d \in Callers : AttemptsCounted(d)'
      BY RpcClientAssumption DEF ClientTypeOK, CountTypeOK, AttemptsCounted, MaxAttempts, Sides
    <2>3. \A d \in Callers : LateKnows(d)'
      BY DEF ClientTypeOK, CountTypeOK, LateKnows, Sides
    <2>4. \A d \in Callers : ReplyKnows(d)'
      BY DEF ClientTypeOK, CountTypeOK, ReplyKnows, Succeeded, Answers, Foreign
    <2>5. PostsAreCalls'
      BY DEF ClientTypeOK, PostsAreCalls, InTransport, GuardFree, AbortKnows
    <2>6. \A t \in Sides : AbortKnows(t)'
      BY DEF ClientTypeOK, PostsAreCalls, AbortKnows
    <2>7. QED
      BY <2>1, <2>2, <2>3, <2>4, <2>5, <2>6
  <1>3. QED
    BY <1>1, <1>2

LEMMA CallSteps ==
  ASSUME CallInv, NEW c \in Callers, CallStep(c) \/ ServerRunsLate(c)
  PROVE  CallInv'
  <1> USE DEF CallInv, abortVars
  <1>1. CASE AddClientPost(c)
    <2> USE <1>1 DEF AddClientPost, CallMove
    <2>1. ClientTypeOK' /\ CountTypeOK'
      BY RpcClientAssumption DEF ClientTypeOK, CountTypeOK, CallPlaces, Replies
    <2>2. \A d \in Callers : AttemptsCounted(d)'
      BY RpcClientAssumption DEF ClientTypeOK, CountTypeOK, AttemptsCounted, MaxAttempts, Sides
    <2>3. \A d \in Callers : LateKnows(d)'
      BY DEF ClientTypeOK, CountTypeOK, LateKnows, Sides
    <2>4. \A d \in Callers : ReplyKnows(d)'
      BY DEF ClientTypeOK, CountTypeOK, ReplyKnows, Succeeded, Answers, Foreign
    <2>5. PostsAreCalls'
      BY DEF ClientTypeOK, PostsAreCalls, InTransport, GuardFree, AbortKnows
    <2>6. \A t \in Sides : AbortKnows(t)'
      BY DEF ClientTypeOK, PostsAreCalls, AbortKnows
    <2>7. QED
      BY <2>1, <2>2, <2>3, <2>4, <2>5, <2>6
  <1>2. CASE Check(c)
    <2> USE <1>2 DEF Check, CallMove, GivesUp
    <2>1. ClientTypeOK' /\ CountTypeOK'
      BY RpcClientAssumption DEF ClientTypeOK, CountTypeOK, CallPlaces, Replies
    <2>2. \A d \in Callers : AttemptsCounted(d)'
      <3>1. attempts[c] < MaxAttempts(side[c])
        BY RpcClientAssumption DEF ClientTypeOK, AttemptsCounted, MaxAttempts, Sides
      <3>2. QED
        BY <3>1 DEF ClientTypeOK, CountTypeOK, AttemptsCounted
    <2>3. \A d \in Callers : LateKnows(d)'
      BY DEF ClientTypeOK, CountTypeOK, LateKnows, Sides
    <2>4. \A d \in Callers : ReplyKnows(d)'
      BY DEF ClientTypeOK, CountTypeOK, ReplyKnows, Succeeded, Answers, Foreign
    <2>5. PostsAreCalls'
      BY DEF ClientTypeOK, PostsAreCalls, InTransport, GuardFree, AbortKnows
    <2>6. \A t \in Sides : AbortKnows(t)'
      BY DEF ClientTypeOK, PostsAreCalls, AbortKnows
    <2>7. QED
      BY <2>1, <2>2, <2>3, <2>4, <2>5, <2>6
  <1>3. CASE Attempt(c)
    <2> USE <1>3 DEF Attempt, CallMove
    <2>1. ClientTypeOK' /\ CountTypeOK'
      <3>1. attempts[c] + 1 \in 0..Retries
        BY RpcClientAssumption DEF ClientTypeOK, AttemptsCounted, MaxAttempts, Sides
      <3>2. ClientTypeOK'
        BY <3>1 DEF ClientTypeOK, CallPlaces
      <3>3. late' \in [Callers -> Nat]
        BY DEF CountTypeOK
      <3>4. QED
        BY <3>2, <3>3 DEF CountTypeOK
    <2>2. \A d \in Callers : AttemptsCounted(d)'
      BY RpcClientAssumption DEF ClientTypeOK, CountTypeOK, AttemptsCounted, MaxAttempts, Sides
    <2>3. \A d \in Callers : LateKnows(d)'
      BY DEF ClientTypeOK, CountTypeOK, LateKnows, Sides
    <2>4. \A d \in Callers : ReplyKnows(d)'
      BY DEF ClientTypeOK, CountTypeOK, ReplyKnows, Succeeded, Answers, Foreign
    <2>5. PostsAreCalls'
      BY DEF ClientTypeOK, PostsAreCalls, InTransport, GuardFree, AbortKnows
    <2>6. \A t \in Sides : AbortKnows(t)'
      BY DEF ClientTypeOK, PostsAreCalls, AbortKnows
    <2>7. QED
      BY <2>1, <2>2, <2>3, <2>4, <2>5, <2>6
  <1>4. CASE AttemptFails(c)
    <2> USE <1>4 DEF AttemptFails, CallMove
    <2>1. ClientTypeOK' /\ CountTypeOK'
      BY RpcClientAssumption DEF ClientTypeOK, CountTypeOK, CallPlaces, Replies
    <2>2. \A d \in Callers : AttemptsCounted(d)'
      BY RpcClientAssumption DEF ClientTypeOK, CountTypeOK, AttemptsCounted, MaxAttempts, Sides
    <2>3. \A d \in Callers : LateKnows(d)'
      BY DEF ClientTypeOK, CountTypeOK, LateKnows, Sides
    <2>4. \A d \in Callers : ReplyKnows(d)'
      BY DEF ClientTypeOK, CountTypeOK, ReplyKnows, Succeeded, Answers, Foreign
    <2>5. PostsAreCalls'
      BY DEF ClientTypeOK, PostsAreCalls, InTransport, GuardFree, AbortKnows
    <2>6. \A t \in Sides : AbortKnows(t)'
      BY DEF ClientTypeOK, PostsAreCalls, AbortKnows
    <2>7. QED
      BY <2>1, <2>2, <2>3, <2>4, <2>5, <2>6
  <1>5. CASE AttemptArrives(c)
    <2> USE <1>5 DEF AttemptArrives
    <2>1. ClientTypeOK' /\ CountTypeOK'
      <3>1. ClientTypeOK'
        BY DEF ClientTypeOK, CallPlaces
      <3>2. onTheWay' \in [Callers -> Nat]
        BY DEF CountTypeOK
      <3>3. QED
        BY <3>1, <3>2 DEF CountTypeOK
    <2>2. \A d \in Callers : AttemptsCounted(d)'
      BY RpcClientAssumption DEF ClientTypeOK, CountTypeOK, AttemptsCounted, MaxAttempts, Sides
    <2>3. \A d \in Callers : LateKnows(d)'
      BY DEF ClientTypeOK, CountTypeOK, LateKnows, Sides
    <2>4. \A d \in Callers : ReplyKnows(d)'
      BY DEF ClientTypeOK, CountTypeOK, ReplyKnows, Succeeded, Answers, Foreign
    <2>5. PostsAreCalls'
      BY DEF ClientTypeOK, PostsAreCalls, InTransport, GuardFree, AbortKnows
    <2>6. \A t \in Sides : AbortKnows(t)'
      BY DEF ClientTypeOK, PostsAreCalls, AbortKnows
    <2>7. QED
      BY <2>1, <2>2, <2>3, <2>4, <2>5, <2>6
  <1>6. CASE AttemptReplied(c)
    <2> USE <1>6 DEF AttemptReplied, CallMove
    <2>1. ClientTypeOK' /\ CountTypeOK'
      <3>1. ClientTypeOK'
        BY DEF ClientTypeOK, CallPlaces
      <3>2. executed' \in [Callers -> Nat]
        BY DEF CountTypeOK
      <3>3. QED
        BY <3>1, <3>2 DEF CountTypeOK
    <2>2. \A d \in Callers : AttemptsCounted(d)'
      BY RpcClientAssumption DEF ClientTypeOK, CountTypeOK, AttemptsCounted, MaxAttempts, Sides
    <2>3. \A d \in Callers : LateKnows(d)'
      BY DEF ClientTypeOK, CountTypeOK, LateKnows, Sides
    <2>4. \A d \in Callers : ReplyKnows(d)'
      <3>1. reply'[c] \in Answers => executed'[c] > 0
        BY DEF ClientTypeOK, CountTypeOK
      <3>2. QED
        BY <3>1 DEF ClientTypeOK, CountTypeOK, ReplyKnows, Succeeded
    <2>5. PostsAreCalls'
      BY DEF ClientTypeOK, PostsAreCalls, InTransport, GuardFree, AbortKnows
    <2>6. \A t \in Sides : AbortKnows(t)'
      BY DEF ClientTypeOK, PostsAreCalls, AbortKnows
    <2>7. QED
      BY <2>1, <2>2, <2>3, <2>4, <2>5, <2>6
  <1>7. CASE Wake(c)
    <2> USE <1>7 DEF Wake, CallMove
    <2>1. ClientTypeOK' /\ CountTypeOK'
      BY RpcClientAssumption DEF ClientTypeOK, CountTypeOK, CallPlaces, Replies
    <2>2. \A d \in Callers : AttemptsCounted(d)'
      BY RpcClientAssumption DEF ClientTypeOK, CountTypeOK, AttemptsCounted, MaxAttempts, Sides
    <2>3. \A d \in Callers : LateKnows(d)'
      BY DEF ClientTypeOK, CountTypeOK, LateKnows, Sides
    <2>4. \A d \in Callers : ReplyKnows(d)'
      BY DEF ClientTypeOK, CountTypeOK, ReplyKnows, Succeeded, Answers, Foreign
    <2>5. PostsAreCalls'
      BY DEF ClientTypeOK, PostsAreCalls, InTransport, GuardFree, AbortKnows
    <2>6. \A t \in Sides : AbortKnows(t)'
      BY DEF ClientTypeOK, PostsAreCalls, AbortKnows
    <2>7. QED
      BY <2>1, <2>2, <2>3, <2>4, <2>5, <2>6
  <1>8. CASE GiveUp(c)
    <2> USE <1>8 DEF GiveUp, CallMove
    <2>1. ClientTypeOK' /\ CountTypeOK'
      BY RpcClientAssumption DEF ClientTypeOK, CountTypeOK, CallPlaces, Replies
    <2>2. \A d \in Callers : AttemptsCounted(d)'
      BY RpcClientAssumption DEF ClientTypeOK, CountTypeOK, AttemptsCounted, MaxAttempts, Sides
    <2>3. \A d \in Callers : LateKnows(d)'
      BY DEF ClientTypeOK, CountTypeOK, LateKnows, Sides
    <2>4. \A d \in Callers : ReplyKnows(d)'
      BY DEF ClientTypeOK, CountTypeOK, ReplyKnows, Succeeded, Answers, Foreign
    <2>5. PostsAreCalls'
      BY DEF ClientTypeOK, PostsAreCalls, InTransport, GuardFree, AbortKnows
    <2>6. \A t \in Sides : AbortKnows(t)'
      BY DEF ClientTypeOK, PostsAreCalls, AbortKnows
    <2>7. QED
      BY <2>1, <2>2, <2>3, <2>4, <2>5, <2>6
  <1>9. CASE CallReturns(c)
    <2> USE <1>9 DEF CallReturns, CallMove, Result, ServerResult, ContentResult, ClientResult
    <2>1. ClientTypeOK' /\ CountTypeOK'
      <3>1. ClientTypeOK'
        BY DEF ClientTypeOK, CallPlaces
      <3>2. Result(side[c], reply[c])
              \in {"none", "keOk", "keOkNoResult", "keError", "keParamError", "crash"}
        BY DEF ClientTypeOK, Sides
      <3>3. QED
        BY <3>1, <3>2 DEF CountTypeOK
    <2>2. \A d \in Callers : AttemptsCounted(d)'
      BY RpcClientAssumption DEF ClientTypeOK, CountTypeOK, AttemptsCounted, MaxAttempts, Sides
    <2>3. \A d \in Callers : LateKnows(d)'
      BY DEF ClientTypeOK, CountTypeOK, LateKnows, Sides
    <2>4. \A d \in Callers : ReplyKnows(d)'
      <3>1. Result(side[c], reply[c]) \in {"keOk", "keOkNoResult"} /\ reply[c] \notin Foreign
              => reply[c] \in Answers
        BY DEF ClientTypeOK, Sides, Answers, Foreign, Replies
      <3>2. QED
        BY <3>1 DEF ClientTypeOK, CountTypeOK, ReplyKnows, Succeeded
    <2>5. PostsAreCalls'
      <3>1. \A t \in Sides : c \notin toAbort[t] \cup abortOf[t]
        BY DEF ClientTypeOK, GuardFree, AbortKnows
      <3>2. QED
        BY <3>1 DEF ClientTypeOK, PostsAreCalls, InTransport
    <2>6. \A t \in Sides : AbortKnows(t)'
      BY DEF ClientTypeOK, PostsAreCalls, AbortKnows
    <2>7. QED
      BY <2>1, <2>2, <2>3, <2>4, <2>5, <2>6
  <1>10. CASE ServerRunsLate(c)
    <2> USE <1>10 DEF ServerRunsLate
    <2>1. ClientTypeOK' /\ CountTypeOK'
      <3>1. onTheWay' \in [Callers -> Nat] /\ executed' \in [Callers -> Nat]
        BY DEF CountTypeOK
      <3>2. QED
        BY <3>1 DEF ClientTypeOK, CountTypeOK
    <2>2. \A d \in Callers : AttemptsCounted(d)'
      BY RpcClientAssumption DEF ClientTypeOK, CountTypeOK, AttemptsCounted, MaxAttempts, Sides
    <2>3. \A d \in Callers : LateKnows(d)'
      BY DEF ClientTypeOK, CountTypeOK, LateKnows, Sides
    <2>4. \A d \in Callers : ReplyKnows(d)'
      <3>1. \A d \in Callers : executed[d] > 0 => executed'[d] > 0
        BY DEF CountTypeOK
      <3>2. QED
        BY <3>1 DEF ReplyKnows, Succeeded
    <2>5. PostsAreCalls'
      BY DEF ClientTypeOK, PostsAreCalls, InTransport, GuardFree, AbortKnows
    <2>6. \A t \in Sides : AbortKnows(t)'
      BY DEF ClientTypeOK, PostsAreCalls, AbortKnows
    <2>7. QED
      BY <2>1, <2>2, <2>3, <2>4, <2>5, <2>6
  <1>11. CASE AttemptHangs(c)
    <2> USE <1>11 DEF AttemptHangs, CallMove
    <2>1. ClientTypeOK' /\ CountTypeOK'
      <3>1. ClientTypeOK'
        BY DEF ClientTypeOK, CallPlaces
      <3>2. onTheWay' \in [Callers -> Nat]
        BY DEF CountTypeOK
      <3>3. QED
        BY <3>1, <3>2 DEF CountTypeOK
    <2>2. \A d \in Callers : AttemptsCounted(d)'
      BY RpcClientAssumption DEF ClientTypeOK, CountTypeOK, AttemptsCounted, MaxAttempts, Sides
    <2>3. \A d \in Callers : LateKnows(d)'
      BY DEF ClientTypeOK, CountTypeOK, LateKnows, Sides
    <2>4. \A d \in Callers : ReplyKnows(d)'
      BY DEF ClientTypeOK, CountTypeOK, ReplyKnows, Succeeded, Answers, Foreign
    <2>5. PostsAreCalls'
      BY DEF ClientTypeOK, PostsAreCalls, InTransport, GuardFree, AbortKnows
    <2>6. \A t \in Sides : AbortKnows(t)'
      BY DEF ClientTypeOK, PostsAreCalls, AbortKnows
    <2>7. QED
      BY <2>1, <2>2, <2>3, <2>4, <2>5, <2>6
  <1>12. QED
    BY <1>1, <1>2, <1>3, <1>4, <1>5, <1>6, <1>7, <1>8, <1>9, <1>10, <1>11 DEF CallStep

LEMMA TransportSteps ==
  ASSUME CallInv, NEW s \in Sides,
         RemoveClientTransport(s) \/ TransportStops(s) \/ AbortAllClientPosts(s)
  PROVE  CallInv'
  <1> USE DEF CallInv, abortVars
  <1>1. CASE RemoveClientTransport(s)
    <2> USE <1>1 DEF RemoveClientTransport
    <2>1. ClientTypeOK' /\ CountTypeOK'
      BY RpcClientAssumption DEF ClientTypeOK, CountTypeOK, CallPlaces, Replies
    <2>2. \A d \in Callers : AttemptsCounted(d)'
      BY RpcClientAssumption DEF ClientTypeOK, CountTypeOK, AttemptsCounted, MaxAttempts, Sides
    <2>3. \A d \in Callers : LateKnows(d)'
      BY DEF ClientTypeOK, CountTypeOK, LateKnows, Sides
    <2>4. \A d \in Callers : ReplyKnows(d)'
      BY DEF ClientTypeOK, CountTypeOK, ReplyKnows, Succeeded, Answers, Foreign
    <2>5. PostsAreCalls'
      BY DEF ClientTypeOK, PostsAreCalls, InTransport, GuardFree, AbortKnows
    <2>6. \A t \in Sides : AbortKnows(t)'
      BY DEF ClientTypeOK, PostsAreCalls, AbortKnows
    <2>7. QED
      BY <2>1, <2>2, <2>3, <2>4, <2>5, <2>6
  <1>2. CASE TransportStops(s)
    <2> USE <1>2 DEF TransportStops
    <2>1. ClientTypeOK' /\ CountTypeOK'
      BY RpcClientAssumption DEF ClientTypeOK, CountTypeOK, CallPlaces, Replies
    <2>2. \A d \in Callers : AttemptsCounted(d)'
      BY RpcClientAssumption DEF ClientTypeOK, CountTypeOK, AttemptsCounted, MaxAttempts, Sides
    <2>3. \A d \in Callers : LateKnows(d)'
      BY DEF ClientTypeOK, CountTypeOK, LateKnows, Sides
    <2>4. \A d \in Callers : ReplyKnows(d)'
      BY DEF ClientTypeOK, CountTypeOK, ReplyKnows, Succeeded, Answers, Foreign
    <2>5. PostsAreCalls'
      BY DEF ClientTypeOK, PostsAreCalls, InTransport, GuardFree, AbortKnows
    <2>6. \A t \in Sides : AbortKnows(t)'
      BY DEF ClientTypeOK, PostsAreCalls, AbortKnows
    <2>7. QED
      BY <2>1, <2>2, <2>3, <2>4, <2>5, <2>6
  <1>3. CASE CountClientPosts(s)
    <2> USE <1>3 DEF CountClientPosts
    <2>1. ClientTypeOK' /\ CountTypeOK'
      BY RpcClientAssumption DEF ClientTypeOK, CountTypeOK, CallPlaces, Replies
    <2>2. \A d \in Callers : AttemptsCounted(d)'
      BY RpcClientAssumption DEF ClientTypeOK, CountTypeOK, AttemptsCounted, MaxAttempts, Sides
    <2>3. \A d \in Callers : LateKnows(d)'
      BY DEF ClientTypeOK, CountTypeOK, LateKnows, Sides
    <2>4. \A d \in Callers : ReplyKnows(d)'
      BY DEF ClientTypeOK, CountTypeOK, ReplyKnows, Succeeded, Answers, Foreign
    <2>5. PostsAreCalls'
      BY DEF ClientTypeOK, PostsAreCalls, InTransport, GuardFree, AbortKnows
    <2>6. \A t \in Sides : AbortKnows(t)'
      BY DEF ClientTypeOK, PostsAreCalls, AbortKnows
    <2>7. QED
      BY <2>1, <2>2, <2>3, <2>4, <2>5, <2>6
  <1>4. CASE LockClientPosts(s)
    <2> USE <1>4 DEF LockClientPosts, OfSide
    <2>1. ClientTypeOK' /\ CountTypeOK'
      <3>1. toAbort' \in [Sides -> SUBSET Callers]
        BY DEF ClientTypeOK
      <3>2. QED
        BY <3>1 DEF ClientTypeOK, CountTypeOK
    <2>2. \A d \in Callers : AttemptsCounted(d)'
      BY RpcClientAssumption DEF ClientTypeOK, CountTypeOK, AttemptsCounted, MaxAttempts, Sides
    <2>3. \A d \in Callers : LateKnows(d)'
      BY DEF ClientTypeOK, CountTypeOK, LateKnows, Sides
    <2>4. \A d \in Callers : ReplyKnows(d)'
      BY DEF ClientTypeOK, CountTypeOK, ReplyKnows, Succeeded, Answers, Foreign
    <2>5. PostsAreCalls'
      BY DEF ClientTypeOK, PostsAreCalls, InTransport, GuardFree, AbortKnows
    <2>6. \A t \in Sides : AbortKnows(t)'
      BY DEF ClientTypeOK, PostsAreCalls, AbortKnows
    <2>7. QED
      BY <2>1, <2>2, <2>3, <2>4, <2>5, <2>6
  <1>5. CASE \E c \in Callers : AbortSend(s, c)
    <2> USE <1>5 DEF AbortSend
    <2>1. ClientTypeOK' /\ CountTypeOK'
      <3>1. /\ toAbort' \in [Sides -> SUBSET Callers] /\ abortOf' \in [Sides -> SUBSET Callers]
            /\ aborting' \subseteq Callers
        BY DEF ClientTypeOK, CountTypeOK
      <3>2. QED
        BY <3>1 DEF ClientTypeOK, CountTypeOK
    <2>2. \A d \in Callers : AttemptsCounted(d)'
      BY RpcClientAssumption DEF ClientTypeOK, CountTypeOK, AttemptsCounted, MaxAttempts, Sides
    <2>3. \A d \in Callers : LateKnows(d)'
      BY DEF ClientTypeOK, CountTypeOK, LateKnows, Sides
    <2>4. \A d \in Callers : ReplyKnows(d)'
      BY DEF ClientTypeOK, CountTypeOK, ReplyKnows, Succeeded, Answers, Foreign
    <2>5. PostsAreCalls'
      BY DEF ClientTypeOK, PostsAreCalls, InTransport, GuardFree, AbortKnows
    <2>6. \A t \in Sides : AbortKnows(t)'
      BY DEF ClientTypeOK, PostsAreCalls, AbortKnows
    <2>7. QED
      BY <2>1, <2>2, <2>3, <2>4, <2>5, <2>6
  <1>6. CASE SendAborted(s)
    <2> USE <1>6 DEF SendAborted
    <2>1. ClientTypeOK' /\ CountTypeOK'
      <3>1. abortOf' \in [Sides -> SUBSET Callers]
        BY DEF ClientTypeOK
      <3>2. QED
        BY <3>1 DEF ClientTypeOK, CountTypeOK
    <2>2. \A d \in Callers : AttemptsCounted(d)'
      BY RpcClientAssumption DEF ClientTypeOK, CountTypeOK, AttemptsCounted, MaxAttempts, Sides
    <2>3. \A d \in Callers : LateKnows(d)'
      BY DEF ClientTypeOK, CountTypeOK, LateKnows, Sides
    <2>4. \A d \in Callers : ReplyKnows(d)'
      BY DEF ClientTypeOK, CountTypeOK, ReplyKnows, Succeeded, Answers, Foreign
    <2>5. PostsAreCalls'
      BY DEF ClientTypeOK, PostsAreCalls, InTransport, GuardFree, AbortKnows
    <2>6. \A t \in Sides : AbortKnows(t)'
      BY DEF ClientTypeOK, PostsAreCalls, AbortKnows
    <2>7. QED
      BY <2>1, <2>2, <2>3, <2>4, <2>5, <2>6
  <1>7. CASE UnlockClientPosts(s)
    <2> USE <1>7 DEF UnlockClientPosts
    <2>1. ClientTypeOK' /\ CountTypeOK'
      BY RpcClientAssumption DEF ClientTypeOK, CountTypeOK, CallPlaces, Replies
    <2>2. \A d \in Callers : AttemptsCounted(d)'
      BY RpcClientAssumption DEF ClientTypeOK, CountTypeOK, AttemptsCounted, MaxAttempts, Sides
    <2>3. \A d \in Callers : LateKnows(d)'
      BY DEF ClientTypeOK, CountTypeOK, LateKnows, Sides
    <2>4. \A d \in Callers : ReplyKnows(d)'
      BY DEF ClientTypeOK, CountTypeOK, ReplyKnows, Succeeded, Answers, Foreign
    <2>5. PostsAreCalls'
      BY DEF ClientTypeOK, PostsAreCalls, InTransport, GuardFree, AbortKnows
    <2>6. \A t \in Sides : AbortKnows(t)'
      BY DEF ClientTypeOK, PostsAreCalls, AbortKnows
    <2>7. QED
      BY <2>1, <2>2, <2>3, <2>4, <2>5, <2>6
  <1>8. QED
    BY <1>1, <1>2, <1>3, <1>4, <1>5, <1>6, <1>7 DEF AbortAllClientPosts

\* For any callers and retries, lost connections and transports that stop: who is
\* told of success had its method run, and after the stop of a transport at most
\* what was on its way is still carried out.
THEOREM CallIsSafe == ClientSpec => []CallSafe
  <1>1. CallInv /\ [ClientNext]_clientVars => CallInv'
    <2>1. ASSUME CallInv, UNCHANGED clientVars PROVE CallInv'
      BY <2>1 DEF clientVars, abortVars, CallInv, ClientTypeOK, CountTypeOK, AttemptsCounted,
                  LateKnows, ReplyKnows, Succeeded, PostsAreCalls, InTransport, AbortKnows
    <2>2. QED
      BY <2>1, CallBeginSteps, CallSteps, TransportSteps DEF ClientNext
  <1>2. CallInv => CallSafe
    BY DEF CallInv, AttemptsCounted, LateKnows, ReplyKnows, CallSafe, SuccessMeansExecuted,
           QuietAfterStop
  <1>3. QED
    BY <1>1, <1>2, CallInvInit, PTL DEF ClientSpec

-----------------------------------------------------------------------------
(* RpcDispatch *)

\* What is referenced, and what each worker has of it.
ReferenceTypeOK ==
  /\ tenants \in [DOMAIN tenants -> Interfaces \cup {NoObject}]
  /\ methods \in [Interfaces -> Methods \cup {NoObject}]
  /\ lost \subseteq Interfaces \cup Methods
  /\ dispatching \in [DispatchWorkers -> {"idle", "next", "found", "calling", "done"}]
  /\ callee \in [DispatchWorkers -> Interfaces \cup {NoObject}]
  /\ method \in [DispatchWorkers -> Methods \cup {NoObject}]

\* Nothing that is in a map, in the table of an interface that lives, or in the
\* hands of a worker is lost.
HeldLives ==
  /\ \A t \in DOMAIN tenants : tenants[t] \notin lost
  /\ \A i \in Interfaces \ lost : methods[i] \notin lost
  /\ \A w \in DispatchWorkers : callee[w] \notin lost /\ method[w] \notin lost

WorkerHas ==
  \A w \in DispatchWorkers :
    /\ dispatching[w] \in {"found", "calling"} => callee[w] # NoObject
    /\ dispatching[w] = "calling" => method[w] # NoObject

ReferenceInv ==
  /\ ReferenceTypeOK /\ HeldLives /\ WorkerHas
  /\ \A c \in calls : c.method # NoObject

\* Who releases something loses only what nobody holds.
LEMMA ReleaseKeepsHeld ==
  ASSUME ReferenceInv, Release,
         tenants' \in [DOMAIN tenants' -> Interfaces \cup {NoObject}],
         methods' \in [Interfaces -> Methods \cup {NoObject}],
         callee' \in [DispatchWorkers -> Interfaces \cup {NoObject}],
         method' \in [DispatchWorkers -> Methods \cup {NoObject}],
         \A t \in DOMAIN tenants' : tenants'[t] \notin lost,
         \A i \in Interfaces \ lost : methods'[i] \notin lost,
         \A w \in DispatchWorkers : callee'[w] \notin lost /\ method'[w] \notin lost
  PROVE  HeldLives' /\ lost' \subseteq Interfaces \cup Methods
  <1> USE RpcDispatchAssumption DEF ReferenceInv, ReferenceTypeOK
  <1> DEFINE unheld == HeldInterfaces(tenants, callee) \ HeldInterfaces(tenants', callee')
             unused == HeldMethods(Interfaces \ lost, methods, method)
                         \ HeldMethods(Interfaces \ (lost \cup unheld), methods', method')
  <1>1. lost' = lost \cup ((unheld \cup unused) \ {NoObject})
    BY DEF Release
  <1>2. unheld \subseteq Interfaces \cup {NoObject} /\ unused \subseteq Methods \cup {NoObject}
    BY DEF HeldInterfaces, HeldMethods
  <1>3. /\ \A t \in DOMAIN tenants' : tenants'[t] \notin unheld
        /\ \A w \in DispatchWorkers : callee'[w] \notin unheld
    BY DEF HeldInterfaces
  <1>4. /\ \A i \in Interfaces \ (lost \cup unheld) : methods'[i] \notin unused
        /\ \A w \in DispatchWorkers : method'[w] \notin unused
    BY DEF HeldMethods
  <1> HIDE DEF unheld, unused
  <1>5. lost' \subseteq Interfaces \cup Methods
    BY <1>1, <1>2
  <1>6. \A t \in DOMAIN tenants' : tenants'[t] \notin lost'
    BY <1>1, <1>2, <1>3
  <1>7. \A i \in Interfaces \ lost' : methods'[i] \notin lost'
    BY <1>1, <1>2, <1>4
  <1>8. \A w \in DispatchWorkers : callee'[w] \notin lost' /\ method'[w] \notin lost'
    BY <1>1, <1>2, <1>3, <1>4
  <1>9. QED
    BY <1>5, <1>6, <1>7, <1>8 DEF HeldLives

Administration ==
  \/ \E i \in Interfaces :
       \/ \E t \in Tenants : AddInterface(t, i)
       \/ \E m \in Methods : AddMethod(i, m)
       \/ RemoveMethod(i)
  \/ \E t \in Tenants : RemoveInterface(t)

LEMMA AdministrationKeepsReferences ==
  ASSUME ReferenceInv, Administration
  PROVE  ReferenceInv'
  <1> USE RpcDispatchAssumption DEF ReferenceInv, ReferenceTypeOK
  <1>1. UNCHANGED <<dispatching, callee, method, calls>> /\ Release
    BY DEF Administration, AddInterface, RemoveInterface, AddMethod, RemoveMethod
  <1>2. /\ tenants' \in [DOMAIN tenants' -> Interfaces \cup {NoObject}]
        /\ \A u \in DOMAIN tenants' : tenants'[u] \notin lost
    <2>1. CASE \E i \in Interfaces, t \in Tenants : AddInterface(t, i)
      BY <2>1 DEF AddInterface, HeldLives
    <2>2. CASE \E t \in Tenants : RemoveInterface(t)
      BY <2>2 DEF RemoveInterface, HeldLives
    <2>3. CASE UNCHANGED tenants
      BY <2>3 DEF HeldLives
    <2>4. QED
      BY <2>1, <2>2, <2>3 DEF Administration, AddMethod, RemoveMethod
  <1>3. /\ methods' \in [Interfaces -> Methods \cup {NoObject}]
        /\ \A j \in Interfaces \ lost : methods'[j] \notin lost
    <2>1. CASE \E i \in Interfaces, m \in Methods : AddMethod(i, m)
      BY <2>1 DEF AddMethod, HeldLives
    <2>2. CASE \E i \in Interfaces : RemoveMethod(i)
      BY <2>2 DEF RemoveMethod, HeldLives
    <2>3. CASE UNCHANGED methods
      BY <2>3 DEF HeldLives
    <2>4. QED
      BY <2>1, <2>2, <2>3 DEF Administration, AddInterface, RemoveInterface
  <1>4. HeldLives' /\ lost' \subseteq Interfaces \cup Methods
    BY <1>1, <1>2, <1>3, ReleaseKeepsHeld DEF HeldLives
  <1>5. QED
    BY <1>1, <1>2, <1>3, <1>4 DEF WorkerHas

LEMMA DispatchKeepsReferences ==
  ASSUME ReferenceInv, NEW w \in DispatchWorkers,
         DispatchStep(w) \/ (\E t \in Tenants, s \in Seq(Instructions) : Dispatch(w, t, s))
  PROVE  ReferenceInv'
  <1> USE RpcDispatchAssumption DEF ReferenceInv, ReferenceTypeOK, DispatchMove, After
  <1>1. CASE \/ BadInstruction(w) \/ NoInterface(w)
             \/ \E t \in Tenants, s \in Seq(Instructions) : Dispatch(w, t, s)
    <2>1. /\ UNCHANGED <<tenants, methods, callee, method, calls, lost>>
          /\ \E place \in {"next", "done"} :
               dispatching' = [dispatching EXCEPT ![w] = place]
      <3>1. CASE BadInstruction(w)
        BY <3>1 DEF BadInstruction
      <3>2. CASE NoInterface(w)
        BY <3>2 DEF NoInterface
      <3>3. CASE \E t \in Tenants, s \in Seq(Instructions) : Dispatch(w, t, s)
        BY <3>3 DEF Dispatch
      <3>4. QED
        BY <1>1, <3>1, <3>2, <3>3
    <2>2. HeldLives'
      BY <2>1 DEF HeldLives
    <2>3. WorkerHas'
      BY <2>1 DEF WorkerHas
    <2>4. QED
      BY <2>1, <2>2, <2>3
  <1>2. CASE FindInterface(w)
    BY <1>2 DEF FindInterface, Found, HeldLives, WorkerHas
  <1>3. CASE FindMethod(w)
    BY <1>3 DEF FindMethod, HeldLives, WorkerHas
  <1>4. CASE NoMethod(w) \/ CallMethod(w)
    <2>1. /\ UNCHANGED <<tenants, methods>> /\ Release
          /\ callee' = [callee EXCEPT ![w] = NoObject]
          /\ method' \in {method, [method EXCEPT ![w] = NoObject]}
          /\ dispatching' = [dispatching EXCEPT ![w] = After(w)]
      BY <1>4 DEF NoMethod, CallMethod
    <2>2. HeldLives' /\ lost' \subseteq Interfaces \cup Methods
      BY <2>1, ReleaseKeepsHeld DEF HeldLives
    <2>3. WorkerHas'
      BY <2>1 DEF WorkerHas
    <2>4. \A c \in calls' : c.method # NoObject
      <3>1. CASE NoMethod(w)
        BY <3>1 DEF NoMethod
      <3>2. CASE CallMethod(w)
        <4>1. method[w] # NoObject
          BY <3>2 DEF CallMethod, WorkerHas
        <4>2. calls' = calls \cup {[worker |-> w, at |-> at[w], method |-> method[w]]}
          BY <3>2 DEF CallMethod
        <4>3. QED
          BY <4>1, <4>2
      <3>3. QED
        BY <1>4, <3>1, <3>2
    <2>5. QED
      BY <2>1, <2>2, <2>3, <2>4
  <1>5. QED
    BY <1>1, <1>2, <1>3, <1>4 DEF DispatchStep

-----------------------------------------------------------------------------
Called == {"keOk", "keOk and node", "keError"}
DispatchResults == Called \cup {"keParamError", "keNoRpcObjectParam", "keNoRpcObject"}

ResultTypeOK ==
  /\ dispatching \in [DispatchWorkers -> {"idle", "next", "found", "calling", "done"}]
  /\ request \in [DispatchWorkers -> Seq(Instructions)]
  /\ at \in [DispatchWorkers -> Nat]
  /\ results \in [DispatchWorkers -> Seq(DispatchResults)]

\* There is a result for every instruction behind the worker, and none ahead.
ResultsUpTo(w) ==
  /\ dispatching[w] = "idle" => at[w] = 0 /\ results[w] = <<>>
  /\ dispatching[w] \in {"next", "found", "calling"} =>
       at[w] \in 1..Len(request[w]) /\ Len(results[w]) = at[w] - 1
  /\ dispatching[w] = "done" =>
       Len(results[w]) = IF request[w] = <<>> THEN 1 ELSE Len(request[w])

\* The calls of a worker are those its results tell of.
CallsToldOf(w) ==
  /\ \A c \in calls : c.worker = w => c.at \in 1..Len(results[w])
  /\ \A i \in 1..Len(results[w]) :
       (\E c \in calls : c.worker = w /\ c.at = i) <=> results[w][i] \in Called

ResultInv == ResultTypeOK /\ \A w \in DispatchWorkers : ResultsUpTo(w) /\ CallsToldOf(w)

LEMMA AppendedResult ==
  \A s \in Seq(DispatchResults), r \in DispatchResults :
    /\ Append(s, r) \in Seq(DispatchResults)
    /\ Len(Append(s, r)) = Len(s) + 1
    /\ Append(s, r)[Len(s) + 1] = r
    /\ \A i \in 1..Len(s) : Append(s, r)[i] = s[i]
  OBVIOUS

\* One more instruction is behind the worker, and was called or not.
LEMMA AnsweredKeepsResults ==
  ASSUME ResultInv, NEW w \in DispatchWorkers, NEW r \in DispatchResults,
         dispatching[w] \in {"next", "found", "calling"},
         dispatching' = [dispatching EXCEPT ![w] = After(w)],
         at' = [at EXCEPT ![w] = at[w] + 1],
         request' = request,
         results' = [results EXCEPT ![w] = Append(results[w], r)],
         NEW m,
         \/ r \notin Called /\ calls' = calls
         \/ r \in Called /\ calls' = calls \cup {[worker |-> w, at |-> at[w], method |-> m]}
  PROVE  ResultInv'
  <1> USE DEF ResultInv
  <1>1. at[w] \in 1..Len(request[w]) /\ Len(results[w]) = at[w] - 1
    BY DEF ResultsUpTo
  <1>2. request[w] \in Seq(Instructions) /\ Len(request[w]) \in Nat /\ at[w] \in Nat
        /\ results[w] \in Seq(DispatchResults) /\ Len(results[w]) \in Nat
    BY DEF ResultTypeOK
  <1>3. results'[w] = Append(results[w], r)
    BY DEF ResultTypeOK
  <1>4. /\ results'[w] \in Seq(DispatchResults)
        /\ Len(results'[w]) = Len(results[w]) + 1
        /\ results'[w][at[w]] = r
        /\ \A i \in 1..Len(results[w]) : results'[w][i] = results[w][i]
    BY <1>1, <1>2, <1>3, AppendedResult
  <1>5. ResultTypeOK'
    BY <1>3, <1>4 DEF ResultTypeOK, After
  <1>6. ResultsUpTo(w)'
    BY <1>1, <1>2, <1>4 DEF ResultTypeOK, ResultsUpTo, After
  <1>7. CallsToldOf(w)'
    <2>1. \A c \in calls : c.worker = w => c.at \in 1..Len(results[w])
      BY DEF CallsToldOf
    <2>2. \A c \in calls' : c.worker = w => c.at \in 1..Len(results'[w])
      BY <1>1, <1>2, <1>4, <2>1
    <2>3. ASSUME NEW i \in 1..Len(results[w])
          PROVE  (\E c \in calls' : c.worker = w /\ c.at = i) <=> results'[w][i] \in Called
      BY <1>1, <1>2, <1>4, <2>3 DEF CallsToldOf
    <2>4. (\E c \in calls' : c.worker = w /\ c.at = at[w]) <=> results'[w][at[w]] \in Called
      <3>1. ~\E c \in calls : c.worker = w /\ c.at = at[w]
        BY <1>1, <1>2, <2>1
      <3>2. CASE r \in Called
        <4>1. [worker |-> w, at |-> at[w], method |-> m] \in calls'
          BY <3>2
        <4>2. QED
          BY <1>4, <3>2, <4>1
      <3>3. CASE r \notin Called
        BY <1>4, <3>1, <3>3
      <3>4. QED
        BY <3>2, <3>3
    <2>5. 1..Len(results'[w]) = 1..Len(results[w]) \cup {at[w]}
      BY <1>1, <1>2, <1>4
    <2>6. QED
      BY <2>2, <2>3, <2>4, <2>5 DEF CallsToldOf
  <1>8. ASSUME NEW v \in DispatchWorkers, v # w
        PROVE  (ResultsUpTo(v) /\ CallsToldOf(v))'
    <2>1. UNCHANGED <<dispatching[v], at[v], request[v], results[v]>>
      BY <1>8 DEF ResultTypeOK
    <2>2. ResultsUpTo(v)'
      BY <2>1 DEF ResultsUpTo
    <2>3. \A c : c.worker = v => (c \in calls' <=> c \in calls)
      BY <1>8
    <2>4. \A c \in calls' : c.worker = v => c.at \in 1..Len(results'[v])
      BY <2>1, <2>3 DEF CallsToldOf
    <2>5. ASSUME NEW i \in 1..Len(results'[v])
          PROVE  (\E c \in calls' : c.worker = v /\ c.at = i) <=> results'[v][i] \in Called
      <3>1. (\E c \in calls : c.worker = v /\ c.at = i) <=> results[v][i] \in Called
        BY <2>1, <2>5 DEF CallsToldOf
      <3>2. QED
        BY <2>1, <2>3, <3>1
    <2>6. QED
      BY <2>2, <2>4, <2>5 DEF CallsToldOf
  <1>9. QED
    BY <1>5, <1>6, <1>7, <1>8

LEMMA DispatchKeepsResults ==
  ASSUME ResultInv, NEW w \in DispatchWorkers,
         DispatchStep(w) \/ (\E t \in Tenants, s \in Seq(Instructions) : Dispatch(w, t, s))
  PROVE  ResultInv'
  <1> USE DEF DispatchMove
  <1>1. CASE BadInstruction(w)
    <2> DEFINE r == IF Instruction(w) = "no object" THEN "keNoRpcObjectParam" ELSE "keParamError"
    <2>1. r \in DispatchResults /\ r \notin Called
      BY DEF DispatchResults, Called
    <2>2. /\ dispatching[w] \in {"next", "found", "calling"}
          /\ dispatching' = [dispatching EXCEPT ![w] = After(w)]
          /\ at' = [at EXCEPT ![w] = at[w] + 1] /\ request' = request
          /\ results' = [results EXCEPT ![w] = Append(results[w], r)] /\ calls' = calls
      BY <1>1 DEF BadInstruction, Answer, ResultInv, ResultTypeOK
    <2>3. QED
      BY <2>1, <2>2, AnsweredKeepsResults
  <1>2. CASE NoInterface(w)
    <2> DEFINE r == "keNoRpcObject"
    <2>1. r \in DispatchResults /\ r \notin Called
      BY DEF DispatchResults, Called
    <2>2. /\ dispatching[w] \in {"next", "found", "calling"}
          /\ dispatching' = [dispatching EXCEPT ![w] = After(w)]
          /\ at' = [at EXCEPT ![w] = at[w] + 1] /\ request' = request
          /\ results' = [results EXCEPT ![w] = Append(results[w], r)] /\ calls' = calls
      BY <1>2 DEF NoInterface, Answer, ResultInv, ResultTypeOK
    <2>3. QED
      BY <2>1, <2>2, AnsweredKeepsResults
  <1>3. CASE NoMethod(w)
    <2> DEFINE r == "keParamError"
    <2>1. r \in DispatchResults /\ r \notin Called
      BY DEF DispatchResults, Called
    <2>2. /\ dispatching[w] \in {"next", "found", "calling"}
          /\ dispatching' = [dispatching EXCEPT ![w] = After(w)]
          /\ at' = [at EXCEPT ![w] = at[w] + 1] /\ request' = request
          /\ results' = [results EXCEPT ![w] = Append(results[w], r)] /\ calls' = calls
      BY <1>3 DEF NoMethod, Answer, ResultInv, ResultTypeOK
    <2>3. QED
      BY <2>1, <2>2, AnsweredKeepsResults
  <1>4. CASE CallMethod(w)
    BY <1>4, AnsweredKeepsResults DEF CallMethod, Answer, DispatchResults, Called
  <1>5. CASE FindInterface(w) \/ FindMethod(w)
    <2>1. /\ dispatching[w] \in {"next", "found"}
          /\ \E p \in {"found", "calling"} : dispatching' = [dispatching EXCEPT ![w] = p]
          /\ UNCHANGED <<request, at, results, calls>>
      BY <1>5 DEF FindInterface, FindMethod
    <2>2. QED
      BY <2>1 DEF ResultInv, ResultTypeOK, ResultsUpTo, CallsToldOf
  <1>6. ASSUME NEW t \in Tenants, NEW s \in Seq(Instructions), Dispatch(w, t, s)
        PROVE  ResultInv'
    <2>1. /\ dispatching[w] = "idle" /\ calls' = calls
          /\ dispatching' = [dispatching EXCEPT ![w] = IF s = <<>> THEN "done" ELSE "next"]
          /\ request' = [request EXCEPT ![w] = s]
          /\ at' = [at EXCEPT ![w] = 1]
          /\ results' = [results EXCEPT ![w] =
                            IF s = <<>> THEN Append(results[w], "keParamError") ELSE results[w]]
      BY <1>6 DEF Dispatch, Answer, ResultInv, ResultTypeOK
    <2>2. results[w] = <<>> /\ at[w] = 0 /\ ~\E c \in calls : c.worker = w
      BY <2>1 DEF ResultInv, ResultsUpTo, CallsToldOf
    <2>3. Append(<<>>, "keParamError") = <<"keParamError">>
      OBVIOUS
    <2>4. ResultTypeOK'
      <3>1. results'[w] \in Seq(DispatchResults)
        <4>1. <<"keParamError">> \in Seq(DispatchResults) /\ <<>> \in Seq(DispatchResults)
          BY DEF DispatchResults, Called
        <4>2. results'[w] \in {<<"keParamError">>, <<>>}
          BY <2>1, <2>2, <2>3 DEF ResultInv, ResultTypeOK
        <4>3. QED
          BY <4>1, <4>2
      <3>2. QED
        BY <2>1, <3>1 DEF ResultInv, ResultTypeOK
    <2>5. ResultsUpTo(w)'
      BY <2>1, <2>2, <2>3 DEF ResultInv, ResultTypeOK, ResultsUpTo
    <2>6. CallsToldOf(w)'
      <3>1. results'[w] \in {<<"keParamError">>, <<>>}
        BY <2>1, <2>2, <2>3 DEF ResultInv, ResultTypeOK
      <3>2. \A i \in 1..Len(results'[w]) : results'[w][i] \notin Called
        <4>1. CASE results'[w] = <<"keParamError">>
          <5>1. Len(<<"keParamError">>) = 1 /\ <<"keParamError">>[1] = "keParamError"
            OBVIOUS
          <5>2. "keParamError" \notin Called
            BY DEF Called
          <5>3. QED
            BY <4>1, <5>1, <5>2
        <4>2. CASE results'[w] = <<>>
          BY <4>2
        <4>3. QED
          BY <3>1, <4>1, <4>2
      <3>3. QED
        BY <2>1, <2>2, <3>2 DEF CallsToldOf
    <2>7. \A v \in DispatchWorkers \ {w} : (ResultsUpTo(v) /\ CallsToldOf(v))'
      BY <2>1 DEF ResultInv, ResultTypeOK, ResultsUpTo, CallsToldOf
    <2>8. QED
      BY <2>4, <2>5, <2>6, <2>7 DEF ResultInv
  <1>7. QED
    BY <1>1, <1>2, <1>3, <1>4, <1>5, <1>6 DEF DispatchStep

LEMMA MaxWithOne == \A n \in Nat : Max({1, n}) = IF n = 0 THEN 1 ELSE n
  <1> SUFFICES ASSUME NEW n \in Nat PROVE Max({1, n}) = IF n = 0 THEN 1 ELSE n
    OBVIOUS
  <1> DEFINE top == IF n = 0 THEN 1 ELSE n
  <1>1. top \in {1, n} /\ \A y \in {1, n} : top >= y
    OBVIOUS
  <1>2. \A x \in {1, n} : (\A y \in {1, n} : x >= y) => x = top
    OBVIOUS
  <1>3. QED
    BY <1>1, <1>2 DEF Max

\* For any requests and any administration meanwhile: what the dispatcher calls is
\* referenced until the call is over, and every instruction gets one result.
THEOREM DispatchIsSafe == DispatchSpec => []DispatchSafe
  <1>1. DispatchInit => ReferenceInv /\ ResultInv
    <2> SUFFICES ASSUME DispatchInit PROVE ReferenceInv /\ ResultInv
      OBVIOUS
    <2> USE RpcDispatchAssumption DEF DispatchInit
    <2>1. ReferenceInv
      BY DEF ReferenceInv, ReferenceTypeOK, HeldLives, WorkerHas
    <2>2. ResultInv
      BY DEF ResultInv, ResultTypeOK, ResultsUpTo, CallsToldOf
    <2>3. QED
      BY <2>1, <2>2
  <1>2. ReferenceInv /\ ResultInv /\ [DispatchNext]_dispatchVars => ReferenceInv' /\ ResultInv'
    <2> SUFFICES ASSUME ReferenceInv, ResultInv, [DispatchNext]_dispatchVars
                 PROVE  ReferenceInv' /\ ResultInv'
      OBVIOUS
    <2>1. CASE UNCHANGED dispatchVars
      BY <2>1 DEF dispatchVars, ReferenceInv, ReferenceTypeOK, HeldLives, WorkerHas, ResultInv,
                  ResultTypeOK,
                  ResultsUpTo, CallsToldOf
    <2>2. ASSUME NEW w \in DispatchWorkers, DispatchStep(w)
          PROVE  ReferenceInv' /\ ResultInv'
      BY <2>2, DispatchKeepsReferences, DispatchKeepsResults
    <2>3. ASSUME NEW w \in DispatchWorkers, NEW t \in Tenants, NEW n \in 0..MaxDispatches,
                 NEW s \in [1..n -> Instructions], Dispatch(w, t, s)
          PROVE  ReferenceInv' /\ ResultInv'
      <3>1. s \in Seq(Instructions)
        BY RpcDispatchAssumption
      <3>2. QED
        BY <2>3, <3>1, DispatchKeepsReferences, DispatchKeepsResults
    <2>4. CASE Administration
      <3>1. UNCHANGED <<dispatching, request, at, results, calls>>
        BY <2>4 DEF Administration, AddInterface, RemoveInterface, AddMethod, RemoveMethod
      <3>2. ResultInv'
        BY <3>1 DEF ResultInv, ResultTypeOK, ResultsUpTo, CallsToldOf
      <3>3. QED
        BY <2>4, <3>2, AdministrationKeepsReferences
    <2>5. QED
      BY <2>1, <2>2, <2>3, <2>4 DEF DispatchNext, Administration
  <1>3. ReferenceInv /\ ResultInv => DispatchSafe
    <2> SUFFICES ASSUME ReferenceInv, ResultInv PROVE DispatchSafe
      OBVIOUS
    <2>1. CalleeLives
      BY DEF ReferenceInv, HeldLives, CalleeLives
    <2>2. OneResultEach
      <3> SUFFICES ASSUME NEW w \in DispatchWorkers
                   PROVE  /\ dispatching[w] # "done" =>
                               Len(results[w]) = at[w] - (IF dispatching[w] = "idle" THEN 0 ELSE 1)
                          /\ dispatching[w] = "done" => Len(results[w]) = Max({1, Len(request[w])})
                          /\ CallsToldOf(w)
        BY DEF OneResultEach, CallsToldOf, Called
      <3>1. ResultsUpTo(w) /\ CallsToldOf(w)
        BY DEF ResultInv
      <3>2. request[w] \in Seq(Instructions) /\ at[w] \in Nat /\ Len(request[w]) \in Nat
            /\ dispatching[w] \in {"idle", "next", "found", "calling", "done"}
        BY DEF ResultInv, ResultTypeOK
      <3>3. request[w] = <<>> <=> Len(request[w]) = 0
        BY <3>2
      <3>4. Max({1, Len(request[w])}) = IF Len(request[w]) = 0 THEN 1 ELSE Len(request[w])
        BY <3>2, MaxWithOne
      <3>5. dispatching[w] = "done" => Len(results[w]) = Max({1, Len(request[w])})
        BY <3>1, <3>3, <3>4 DEF ResultsUpTo
      <3>6. dispatching[w] # "done" =>
              Len(results[w]) = at[w] - (IF dispatching[w] = "idle" THEN 0 ELSE 1)
        BY <3>1, <3>2 DEF ResultsUpTo
      <3>7. QED
        BY <3>1, <3>5, <3>6
    <2>3. QED
      BY <2>1, <2>2 DEF DispatchSafe
  <1>4. QED
    BY <1>1, <1>2, <1>3, PTL DEF DispatchSpec

-----------------------------------------------------------------------------
(* ContentServer *)

PlanSteps ==
  [step : {"control", "drop", "obeyed", "down", "lock", "unlock", "set"},
   t : Transports \cup {NoTransport},
   cmd : {"Start", "Stop", "Shutdown", "Started", "Stopped", "No"}]

MachineTypeOK ==
  /\ installed \subseteq Transports
  /\ userHolds \in [Users -> Transports \cup {NoTransport}]
  /\ userAt \in [Users -> UserPlaces]
  /\ tState \in [Transports -> {"NoState", "Initted", "Started", "StopPending", "Stopped",
                                "Error", "Shutdown"}]
  /\ tDown \in [Transports -> BOOLEAN]
  /\ trigger \in [Transports -> BOOLEAN]
  /\ startedEv \in [Transports -> BOOLEAN]
  /\ stoppedEv \in [Transports -> BOOLEAN]
  /\ shutdownEv \in [Transports -> BOOLEAN]
  /\ listenerAt \in [Transports -> ListenerPlaces]
  /\ control \in [Transports -> {"none", "starting", "stopping", "halting", "shutting",
                                 "aborting"}]

\* Where the listener waits for the trigger, or is on its way there, or was not made.
Rests(t) ==
  \/ listenerAt[t] \in {"unmade", "top"} /\ tState[t] = "Initted"
  \/ listenerAt[t] = "parked" /\ tState[t] = "Stopped"

\* Its last listen failed.
Failed(t) ==
  \/ listenerAt[t] = "leaving" /\ tState[t] = "Error"
  \/ listenerAt[t] = "gone" /\ tState[t] = "Shutdown"

\* What the listener, the status and the events can be while nobody, or who,
\* waits in control.
Uncontrolled(t) ==
  \/ listenerAt[t] = "new" /\ tState[t] = "NoState" /\ ~trigger[t]
  \/ Rests(t) /\ ~trigger[t]
  \/ Serving(t) /\ tState[t] = "Started"
  \/ Failed(t)

Starting(t) ==
  \/ Rests(t) /\ trigger[t] /\ ~startedEv[t]
  \/ Serving(t) /\ tState[t] = "Started"
  \/ Failed(t)

Stopping(t) ==
  /\ ~trigger[t]
  /\ \/ (Serving(t) \/ listenerAt[t] = "top") /\ tState[t] = "StopPending" /\ ~stoppedEv[t]
     \/ listenerAt[t] = "parked" /\ tState[t] = "Stopped"

ShuttingDown(t) ==
  \/ Rests(t) /\ trigger[t] /\ ~shutdownEv[t]
  \/ listenerAt[t] = "leaving" /\ tState[t] = "Stopped" /\ ~shutdownEv[t]
  \/ listenerAt[t] = "gone" /\ tState[t] = "Shutdown"

Obeys(t) ==
  /\ control[t] = "none" =>
       IF tDown[t] THEN listenerAt[t] = "gone" /\ tState[t] = "Shutdown"
       ELSE Uncontrolled(t)
  /\ control[t] = "starting" => ~tDown[t] /\ Starting(t)
  /\ control[t] \in {"stopping", "halting"} => ~tDown[t] /\ Stopping(t)
  /\ control[t] = "shutting" => tDown[t] /\ ShuttingDown(t)
  /\ control[t] = "aborting" => tDown[t] /\ listenerAt[t] = "gone" /\ tState[t] = "Shutdown"

\* A user that has not begun with the destructor.
Uses(u, t) == HeldBy(u, t) /\ userAt[u] = "holding"

\* Who commands a transport that is in the map is the owner, and who shuts one
\* down that is not is the one that dropped it last.
Owned(t) ==
  /\ listenerAt[t] = "new" <=> tState[t] = "NoState"
  /\ t \in installed =>
       listenerAt[t] # "new" /\ control[t] \notin {"halting", "shutting", "aborting"}
  /\ control[t] \in {"starting", "stopping"} => t \in installed
  /\ \A u \in Users : HeldBy(u, t) => listenerAt[t] # "new"
  /\ \A u \in Users : Uses(u, t) /\ t \notin installed => control[t] = "none"
  /\ t \notin installed /\ ~(\E u \in Users : Uses(u, t)) /\ control[t] = "none"
       => listenerAt[t] = "new" \/ Failed(t)

\* Nobody but who runs its destructor has a transport any more.
UsersKnow ==
  /\ \A u \in Users : userAt[u] \in {"holding", "destroying"} <=> userHolds[u] # NoTransport
  /\ \A u \in Users : userAt[u] = "destroying" => userHolds[u] \notin installed
  /\ \A u, v \in Users : u # v /\ userAt[u] = "destroying" => userHolds[v] # userHolds[u]

MachineInv ==
  /\ MachineTypeOK /\ UsersKnow
  /\ \A t \in Transports : Obeys(t) /\ Owned(t)

\* A step of the plan is about a transport in the map, and a drop is the last
\* that is; what sets the status to shut down has dropped all.
PlanOK(p, S) ==
  /\ p \in Seq(PlanSteps)
  /\ \A i \in 1..Len(p) :
       /\ p[i].step \in {"control", "drop"} => p[i].t \in S
       /\ p[i].step \notin {"control", "drop"} => p[i].t = NoTransport
       /\ p[i].step = "control" => p[i].cmd \in {"Start", "Stop"}
       /\ p[i].step = "drop" => \A j \in i+1..Len(p) : p[j].t # p[i].t
       /\ p[i].step = "set" =>
            /\ i = Len(p) /\ p[i].cmd = "Shutdown"
            /\ \A t \in S : \E j \in 1..i-1 : p[j] = Drop(t)

PlanInv == PlanOK(plan, installed)

Quiet(t) == tState[t] # "Started" /\ ~Serving(t) /\ control[t] # "starting"

Obeyed(s) == Step("obeyed", s)

Started(p) == p # <<>> /\ p[Len(p)] = Obeyed("Started")

\* Which commands a plan holds: those of a start before the status of one, and
\* before the status of a stop all of a stop, or none.
CommandsOK(p, S, state) ==
  \A i \in 1..Len(p) :
    /\ p[i].step = "obeyed" => p[i].cmd \in {"Started", "Stopped"}
    /\ p[i].step = "control" /\ p[i].cmd = "Start" => state = "Started" \/ Started(p)
    /\ p[i] = Obeyed("Stopped") =>
         /\ \A j \in 1..Len(p) : p[j].step = "control" => p[j].cmd = "Stop"
         /\ \/ \A t \in S : \E j \in 1..i-1 : p[j] = Control(t, "Stop")
            \/ \A j \in 1..i : p[j].step # "control"

\* A start that is obeyed changes the status at its end.
StoppedQuiet ==
  contentState = "Stopped" =>
    \/ \A t \in installed : Quiet(t)
    \/ Started(plan) /\ (obeyed \/ \E t \in Transports : control[t] = "starting")

\* A stop has stopped everything that it has commanded so far.
StopsAll ==
  \A i \in 1..Len(plan) : plan[i] = Obeyed("Stopped") =>
    /\ \A j \in 1..Len(plan) : plan[j].step = "control" => plan[j].cmd = "Stop"
    /\ \/ \A t \in installed :
            \/ Quiet(t) \/ control[t] = "stopping"
            \/ \E j \in 1..i-1 : plan[j] = Control(t, "Stop")
       \/ /\ ~obeyed /\ \A j \in 1..i : plan[j].step # "control"
          /\ \A t \in Transports : control[t] \notin {"starting", "stopping"}

StatusInv ==
  /\ contentState \in {"NoState", "Initted", "Started", "Stopped", "Shutdown"}
  /\ obeyed \in BOOLEAN
  /\ contentState = "NoState" => plan = <<>> /\ installed = {} /\ (\A u \in Users : userAt[u] = "none")
       /\ \A t \in Transports : listenerAt[t] = "new"
  /\ contentState = "Shutdown" => installed = {}
  /\ \A i \in 1..Len(plan) :
       /\ plan[i].step = "obeyed" => plan[i].cmd \in {"Started", "Stopped"}
       /\ plan[i].step = "control" /\ plan[i].cmd = "Start" =>
            contentState = "Started" \/ Started(plan)
  /\ StoppedQuiet /\ StopsAll

\* The listener has a request that is not pending yet.
Reads(t) == listenerAt[t] \in {"reading", "stuck", "adding"}

\* keShutdownCtl has answered what was pending.
Done(t) == tDown[t] /\ control[t] \in {"none", "aborting"}

PostInv ==
  /\ pending \in [Transports -> SUBSET ContentPosts]
  /\ serving \in [Transports -> SUBSET ContentPosts]
  /\ post \in [ContentPosts -> {"none", "connected", "accepted", "closed"}]
  /\ postOf \in [ContentPosts -> Transports \cup {NoTransport}]
  /\ replies \in [ContentPosts -> 0..1]
  /\ \A r \in ContentPosts : post[r] \in {"none", "connected"} => replies[r] = 0
  /\ \A t \in Transports : \A r \in pending[t] :
       post[r] = "accepted" /\ replies[r] = 0 /\ postOf[r] = t
  /\ \A t \in Transports : Reads(t) => \A r \in serving[t] :
       post[r] = "accepted" /\ replies[r] = 0 /\ postOf[r] = t /\ r \notin pending[t]
  /\ \A t \in Transports : Done(t) => pending[t] = {}

ContentInv == MachineInv /\ PlanInv /\ StatusInv /\ PostInv

machineVars == <<installed, workVars, tState, tDown, eventVars, listenerAt, control>>

LEMMA MachineInvInit == ContentInit => MachineInv
  <1> SUFFICES ASSUME ContentInit PROVE MachineInv
    OBVIOUS
  <1> USE ContentServerAssumption DEF ContentInit
  <1>1. MachineTypeOK
    BY DEF MachineTypeOK, ListenerPlaces, UserPlaces
  <1>2. UsersKnow
    BY DEF UsersKnow
  <1>3. \A t \in Transports : Obeys(t) /\ Owned(t)
    BY DEF Obeys, Owned, Uncontrolled, Uses, HeldBy
  <1>4. QED
    BY <1>1, <1>2, <1>3 DEF MachineInv

\* What a transport shares with no other stays as it is.
SameOf(u) ==
  /\ tState'[u] = tState[u] /\ tDown'[u] = tDown[u] /\ trigger'[u] = trigger[u]
  /\ startedEv'[u] = startedEv[u] /\ stoppedEv'[u] = stoppedEv[u]
  /\ shutdownEv'[u] = shutdownEv[u]
  /\ listenerAt'[u] = listenerAt[u] /\ control'[u] = control[u]

LEMMA OthersKept ==
  ASSUME MachineInv, NEW u \in Transports, SameOf(u),
         u \in installed' <=> u \in installed, UNCHANGED workVars
  PROVE  Obeys(u)' /\ Owned(u)'
  <1>1. Obeys(u) /\ Owned(u)
    BY DEF MachineInv
  <1>2. Obeys(u)'
    BY <1>1 DEF SameOf, Obeys, Uncontrolled, Starting, Stopping, ShuttingDown, Rests, Serving,
       Failed
  <1>3. Owned(u)'
    BY <1>1 DEF SameOf, Owned, Failed, Uses, HeldBy, workVars
  <1>4. QED
    BY <1>2, <1>3

LEMMA MachineKept == MachineInv /\ UNCHANGED machineVars => MachineInv'
  <1> SUFFICES ASSUME MachineInv, UNCHANGED machineVars PROVE MachineInv'
    OBVIOUS
  <1>1. MachineTypeOK' /\ UsersKnow'
    BY DEF MachineInv, MachineTypeOK, UsersKnow, machineVars, workVars, eventVars
  <1>2. \A u \in Transports : Obeys(u)' /\ Owned(u)'
    BY OthersKept DEF SameOf, machineVars, workVars, eventVars
  <1>3. QED
    BY <1>1, <1>2 DEF MachineInv

\* A step of one transport, which leaves the map and the worker alone.
LEMMA OneKept ==
  ASSUME MachineInv, NEW t \in Transports, MachineTypeOK',
         installed' = installed, UNCHANGED workVars,
         \A u \in Transports : u # t => SameOf(u),
         Obeys(t)', Owned(t)'
  PROVE  MachineInv'
  <1>1. \A u \in Transports : u # t => Obeys(u)' /\ Owned(u)'
    BY OthersKept
  <1>2. UsersKnow'
    BY DEF MachineInv, UsersKnow, workVars
  <1>3. QED
    BY <1>1, <1>2 DEF MachineInv

LEMMA ListenerKeepsMachine ==
  ASSUME MachineInv, NEW t \in Transports, ListenerStep(t)
  PROVE  MachineInv'
  <1> USE DEF ListenerGoes, SetTransport, workVars, serverVars, eventVars
  <1>1. Obeys(t) /\ Owned(t) /\ MachineTypeOK
    BY DEF MachineInv
  <1>2. CASE ListenerStopped(t)
    <2> USE <1>2 DEF ListenerStopped
    <2>1. MachineTypeOK' /\ \A u \in Transports : u # t => SameOf(u)
      BY <1>1 DEF MachineTypeOK, ListenerPlaces, SameOf
    <2>2. Obeys(t)' /\ Owned(t)'
      BY <1>1 DEF MachineTypeOK, Obeys, Owned, Uncontrolled, Starting, Stopping, ShuttingDown,
         Rests, Serving, Failed, Uses, HeldBy
    <2>3. QED
      BY <2>1, <2>2, OneKept
  <1>3. CASE ListenerTriggered(t)
    <2> USE <1>3 DEF ListenerTriggered
    <2>1. MachineTypeOK' /\ \A u \in Transports : u # t => SameOf(u)
      BY <1>1 DEF MachineTypeOK, ListenerPlaces, SameOf
    <2>2. Obeys(t)' /\ Owned(t)'
      BY <1>1 DEF MachineTypeOK, Obeys, Owned, Uncontrolled, Starting, Stopping, ShuttingDown,
         Rests, Serving, Failed, Uses, HeldBy
    <2>3. QED
      BY <2>1, <2>2, OneKept
  <1>4. CASE ListenFails(t)
    <2> USE <1>4 DEF ListenFails
    <2>1. MachineTypeOK' /\ \A u \in Transports : u # t => SameOf(u)
      BY <1>1 DEF MachineTypeOK, ListenerPlaces, SameOf
    <2>2. Obeys(t)' /\ Owned(t)'
      BY <1>1 DEF MachineTypeOK, Obeys, Owned, Uncontrolled, Starting, Stopping, ShuttingDown,
         Rests, Serving, Failed, Uses, HeldBy
    <2>3. QED
      BY <2>1, <2>2, OneKept
  <1>5. CASE \/ \E r \in ContentPosts : ListenerAccepts(t, r)
             \/ ListenerReads(t) \/ ListenerRefuses(t)
             \/ ListenerAdds(t) \/ ListenerCloses(t) \/ QueueMessage(t)
    <2>1. /\ Serving(t)
          /\ \/ listenerAt' = listenerAt
             \/ /\ listenerAt'[t] \in {"listening", "reading", "stuck", "adding", "queuing"}
                /\ listenerAt' = [listenerAt EXCEPT ![t] = listenerAt'[t]]
             \/ /\ tState[t] = "StopPending"
                /\ listenerAt' = [listenerAt EXCEPT ![t] = "top"]
          /\ UNCHANGED <<installed, workVars, tState, tDown, eventVars, control>>
      BY <1>1, <1>5 DEF ListenerAccepts, ListenerReads, ListenerRefuses, ListenerAdds,
         ListenerCloses, QueueMessage, Serving, MachineTypeOK
    <2>2. MachineTypeOK' /\ \A u \in Transports : u # t => SameOf(u)
      BY <1>1, <2>1 DEF MachineTypeOK, ListenerPlaces, SameOf
    <2>3. Obeys(t)' /\ Owned(t)'
      BY <1>1, <2>1 DEF MachineTypeOK, Obeys, Owned, Uncontrolled, Starting, Stopping,
         ShuttingDown, Rests, Serving, Failed, Uses, HeldBy
    <2>4. QED
      BY <2>1, <2>2, <2>3, OneKept
  <1>6. CASE ListenerLeaves(t)
    <2> USE <1>6 DEF ListenerLeaves
    <2>1. MachineTypeOK' /\ \A u \in Transports : u # t => SameOf(u)
      BY <1>1 DEF MachineTypeOK, ListenerPlaces, SameOf
    <2>2. Obeys(t)' /\ Owned(t)'
      BY <1>1 DEF MachineTypeOK, Obeys, Owned, Uncontrolled, Starting, Stopping, ShuttingDown,
         Rests, Serving, Failed, Uses, HeldBy
    <2>3. QED
      BY <2>1, <2>2, OneKept
  <1>7. QED
    BY <1>2, <1>3, <1>4, <1>5, <1>6 DEF ListenerStep

LEMMA ControlKeepsMachine ==
  ASSUME MachineInv, NEW t \in Transports, ControlStep(t)
  PROVE  MachineInv'
  <1> USE DEF workVars, serverVars, eventVars, ownerVars
  <1>1. Obeys(t) /\ Owned(t) /\ MachineTypeOK
    BY DEF MachineInv
  <1>2. CASE ControlDone(t)
    <2> USE <1>2 DEF ControlDone
    <2>1. MachineTypeOK' /\ \A u \in Transports : u # t => SameOf(u)
      BY <1>1 DEF MachineTypeOK, SameOf
    <2>2. Obeys(t)' /\ Owned(t)'
      BY <1>1 DEF MachineTypeOK, Obeys, Owned, Uncontrolled, Starting, Stopping, ShuttingDown,
         Rests, Serving, Failed, Uses, HeldBy
    <2>3. QED
      BY <2>1, <2>2, OneKept
  <1>3. CASE ControlHalted(t)
    <2> USE <1>3 DEF ControlHalted, ControlShuts
    <2>1. MachineTypeOK' /\ \A u \in Transports : u # t => SameOf(u)
      BY <1>1 DEF MachineTypeOK, SameOf
    <2>2. Obeys(t)' /\ Owned(t)'
      BY <1>1 DEF MachineTypeOK, Obeys, Owned, Uncontrolled, Starting, Stopping, ShuttingDown,
         Rests, Serving, Failed, Uses, HeldBy
    <2>3. QED
      BY <2>1, <2>2, OneKept
  <1>4. CASE ControlDown(t)
    <2> USE <1>4 DEF ControlDown
    <2>1. MachineTypeOK' /\ \A u \in Transports : u # t => SameOf(u)
      BY <1>1 DEF MachineTypeOK, SameOf
    <2>2. Obeys(t)' /\ Owned(t)'
      BY <1>1 DEF MachineTypeOK, Obeys, Owned, Uncontrolled, Starting, Stopping, ShuttingDown,
         Rests, Serving, Failed, Uses, HeldBy
    <2>3. QED
      BY <2>1, <2>2, OneKept
  <1>5. CASE ControlAborts(t)
    <2> USE <1>5 DEF ControlAborts
    <2>1. MachineTypeOK' /\ \A u \in Transports : u # t => SameOf(u)
      BY <1>1 DEF MachineTypeOK, SameOf
    <2>2. Obeys(t)' /\ Owned(t)'
      BY <1>1 DEF MachineTypeOK, Obeys, Owned, Uncontrolled, Starting, Stopping, ShuttingDown,
         Rests, Serving, Failed, Uses, HeldBy
    <2>3. QED
      BY <2>1, <2>2, OneKept
  <1>6. QED
    BY <1>2, <1>3, <1>4, <1>5 DEF ControlStep

LEMMA ControlCases ==
  ASSUME NEW t \in Transports, NEW cmd \in {"Start", "Stop", "Shutdown"},
         ControlBegins(t, cmd)
  PROVE  \/ /\ NoControl
            /\ \/ ~Commandable(t)
               \/ cmd = "Start" /\ tState[t] = "Started"
               \/ cmd = "Stop" /\ tState[t] # "Started"
         \/ Commandable(t) /\ cmd = "Start" /\ tState[t] # "Started" /\ ControlStarts(t)
         \/ cmd = "Stop" /\ tState[t] = "Started" /\ ControlStops(t, "stopping")
         \/ cmd = "Shutdown" /\ tState[t] = "Started" /\ ControlStops(t, "halting")
         \/ /\ Commandable(t) /\ cmd = "Shutdown" /\ tState[t] # "Started"
            /\ ControlShuts(t)
  <1>1. CASE ~Commandable(t)
    BY <1>1 DEF ControlBegins
  <1>2. CASE Commandable(t) /\ cmd = "Start"
    BY <1>2 DEF ControlBegins
  <1>3. CASE Commandable(t) /\ cmd = "Stop"
    BY <1>3 DEF ControlBegins
  <1>4. CASE Commandable(t) /\ cmd = "Shutdown"
    BY <1>4 DEF ControlBegins
  <1>5. QED
    BY <1>1, <1>2, <1>3, <1>4

\* control of a transport in the map, whose caller waits for nothing else.
LEMMA ControlBegun ==
  ASSUME MachineInv, NEW t \in installed, NEW cmd \in {"Start", "Stop"},
         control[t] = "none", ControlBegins(t, cmd),
         UNCHANGED <<installed, workVars, listenerAt>>
  PROVE  MachineInv'
  <1> USE DEF NoControl, ControlStarts, ControlStops, SetTransport, Commandable, workVars,
     eventVars
  <1>1. t \in Transports /\ Obeys(t) /\ Owned(t) /\ MachineTypeOK
    BY DEF MachineInv, MachineTypeOK
  <1>2. CASE NoControl
    BY <1>2, MachineKept DEF machineVars
  <1>3. CASE Commandable(t) /\ tState[t] # "Started" /\ ControlStarts(t)
    <2>1. MachineTypeOK' /\ \A u \in Transports : u # t => SameOf(u)
      BY <1>1, <1>3 DEF MachineTypeOK, SameOf
    <2>2. Obeys(t)' /\ Owned(t)'
      BY <1>1, <1>3 DEF MachineTypeOK, Obeys, Owned, Uncontrolled, Starting, Rests, Serving,
         Failed, Uses, HeldBy
    <2>3. QED
      BY <1>1, <2>1, <2>2, OneKept
  <1>4. CASE tState[t] = "Started" /\ ControlStops(t, "stopping")
    <2>1. MachineTypeOK' /\ \A u \in Transports : u # t => SameOf(u)
      BY <1>1, <1>4 DEF MachineTypeOK, SameOf
    <2>2. Obeys(t)' /\ Owned(t)'
      BY <1>1, <1>4 DEF MachineTypeOK, Obeys, Owned, Uncontrolled, Stopping, Rests, Serving,
         Failed, Uses, HeldBy
    <2>3. QED
      BY <1>1, <2>1, <2>2, OneKept
  <1>5. QED
    BY <1>1, <1>2, <1>3, <1>4, ControlCases

\* ~NetSocketServer shuts down what has not failed.
LEMMA DestroyBegun ==
  ASSUME MachineInv, NEW t \in Transports, control[t] = "none", listenerAt[t] # "new",
         Destroys(t), UNCHANGED listenerAt
  PROVE  /\ UNCHANGED <<startedEv>>
         /\ tState' \in [Transports -> {"NoState", "Initted", "Started", "StopPending",
                                        "Stopped", "Error", "Shutdown"}]
         /\ tDown' \in [Transports -> BOOLEAN]
         /\ trigger' \in [Transports -> BOOLEAN]
         /\ stoppedEv' \in [Transports -> BOOLEAN]
         /\ shutdownEv' \in [Transports -> BOOLEAN]
         /\ control' \in [Transports -> {"none", "starting", "stopping", "halting",
                                         "shutting", "aborting"}]
         /\ \A u \in Transports : u # t => SameOf(u)
         /\ Obeys(t)' /\ tState'[t] # "NoState"
         /\ control'[t] \in {"none", "halting", "shutting"}
         /\ control'[t] = "none" => Failed(t)'
  <1> USE DEF NoControl, ControlShuts, ControlStops, SetTransport, Commandable, eventVars
  <1>1. Obeys(t) /\ Owned(t) /\ MachineTypeOK
    BY DEF MachineInv, MachineTypeOK
  <1>2. CASE NoControl /\ tState[t] \notin {"Started", "Stopped", "Initted"}
    <2>1. Failed(t)
      BY <1>1, <1>2 DEF Obeys, Owned, Uncontrolled, Rests, Serving, Failed
    <2>2. QED
      BY <1>1, <1>2, <2>1 DEF MachineTypeOK, SameOf, Obeys, Owned, Uncontrolled, Failed
  <1>3. CASE tState[t] = "Started" /\ ControlStops(t, "halting")
    <2>1. Obeys(t)'
      BY <1>1, <1>3 DEF MachineTypeOK, Obeys, Owned, Uncontrolled, Stopping, Rests, Serving,
         Failed, Uses, HeldBy
    <2>2. QED
      BY <1>1, <1>3, <2>1 DEF MachineTypeOK, SameOf
  <1>4. CASE tState[t] \in {"Stopped", "Initted"} /\ ControlShuts(t)
    <2>1. Obeys(t)'
      BY <1>1, <1>4 DEF MachineTypeOK, Obeys, Owned, Uncontrolled, ShuttingDown, Rests,
         Serving, Failed
    <2>2. QED
      BY <1>1, <1>4, <2>1 DEF MachineTypeOK, SameOf
  <1>5. QED
    BY <1>2, <1>3, <1>4, ControlCases DEF Destroys

LEMMA WaitedForAll ==
  ASSUME MachineInv, Waited
  PROVE  /\ \A t \in installed : control[t] = "none"
         /\ \A t \in Transports : control[t] \notin {"starting", "stopping"}
  <1>1. \A t \in installed : control[t] = "none"
    BY DEF MachineInv, MachineTypeOK, UsersKnow, Waited, DestroyedBy, HeldBy
  <1>2. QED
    BY <1>1 DEF MachineInv, Owned

LEMMA DropKeepsMachine ==
  ASSUME MachineInv, OwnerDrops, Head(plan).t \in installed
  PROVE  MachineInv'
  <1> USE DEF OwnerDrops, workVars, serverVars
  <1>1. PICK t \in installed : t = Head(plan).t
    OBVIOUS
  <1>2. /\ t \in Transports /\ Obeys(t) /\ Owned(t) /\ MachineTypeOK
        /\ installed' = installed \ {t}
    BY <1>1 DEF MachineInv, MachineTypeOK
  <1>3. control[t] = "none"
    BY <1>1, WaitedForAll
  <1>4. UsersKnow'
    BY <1>2 DEF MachineInv, UsersKnow
  <1>5. CASE Held(t)
    <2>1. NoControl
      BY <1>1, <1>5
    <2>2. MachineTypeOK' /\ \A u \in Transports : SameOf(u)
      BY <1>2, <2>1 DEF MachineTypeOK, SameOf, NoControl, eventVars
    <2>3. Obeys(t)'
      BY <1>2, <2>1 DEF Obeys, NoControl, eventVars, Uncontrolled, Rests, Serving, Failed,
         Starting, Stopping, ShuttingDown
    <2>4. \E v \in Users : Uses(v, t)
      BY <1>1, <1>2, <1>5, ContentServerAssumption
      DEF MachineInv, UsersKnow, MachineTypeOK, Held, HeldBy, Uses
    <2>5. Owned(t)'
      BY <1>2, <1>3, <2>1, <2>4 DEF Owned, NoControl, eventVars, Uses, HeldBy
    <2>6. \A u \in Transports : u # t => Obeys(u)' /\ Owned(u)'
      BY <1>2, <2>2, OthersKept
    <2>7. QED
      BY <1>4, <2>2, <2>3, <2>5, <2>6 DEF MachineInv
  <1>6. CASE ~Held(t)
    <2>1. Destroys(t) /\ UNCHANGED listenerAt /\ listenerAt[t] # "new"
      BY <1>1, <1>2, <1>6 DEF Owned
    <2>2. /\ \A u \in Transports : u # t => SameOf(u)
          /\ Obeys(t)' /\ tState'[t] # "NoState"
          /\ control'[t] \in {"none", "halting", "shutting"}
          /\ control'[t] = "none" => Failed(t)'
      BY <1>2, <1>3, <2>1, DestroyBegun
    <2>3. MachineTypeOK'
      BY <1>2, <1>3, <2>1, DestroyBegun DEF MachineTypeOK
    <2>4. Owned(t)'
      BY <1>2, <1>6, <2>1, <2>2 DEF Owned, Held, Uses, HeldBy
    <2>5. \A u \in Transports : u # t => Obeys(u)' /\ Owned(u)'
      BY <1>2, <2>2, OthersKept
    <2>6. QED
      BY <1>4, <2>2, <2>3, <2>4, <2>5 DEF MachineInv
  <1>7. QED
    BY <1>5, <1>6

\* A user that takes a transport from the map, or none.
Takes(v) ==
  /\ userAt[v] = "waiting"
  /\ \/ /\ \E t \in installed : userHolds' = [userHolds EXCEPT ![v] = t]
        /\ userAt' = [userAt EXCEPT ![v] = "holding"]
     \/ /\ userHolds' = userHolds
        /\ \E p \in {"waiting", "lost", "gone"} : userAt' = [userAt EXCEPT ![v] = p]
  /\ UNCHANGED <<installed, tState, tDown, eventVars, listenerAt, control>>

\* What a user does.
UserStep(v) == Takes(v) \/ LetsGo(v) \/ UserDestroyed(v)

LEMMA UserSteps ==
  ASSUME WorkStep \/ SendStep
  PROVE  \E v \in Users : UserStep(v)
  <1> USE DEF GetTransport, UserGoes, serverVars
  <1>1. "worker" \in Users /\ "sender" \in Users
    BY DEF Users
  <1>2. DoWork \/ WorkerLeaves => Takes("worker")
    BY DEF DoWork, WorkerLeaves, Takes
  <1>3. SenderCalls => Takes("sender")
    BY DEF SenderCalls, Takes
  <1>4. QED
    BY <1>1, <1>2, <1>3 DEF WorkStep, SendStep, UserStep

\* The transports stay as they are, and what a user has changes.
LEMMA UsersMoved ==
  ASSUME MachineInv,
         UNCHANGED <<installed, tState, tDown, eventVars, listenerAt, control>>,
         MachineTypeOK', UsersKnow', \A u \in Transports : Owned(u)'
  PROVE  MachineInv'
  <1>1. \A u \in Transports : Obeys(u)'
    BY DEF MachineInv, Obeys, Uncontrolled, Starting, Stopping, ShuttingDown, Rests, Serving,
       Failed, eventVars
  <1>2. QED
    BY <1>1 DEF MachineInv

LEMMA TakesKeepsMachine ==
  ASSUME MachineInv, NEW v \in Users, Takes(v)
  PROVE  MachineInv'
  <1> USE ContentServerAssumption DEF Takes
  <1>1. MachineTypeOK /\ UsersKnow /\ \A u \in Transports : Owned(u)
    BY DEF MachineInv
  <1>2. CASE userHolds' = userHolds
    <2>1. PICK p \in {"waiting", "lost", "gone", "holding"} :
            userAt' = [userAt EXCEPT ![v] = p] /\ (p = "holding" => userHolds[v] \in installed)
      BY <1>1, <1>2 DEF MachineTypeOK
    <2>2. p # "holding"
      BY <1>1, <2>1 DEF UsersKnow, MachineTypeOK
    <2>3. MachineTypeOK'
      BY <1>1, <1>2, <2>1 DEF MachineTypeOK, eventVars, UserPlaces
    <2>4. UsersKnow'
      BY <1>1, <1>2, <2>1, <2>2 DEF UsersKnow, MachineTypeOK
    <2>5. \A u \in Transports : Owned(u)'
      BY <1>1, <1>2, <2>1, <2>2 DEF Owned, Failed, Uses, HeldBy, MachineTypeOK
    <2>6. QED
      BY <2>3, <2>4, <2>5, UsersMoved
  <1>3. CASE userHolds' # userHolds
    <2>1. PICK t \in installed : userHolds' = [userHolds EXCEPT ![v] = t]
      BY <1>3
    <2>2. /\ userAt' = [userAt EXCEPT ![v] = "holding"]
          /\ t \in Transports
      BY <1>1, <1>3 DEF MachineTypeOK
    <2>3. MachineTypeOK'
      BY <1>1, <2>1, <2>2 DEF MachineTypeOK, eventVars, UserPlaces
    <2>4. UsersKnow'
      BY <1>1, <2>1, <2>2 DEF UsersKnow, MachineTypeOK
    <2>5. \A u \in Transports : Owned(u)'
      BY <1>1, <2>1, <2>2 DEF Owned, Failed, Uses, HeldBy, MachineTypeOK
    <2>6. QED
      BY <2>3, <2>4, <2>5, UsersMoved
  <1>4. QED
    BY <1>2, <1>3

\* Who lets a transport go holds one, which is not destroyed yet.
LEMMA GoesWith ==
  ASSUME MachineInv, NEW v \in Users, userAt[v] = "holding"
  PROVE  /\ userHolds[v] \in Transports /\ Uses(v, userHolds[v])
         /\ listenerAt[userHolds[v]] # "new"
         /\ userHolds[v] \notin installed => control[userHolds[v]] = "none"
         /\ \A w \in Users : HeldBy(w, userHolds[v]) => userAt[w] = "holding"
  <1>1. MachineTypeOK /\ UsersKnow /\ \A u \in Transports : Owned(u)
    BY DEF MachineInv
  <1>2. userHolds[v] \in Transports /\ Uses(v, userHolds[v])
    BY <1>1 DEF UsersKnow, MachineTypeOK, Uses, HeldBy
  <1>3. Owned(userHolds[v])
    BY <1>1, <1>2
  <1>4. \A w \in Users : HeldBy(w, userHolds[v]) => userAt[w] = "holding"
    BY <1>1, <1>2, ContentServerAssumption DEF UsersKnow, HeldBy
  <1>5. QED
    BY <1>2, <1>3, <1>4 DEF Owned, Uses

\* Somebody else has it, or the map.
LEMMA GoesKeepsMachine ==
  ASSUME MachineInv, NEW v \in Users, LetsGo(v),
         userHolds[v] \in installed \/ \E w \in Users \ {v} : HeldBy(w, userHolds[v])
  PROVE  MachineInv'
  <1> USE ContentServerAssumption
  <1>1. MachineTypeOK /\ UsersKnow /\ \A u \in Transports : Owned(u)
    BY DEF MachineInv
  <1>2. /\ userAt[v] = "holding"
        /\ userAt' = [userAt EXCEPT ![v] = "waiting"]
        /\ userHolds' = [userHolds EXCEPT ![v] = NoTransport]
        /\ UNCHANGED <<installed, tState, tDown, eventVars, listenerAt, control>>
    BY DEF LetsGo, UserGoes, NoControl, serverVars
  <1>3. PICK t \in Transports : t = userHolds[v]
    BY <1>2, GoesWith
  <1>4. \A w \in Users : HeldBy(w, t) => userAt[w] = "holding"
    BY <1>2, <1>3, GoesWith
  <1>5. MachineTypeOK'
    BY <1>1, <1>2 DEF MachineTypeOK, eventVars, UserPlaces
  <1>6. UsersKnow'
    BY <1>1, <1>2 DEF UsersKnow, MachineTypeOK
  <1>7. Owned(t)'
    <2>1. t \in installed \/ \E w \in Users : w # v /\ Uses(w, t)
      BY <1>3, <1>4 DEF Uses
    <2>2. t \in installed \/ \E w \in Users : Uses(w, t)'
      BY <1>1, <1>2, <2>1 DEF Uses, HeldBy, MachineTypeOK
    <2>3. \A w \in Users : HeldBy(w, t)' => HeldBy(w, t)
      BY <1>1, <1>2, <1>3 DEF HeldBy, MachineTypeOK
    <2>4. \A w \in Users : Uses(w, t)' => Uses(w, t)
      BY <1>1, <1>2, <2>3 DEF Uses, MachineTypeOK
    <2>5. QED
      BY <1>1, <1>2, <2>2, <2>3, <2>4 DEF Owned, Failed
  <1>8. \A u \in Transports : u # t => Owned(u)'
    <2> SUFFICES ASSUME NEW u \in Transports, u # t PROVE Owned(u)'
      OBVIOUS
    <2>1. \A w \in Users : (HeldBy(w, u)' <=> HeldBy(w, u)) /\ (Uses(w, u)' <=> Uses(w, u))
      BY <1>1, <1>2, <1>3 DEF Uses, HeldBy, MachineTypeOK
    <2>2. QED
      BY <1>1, <1>2, <2>1 DEF Owned, Failed
  <1>9. QED
    BY <1>2, <1>5, <1>6, <1>7, <1>8, UsersMoved

\* It was the last, and begins with the destructor.
LEMMA LastKeepsMachine ==
  ASSUME MachineInv, NEW v \in Users, LetsGo(v), userHolds[v] \notin installed,
         \A w \in Users \ {v} : ~HeldBy(w, userHolds[v])
  PROVE  /\ MachineInv' /\ Destroys(userHolds[v])
         /\ userHolds[v] \in Transports /\ control[userHolds[v]] = "none"
         /\ listenerAt[userHolds[v]] # "new"
  <1> USE ContentServerAssumption
  <1>1. MachineTypeOK /\ UsersKnow /\ \A u \in Transports : Obeys(u) /\ Owned(u)
    BY DEF MachineInv
  <1>2. /\ userAt[v] = "holding" /\ userAt' = [userAt EXCEPT ![v] = "destroying"]
        /\ userHolds' = [userHolds EXCEPT ![v] = userHolds[v]]
        /\ UNCHANGED <<installed, listenerAt>>
        /\ Destroys(userHolds[v])
    BY DEF LetsGo, UserGoes, serverVars
  <1>3. PICK t \in Transports : t = userHolds[v]
    BY <1>2, GoesWith
  <1>4. userHolds' = userHolds
    BY <1>1, <1>2 DEF MachineTypeOK
  <1>5. control[t] = "none" /\ listenerAt[t] # "new"
    BY <1>2, <1>3, GoesWith
  <1>6. /\ \A u \in Transports : u # t => SameOf(u)
        /\ Obeys(t)' /\ tState'[t] # "NoState"
        /\ control'[t] \in {"none", "halting", "shutting"}
        /\ control'[t] = "none" => Failed(t)'
    BY <1>2, <1>3, <1>5, DestroyBegun
  <1>7. MachineTypeOK'
    BY <1>1, <1>2, <1>3, <1>4, <1>5, DestroyBegun DEF MachineTypeOK, UserPlaces
  <1>8. UsersKnow'
    BY <1>1, <1>2, <1>3, <1>4 DEF UsersKnow, HeldBy, MachineTypeOK
  <1>9. Owned(t)'
    <2>1. \A w \in Users : ~Uses(w, t)' /\ t \notin installed
      BY <1>1, <1>2, <1>3, <1>4 DEF Uses, HeldBy, MachineTypeOK
    <2>2. QED
      BY <1>2, <1>5, <1>6, <2>1 DEF Owned, HeldBy
  <1>10. \A u \in Transports : u # t => Obeys(u)' /\ Owned(u)'
    <2> SUFFICES ASSUME NEW u \in Transports, u # t PROVE Obeys(u)' /\ Owned(u)'
      OBVIOUS
    <2>1. SameOf(u) /\ Obeys(u) /\ Owned(u)
      BY <1>1, <1>6
    <2>2. Obeys(u)'
      BY <2>1 DEF SameOf, Obeys, Uncontrolled, Starting, Stopping, ShuttingDown, Rests,
         Serving, Failed
    <2>3. \A w \in Users : (HeldBy(w, u)' <=> HeldBy(w, u)) /\ (Uses(w, u)' <=> Uses(w, u))
      BY <1>1, <1>2, <1>3, <1>4 DEF Uses, HeldBy, MachineTypeOK
    <2>4. Owned(u)'
      BY <1>2, <2>1, <2>3 DEF SameOf, Owned, Failed
    <2>5. QED
      BY <2>2, <2>4
  <1>11. QED
    BY <1>2, <1>3, <1>5, <1>6, <1>7, <1>8, <1>9, <1>10 DEF MachineInv

LEMMA DestroyedKeepsMachine ==
  ASSUME MachineInv, NEW v \in Users, UserDestroyed(v)
  PROVE  MachineInv'
  <1> USE ContentServerAssumption
  <1>1. MachineTypeOK /\ UsersKnow /\ \A u \in Transports : Owned(u)
    BY DEF MachineInv
  <1>2. /\ userAt[v] = "destroying" /\ control[userHolds[v]] = "none"
        /\ userAt' = [userAt EXCEPT ![v] = "waiting"]
        /\ userHolds' = [userHolds EXCEPT ![v] = NoTransport]
        /\ UNCHANGED <<installed, tState, tDown, eventVars, listenerAt, control>>
    BY DEF UserDestroyed, UserGoes, serverVars
  <1>3. MachineTypeOK'
    BY <1>1, <1>2 DEF MachineTypeOK, eventVars, UserPlaces
  <1>4. UsersKnow'
    BY <1>1, <1>2 DEF UsersKnow, MachineTypeOK
  <1>5. \A u \in Transports : Owned(u)'
    <2> SUFFICES ASSUME NEW u \in Transports PROVE Owned(u)'
      OBVIOUS
    <2>1. \A w \in Users : (HeldBy(w, u)' => HeldBy(w, u)) /\ (Uses(w, u)' <=> Uses(w, u))
      BY <1>1, <1>2 DEF Uses, HeldBy, MachineTypeOK
    <2>2. QED
      BY <1>1, <1>2, <2>1 DEF Owned, Failed
  <1>6. QED
    BY <1>2, <1>3, <1>4, <1>5, UsersMoved

LEMMA UsersKeepMachine ==
  ASSUME MachineInv, WorkStep \/ SendStep
  PROVE  MachineInv'
  <1>1. PICK v \in Users : UserStep(v)
    BY UserSteps
  <1>2. CASE LetsGo(v)
    BY <1>2, GoesKeepsMachine, LastKeepsMachine
  <1>3. QED
    BY <1>1, <1>2, TakesKeepsMachine, DestroyedKeepsMachine DEF UserStep

LEMMA NewIsIdle ==
  ASSUME MachineInv, NEW u \in Transports, listenerAt[u] = "new"
  PROVE  /\ tState[u] = "NoState" /\ control[u] = "none" /\ ~tDown[u] /\ ~trigger[u]
         /\ ~Held(u)
  <1>1. Obeys(u) /\ Owned(u) /\ MachineTypeOK
    BY DEF MachineInv
  <1>2. tState[u] = "NoState" /\ ~Held(u) /\ u \notin installed
    BY <1>1 DEF Owned, Held
  <1>3. control[u] \in {"none", "starting", "stopping", "halting", "shutting", "aborting"}
    BY <1>1 DEF MachineTypeOK
  <1>4. control[u] = "none"
    BY <1>1, <1>2, <1>3 DEF Obeys, Owned, Stopping, ShuttingDown, Rests, Serving
  <1>5. ~tDown[u] /\ ~trigger[u]
    BY <1>1, <1>2, <1>4 DEF Obeys, Uncontrolled, Rests, Serving, Failed
  <1>6. QED
    BY <1>2, <1>4, <1>5

LEMMA InitKeepsMachine ==
  ASSUME MachineInv, StatusInv, InitServer
  PROVE  MachineInv'
  <1> USE DEF InitServer, eventVars
  <1>1. MachineTypeOK /\ UsersKnow /\ \A u \in Transports : Obeys(u) /\ Owned(u)
    BY DEF MachineInv
  <1>2. /\ installed = {} /\ \A u \in Users : userAt[u] = "none"
        /\ \A t \in Transports : listenerAt[t] = "new"
    BY DEF StatusInv
  <1>3. PICK set \in SUBSET Transports :
          /\ installed' = set
          /\ tState' = [t \in Transports |-> IF t \in set THEN "Initted" ELSE tState[t]]
          /\ listenerAt' \in [Transports -> {"new", "unmade", "top"}]
          /\ \A t \in Transports : t \in set <=> listenerAt'[t] # "new"
    OBVIOUS
  <1>4. /\ \A u \in Users : userHolds[u] = NoTransport
        /\ userHolds' = userHolds /\ userAt' = [u \in Users |-> "waiting"]
    BY <1>1, <1>2 DEF UsersKnow
  <1>5. MachineTypeOK' /\ UsersKnow'
    BY <1>1, <1>3, <1>4 DEF MachineTypeOK, UsersKnow, ListenerPlaces, UserPlaces
  <1>6. \A u \in Transports : Obeys(u)' /\ Owned(u)'
    <2> SUFFICES ASSUME NEW u \in Transports PROVE Obeys(u)' /\ Owned(u)'
      OBVIOUS
    <2>1. /\ tState[u] = "NoState" /\ control[u] = "none" /\ ~tDown[u] /\ ~trigger[u]
          /\ \A v \in Users : ~HeldBy(v, u)'
      BY <1>1, <1>2, <1>4, NewIsIdle DEF Held, HeldBy
    <2>2. CASE u \in installed'
      BY <1>2, <1>3, <1>4, <2>1, <2>2 DEF Obeys, Owned, Uncontrolled, Rests, Uses
    <2>3. CASE u \notin installed'
      BY <1>2, <1>3, <1>4, <2>1, <2>3 DEF Obeys, Owned, Uncontrolled, Uses
    <2>4. QED
      BY <2>2, <2>3
  <1>7. QED
    BY <1>5, <1>6 DEF MachineInv

LEMMA AddKeepsMachine ==
  ASSUME MachineInv, NEW t \in Transports, AddTransport(t)
  PROVE  MachineInv'
  <1> USE DEF AddTransport, eventVars, workVars
  <1>1. MachineTypeOK /\ UsersKnow /\ \A u \in Transports : Obeys(u) /\ Owned(u)
    BY DEF MachineInv
  <1>2. /\ tState[t] = "NoState" /\ control[t] = "none" /\ ~tDown[t] /\ ~trigger[t]
        /\ \A v \in Users : ~HeldBy(v, t)
    BY NewIsIdle DEF Held
  <1>3. MachineTypeOK' /\ \A u \in Transports : u # t => SameOf(u)
    BY <1>1 DEF MachineTypeOK, SameOf, ListenerPlaces
  <1>4. UsersKnow'
    BY <1>1, <1>2 DEF UsersKnow, HeldBy
  <1>5. Obeys(t)' /\ Owned(t)'
    BY <1>1, <1>2 DEF MachineTypeOK, Obeys, Owned, Uncontrolled, Rests, Uses, HeldBy
  <1>6. \A u \in Transports : u # t => Obeys(u)' /\ Owned(u)'
    BY <1>3, OthersKept
  <1>7. QED
    BY <1>3, <1>4, <1>5, <1>6 DEF MachineInv

LEMMA HeadStep ==
  ASSUME PlanInv, plan # <<>>
  PROVE  /\ Head(plan) = plan[1] /\ 1 \in 1..Len(plan)
         /\ plan[1] \in PlanSteps
         /\ Tail(plan) \in Seq(PlanSteps) /\ Len(Tail(plan)) = Len(plan) - 1
         /\ \A i \in 1..Len(plan)-1 : Tail(plan)[i] = plan[i + 1]
  <1>1. plan \in Seq(PlanSteps) /\ Len(plan) \in Nat \ {0}
    BY DEF PlanInv, PlanOK
  <1>2. QED
    BY <1>1

OtherCalls ==
  \/ StartServer \/ StopServer \/ ShutdownServer
  \/ \E t \in Transports :
       RemoveTransport(t) \/ \E r \in ContentPosts : ClientConnects(t, r)
  \/ OwnerObeyed \/ OwnerSets \/ OwnerDowns \/ OwnerLocks \/ OwnerUnlocks

LEMMA MachineStep ==
  ASSUME MachineInv, PlanInv, StatusInv, [ContentNext]_contentVars
  PROVE  MachineInv'
  <1>1. CASE OtherCalls \/ UNCHANGED contentVars
    <2>1. UNCHANGED machineVars
      BY <1>1 DEF OtherCalls, machineVars, StartServer, StopServer, ShutdownServer,
         RemoveTransport, ClientConnects, OwnerObeyed, OwnerSets, OwnerDowns, OwnerLocks,
         OwnerUnlocks, contentVars, serverVars, workVars, ownerVars, connectionVars, eventVars
    <2>2. QED
      BY <2>1, MachineKept
  <1>2. CASE InitServer
    BY <1>2, InitKeepsMachine
  <1>3. CASE \E t \in Transports : AddTransport(t) \/ ControlStep(t) \/ ListenerStep(t)
    BY <1>3, AddKeepsMachine, ControlKeepsMachine, ListenerKeepsMachine
  <1>4. CASE WorkStep \/ SendStep
    BY <1>4, UsersKeepMachine
  <1>5. CASE OwnerControls
    <2>1. plan # <<>> /\ plan[1].step = "control"
      BY <1>5, HeadStep DEF OwnerControls, Next1
    <2>2. plan[1].t \in installed /\ plan[1].cmd \in {"Start", "Stop"}
      BY <2>1, HeadStep DEF PlanInv, PlanOK
    <2>3. PICK t \in installed, cmd \in {"Start", "Stop"} : t = plan[1].t /\ cmd = plan[1].cmd
      BY <2>2
    <2>4. control[t] = "none"
      BY <1>5, WaitedForAll DEF OwnerControls
    <2>5. ControlBegins(t, cmd) /\ UNCHANGED <<installed, workVars, listenerAt>>
      BY <1>5, <2>1, <2>3, HeadStep DEF OwnerControls, serverVars
    <2>6. QED
      BY <2>4, <2>5, ControlBegun
  <1>6. CASE OwnerDrops
    <2>1. plan # <<>> /\ plan[1].step = "drop"
      BY <1>6, HeadStep DEF OwnerDrops, Next1
    <2>2. Head(plan).t \in installed
      BY <2>1, HeadStep DEF PlanInv, PlanOK
    <2>3. QED
      BY <1>6, <2>2, DropKeepsMachine
  <1>7. QED
    BY <1>1, <1>2, <1>3, <1>4, <1>5, <1>6 DEF ContentNext, OwnerStep, OtherCalls

-----------------------------------------------------------------------------
(* The plans *)

LEMMA SetInSeq ==
  ASSUME NEW S, IsFiniteSet(S)
  PROVE  /\ SetToSeq(S) \in Seq(S)
         /\ \A x \in S : \E i \in DOMAIN SetToSeq(S) : SetToSeq(S)[i] = x
         /\ \A i, j \in DOMAIN SetToSeq(S) : SetToSeq(S)[i] = SetToSeq(S)[j] => i = j
  <1> DEFINE n == Cardinality(S)
             f == SetToSeq(S)
  <1>1. n \in Nat /\ ExistsBijection(1..n, S)
    BY FS_CardinalityType
  <1>2. \E g \in [1..n -> S] : IsInjective(g)
    BY <1>1 DEF ExistsBijection, Bijection, Injection
  <1>3. f \in [1..n -> S] /\ IsInjective(f)
    BY <1>2 DEF SetToSeq
  <1>4. Cardinality(1..n) = n
    BY <1>1, FS_Interval
  <1>5. f \in Surjection(1..n, S)
    BY <1>3, <1>4, FS_Injection DEF Injection
  <1>6. f \in Seq(S)
    BY <1>1, <1>3
  <1>7. QED
    BY <1>3, <1>5, <1>6 DEF Surjection, IsInjective

LEMMA JoinedSteps ==
  ASSUME NEW p \in Seq(PlanSteps), NEW q \in Seq(PlanSteps)
  PROVE  /\ p \o q \in Seq(PlanSteps) /\ Len(p \o q) = Len(p) + Len(q)
         /\ Len(p) \in Nat /\ Len(q) \in Nat
         /\ \A i \in 1..Len(p) : i \in 1..Len(p \o q) /\ (p \o q)[i] = p[i]
         /\ \A i \in 1..Len(q) : Len(p)+i \in 1..Len(p \o q) /\ (p \o q)[Len(p)+i] = q[i]
         /\ \A i \in 1..Len(p \o q) : i \notin 1..Len(p) =>
              i - Len(p) \in 1..Len(q) /\ (p \o q)[i] = q[i - Len(p)]
  OBVIOUS

LEMMA JoinedMembers ==
  ASSUME NEW p \in Seq(PlanSteps), NEW q \in Seq(PlanSteps), NEW r, r = p \o q,
         NEW i \in 1..Len(r)
  PROVE  (\E j \in 1..Len(p) : r[i] = p[j]) \/ (\E j \in 1..Len(q) : r[i] = q[j])
  <1>1. CASE i \in 1..Len(p)
    BY <1>1, JoinedSteps
  <1>2. CASE i \notin 1..Len(p)
    BY <1>2, JoinedSteps
  <1>3. QED
    BY <1>1, <1>2

LEMMA JoinedUndropped ==
  ASSUME NEW p \in Seq(PlanSteps), NEW q \in Seq(PlanSteps), NEW r, r = p \o q,
         \A i \in 1..Len(p) : p[i].step # "drop",
         \A i \in 1..Len(q) : q[i].step # "drop"
  PROVE  \A i \in 1..Len(r) : r[i].step # "drop"
  <1> SUFFICES ASSUME NEW i \in 1..Len(r) PROVE r[i].step # "drop"
    OBVIOUS
  <1>1. (\E j \in 1..Len(p) : r[i] = p[j]) \/ (\E j \in 1..Len(q) : r[i] = q[j])
    BY JoinedMembers
  <1>2. QED
    BY <1>1

\* What PlanInv says of a plan that does not end the server.
Fits(p, S) ==
  /\ p \in Seq(PlanSteps)
  /\ \A i \in 1..Len(p) :
       /\ p[i].step \in {"control", "drop"} => p[i].t \in S
       /\ p[i].step \notin {"control", "drop"} => p[i].t = NoTransport
       /\ p[i].step = "control" => p[i].cmd \in {"Start", "Stop"}
       /\ p[i].step = "drop" => \A j \in i+1..Len(p) : p[j].t # p[i].t
       /\ p[i].step # "set"

LEMMA JoinedFits ==
  ASSUME NEW S, NEW p, NEW q, Fits(p, S), Fits(q, S),
         \A i \in 1..Len(p), j \in 1..Len(q) : p[i].step = "drop" => q[j].t # p[i].t
  PROVE  Fits(p \o q, S)
  <1> DEFINE r == p \o q
  <1>1. p \in Seq(PlanSteps) /\ q \in Seq(PlanSteps)
    BY DEF Fits
  <1>2. /\ r \in Seq(PlanSteps) /\ Len(r) = Len(p) + Len(q)
        /\ Len(p) \in Nat /\ Len(q) \in Nat
        /\ \A i \in 1..Len(p) : r[i] = p[i]
        /\ \A i \in 1..Len(r) : i \notin 1..Len(p) =>
             i - Len(p) \in 1..Len(q) /\ r[i] = q[i - Len(p)]
    BY <1>1, JoinedSteps
  <1> HIDE DEF r
  <1>3. ASSUME NEW i \in 1..Len(r), i \in 1..Len(p)
        PROVE  /\ r[i].step \in {"control", "drop"} => r[i].t \in S
               /\ r[i].step \notin {"control", "drop"} => r[i].t = NoTransport
               /\ r[i].step = "control" => r[i].cmd \in {"Start", "Stop"}
               /\ r[i].step = "drop" => \A j \in i+1..Len(r) : r[j].t # r[i].t
               /\ r[i].step # "set"
    <2>1. r[i] = p[i]
      BY <1>2, <1>3
    <2>2. ASSUME NEW j \in i+1..Len(r), r[i].step = "drop" PROVE r[j].t # r[i].t
      <3>1. CASE j \in 1..Len(p)
        BY <1>2, <1>3, <2>1, <2>2, <3>1 DEF Fits
      <3>2. CASE j \notin 1..Len(p)
        BY <1>2, <1>3, <2>1, <2>2, <3>2
      <3>3. QED
        BY <3>1, <3>2
    <2>3. QED
      BY <1>3, <2>1, <2>2 DEF Fits
  <1>4. ASSUME NEW i \in 1..Len(r), i \notin 1..Len(p)
        PROVE  /\ r[i].step \in {"control", "drop"} => r[i].t \in S
               /\ r[i].step \notin {"control", "drop"} => r[i].t = NoTransport
               /\ r[i].step = "control" => r[i].cmd \in {"Start", "Stop"}
               /\ r[i].step = "drop" => \A j \in i+1..Len(r) : r[j].t # r[i].t
               /\ r[i].step # "set"
    <2>1. i - Len(p) \in 1..Len(q) /\ r[i] = q[i - Len(p)]
      BY <1>2, <1>4
    <2>2. ASSUME NEW j \in i+1..Len(r), r[i].step = "drop" PROVE r[j].t # r[i].t
      <3>1. j - Len(p) \in (i - Len(p)) + 1 .. Len(q) /\ r[j] = q[j - Len(p)]
        BY <1>2, <1>4
      <3>2. QED
        BY <2>1, <2>2, <3>1 DEF Fits
    <2>3. QED
      BY <2>1, <2>2 DEF Fits
  <1>5. QED
    BY <1>2, <1>3, <1>4 DEF Fits, r

Controls(S, cmd) == [i \in DOMAIN SetToSeq(S) |-> Control(SetToSeq(S)[i], cmd)]

Drops(S) == [i \in DOMAIN SetToSeq(S) |-> Drop(SetToSeq(S)[i])]

LEMMA ControlsFit ==
  ASSUME NEW S \in SUBSET Transports, NEW cmd \in {"Start", "Stop"}
  PROVE  /\ Fits(Controls(S, cmd), S)
         /\ \A i \in 1..Len(Controls(S, cmd)) :
              Controls(S, cmd)[i].step = "control" /\ Controls(S, cmd)[i].cmd = cmd
         /\ \A x \in S : \E i \in 1..Len(Controls(S, cmd)) :
              Controls(S, cmd)[i] = Control(x, cmd)
  <1> DEFINE f == SetToSeq(S)
             p == Controls(S, cmd)
  <1>1. IsFiniteSet(S)
    BY ContentServerAssumption, FS_Subset
  <1>2. /\ f \in Seq(S) /\ DOMAIN f = 1..Len(f) /\ Len(f) \in Nat
        /\ \A x \in S : \E i \in DOMAIN f : f[i] = x
    BY <1>1, SetInSeq
  <1>3. \A i \in 1..Len(f) : f[i] \in S
    BY <1>2
  <1>4. p = [i \in 1..Len(f) |-> Control(f[i], cmd)]
    BY <1>2 DEF Controls
  <1> HIDE DEF f, p
  <1>5. \A i \in 1..Len(f) : Control(f[i], cmd) \in PlanSteps
    BY <1>3 DEF Control, PlanSteps
  <1>6. p \in Seq(PlanSteps) /\ Len(p) = Len(f)
    BY <1>2, <1>4, <1>5
  <1>7. QED
    BY <1>2, <1>3, <1>4, <1>6 DEF Fits, Control, p

LEMMA DropsFit ==
  ASSUME NEW S \in SUBSET Transports
  PROVE  /\ Fits(Drops(S), S)
         /\ \A i \in 1..Len(Drops(S)) : Drops(S)[i].step = "drop"
         /\ \A x \in S : \E i \in 1..Len(Drops(S)) : Drops(S)[i] = Drop(x)
  <1> DEFINE f == SetToSeq(S)
             p == Drops(S)
  <1>1. IsFiniteSet(S)
    BY ContentServerAssumption, FS_Subset
  <1>2. /\ f \in Seq(S) /\ DOMAIN f = 1..Len(f) /\ Len(f) \in Nat
        /\ \A x \in S : \E i \in DOMAIN f : f[i] = x
        /\ \A i, j \in DOMAIN f : f[i] = f[j] => i = j
    BY <1>1, SetInSeq
  <1>3. \A i \in 1..Len(f) : f[i] \in S
    BY <1>2
  <1>4. p = [i \in 1..Len(f) |-> Drop(f[i])]
    BY <1>2 DEF Drops
  <1> HIDE DEF f, p
  <1>5. \A i \in 1..Len(f) : Drop(f[i]) \in PlanSteps
    BY <1>3 DEF Drop, PlanSteps
  <1>6. p \in Seq(PlanSteps) /\ Len(p) = Len(f)
    BY <1>2, <1>4, <1>5
  <1>7. \A i \in 1..Len(p) : p[i].step = "drop" /\ p[i].t = f[i] /\ p[i] = Drop(f[i])
    BY <1>4, <1>6 DEF Drop
  <1>8. \A i \in 1..Len(p) : \A j \in i+1..Len(p) : p[j].t # p[i].t
    BY <1>2, <1>6, <1>7
  <1>9. QED
    BY <1>2, <1>3, <1>6, <1>7, <1>8 DEF Fits, p

LEMMA FitsInMore ==
  ASSUME NEW S, NEW T, S \subseteq T, NEW p, Fits(p, S)
  PROVE  Fits(p, T)
  BY DEF Fits

LEMMA FewSteps ==
  ASSUME NEW S
  PROVE  /\ Fits(<<>>, S) /\ Len(<<>>) = 0
         /\ \A s \in {"Started", "Stopped"} : Fits(<<Step("obeyed", s)>>, S)
         /\ Fits(<<Step("down", "No"), Step("lock", "No")>>, S)
         /\ \A t \in S \cap Transports :
              /\ Fits(<<Drop(t)>>, S)
              /\ \A cmd \in {"Start", "Stop"} : Fits(<<Control(t, cmd)>>, S)
  <1>1. Fits(<<>>, S) /\ Len(<<>>) = 0
    BY DEF Fits
  <1>2. ASSUME NEW s \in {"Started", "Stopped"}
        PROVE  Fits(<<Step("obeyed", s)>>, S)
    BY <1>2 DEF Fits, Step, PlanSteps
  <1>3. Fits(<<Step("down", "No"), Step("lock", "No")>>, S)
    BY DEF Fits, Step, PlanSteps
  <1>4. ASSUME NEW t \in S \cap Transports
        PROVE  Fits(<<Drop(t)>>, S)
    BY <1>4 DEF Fits, Drop, PlanSteps
  <1>5. ASSUME NEW t \in S \cap Transports, NEW cmd \in {"Start", "Stop"}
        PROVE  Fits(<<Control(t, cmd)>>, S)
    BY <1>5 DEF Fits, Control, PlanSteps
  <1>6. QED
    BY <1>1, <1>2, <1>3, <1>4, <1>5

\* What commandAll does, and the status behind it.
SomeCommands(S, cmd) == {Controls(S, cmd), <<>>}
ThenStatus(p, s) == p \o <<Step("obeyed", s)>>

LEMMA CommandsThenStatus ==
  ASSUME NEW S \in SUBSET Transports, NEW cmd \in {"Start", "Stop"},
         NEW s \in {"Started", "Stopped"}, NEW p \in SomeCommands(S, cmd),
         NEW r, r = ThenStatus(p, s)
  PROVE  /\ Fits(r, S) /\ Len(r) = Len(p) + 1 /\ Len(p) \in Nat
         /\ r[Len(r)] = Obeyed(s)
         /\ \A i \in 1..Len(p) : r[i].step = "control" /\ r[i].cmd = cmd
         /\ p = <<>> \/ \A x \in S : \E i \in 1..Len(p) : r[i] = Control(x, cmd)
  <1> DEFINE q == <<Step("obeyed", s)>>
  <1>1. /\ Fits(p, S) /\ Fits(q, S) /\ Len(q) = 1 /\ q[1] = Obeyed(s)
        /\ \A i \in 1..Len(p) : p[i].step = "control" /\ p[i].cmd = cmd
    BY ControlsFit, FewSteps DEF Obeyed, SomeCommands
  <1>2. p = <<>> \/ \A x \in S : \E i \in 1..Len(p) : p[i] = Control(x, cmd)
    BY ControlsFit DEF SomeCommands
  <1> HIDE DEF q
  <1> r = p \o q
    BY DEF q, ThenStatus
  <1>3. Fits(r, S)
    BY <1>1, JoinedFits
  <1>4. p \in Seq(PlanSteps) /\ q \in Seq(PlanSteps)
    BY <1>1 DEF Fits
  <1>5. /\ Len(r) = Len(p) + Len(q) /\ Len(p) \in Nat
        /\ \A i \in 1..Len(p) : r[i] = p[i]
        /\ \A i \in 1..Len(q) : r[Len(p)+i] = q[i]
    BY <1>4, JoinedSteps
  <1>6. r[Len(r)] = Obeyed(s)
    BY <1>1, <1>5
  <1>7. QED
    BY <1>1, <1>2, <1>3, <1>5, <1>6

LEMMA FitsIsOK ==
  ASSUME NEW p, NEW S, Fits(p, S)
  PROVE  PlanOK(p, S)
  BY DEF Fits, PlanOK

LEMMA StartIsOK ==
  ASSUME NEW S \in SUBSET Transports, NEW p \in SomeCommands(S, "Start"), NEW state,
         NEW r, r = ThenStatus(p, "Started")
  PROVE  PlanOK(r, S) /\ CommandsOK(r, S, state)
  <1>1. PICK cmd \in {"Start", "Stop"}, s \in {"Started", "Stopped"} :
          cmd = "Start" /\ s = "Started"
    OBVIOUS
  <1>2. p \in SomeCommands(S, cmd) /\ r = ThenStatus(p, s)
    BY <1>1
  <1>3. /\ Fits(r, S) /\ Len(r) = Len(p) + 1 /\ Len(p) \in Nat
        /\ r[Len(r)] = Obeyed(s)
        /\ \A i \in 1..Len(p) : r[i].step = "control"
    BY <1>2, CommandsThenStatus
  <1>4. /\ Fits(r, S) /\ Len(r) = Len(p) + 1 /\ Len(p) \in Nat
        /\ r[Len(r)] = Obeyed("Started")
        /\ \A i \in 1..Len(p) : r[i].step = "control"
    BY <1>1, <1>3
  <1>5. \A i \in 1..Len(r) : i \in 1..Len(p) \/ i = Len(r)
    BY <1>4
  <1>6. Started(r)
    BY <1>4 DEF Started
  <1>7. CommandsOK(r, S, state)
    BY <1>4, <1>5, <1>6 DEF CommandsOK, Obeyed, Step
  <1>8. QED
    BY <1>4, <1>7, FitsIsOK

NoStarts(p) == \A i \in 1..Len(p) : p[i].step = "control" => p[i].cmd = "Stop"

LEMMA StopIsOK ==
  ASSUME NEW S \in SUBSET Transports, NEW p \in SomeCommands(S, "Stop"), NEW state,
         NEW r, r = ThenStatus(p, "Stopped")
  PROVE  /\ Fits(r, S) /\ CommandsOK(r, S, state) /\ NoStarts(r)
         /\ \A i \in 1..Len(r) : r[i].step # "drop"
  <1>1. PICK cmd \in {"Start", "Stop"}, s \in {"Started", "Stopped"} :
          cmd = "Stop" /\ s = "Stopped"
    OBVIOUS
  <1>2. p \in SomeCommands(S, cmd) /\ r = ThenStatus(p, s)
    BY <1>1
  <1>3. /\ Fits(r, S) /\ Len(r) = Len(p) + 1 /\ Len(p) \in Nat
        /\ r[Len(r)] = Obeyed(s)
        /\ \A i \in 1..Len(p) : r[i].step = "control" /\ r[i].cmd = cmd
        /\ p = <<>> \/ \A x \in S : \E i \in 1..Len(p) : r[i] = Control(x, cmd)
    BY <1>2, CommandsThenStatus
  <1>4. /\ Fits(r, S) /\ Len(r) = Len(p) + 1 /\ Len(p) \in Nat
        /\ r[Len(r)] = Obeyed("Stopped")
        /\ \A i \in 1..Len(p) : r[i].step = "control" /\ r[i].cmd = "Stop"
        /\ p = <<>> \/ \A x \in S : \E i \in 1..Len(p) : r[i] = Control(x, "Stop")
    BY <1>1, <1>3
  <1>5. \A i \in 1..Len(r) : i \in 1..Len(p) \/ i = Len(r)
    BY <1>4
  <1>6. NoStarts(r) /\ \A i \in 1..Len(r) : r[i].step # "drop"
    BY <1>4, <1>5 DEF NoStarts, Obeyed, Step
  <1>7. \A i \in 1..Len(r) : r[i] = Obeyed("Stopped") => i = Len(p) + 1
    BY <1>4, <1>5 DEF Obeyed, Step
  <1>8. \/ \A t \in S : \E j \in 1..Len(p) : r[j] = Control(t, "Stop")
        \/ \A j \in 1..Len(p)+1 : r[j].step # "control"
    <2>1. CASE p = <<>>
      BY <1>4, <2>1 DEF Obeyed, Step
    <2>2. QED
      BY <1>4, <2>1
  <1>9. CommandsOK(r, S, state)
    <2>1. ASSUME NEW i \in 1..Len(r)
          PROVE  r[i].step = "obeyed" => r[i].cmd \in {"Started", "Stopped"}
      BY <1>4, <1>5, <2>1 DEF Obeyed, Step
    <2>2. ASSUME NEW i \in 1..Len(r), r[i] = Obeyed("Stopped")
          PROVE  \/ \A t \in S : \E j \in 1..i-1 : r[j] = Control(t, "Stop")
                 \/ \A j \in 1..i : r[j].step # "control"
      <3>1. i = Len(p) + 1 /\ i - 1 = Len(p)
        BY <1>4, <1>7, <2>2
      <3>2. QED
        BY <1>8, <3>1
    <2>3. QED
      BY <1>6, <2>1, <2>2 DEF CommandsOK, NoStarts
  <1>10. QED
    BY <1>4, <1>6, <1>9

LEMMA BehindCommands ==
  ASSUME NEW p \in Seq(PlanSteps), NEW q \in Seq(PlanSteps), NEW r, r = p \o q,
         NEW S, NEW state, CommandsOK(p, S, state), NoStarts(p),
         \A i \in 1..Len(q) : q[i].step \notin {"control", "obeyed"}
  PROVE  CommandsOK(r, S, state) /\ NoStarts(r)
  <1>1. /\ Len(r) = Len(p) + Len(q) /\ Len(p) \in Nat /\ Len(q) \in Nat
        /\ \A i \in 1..Len(p) : i \in 1..Len(r) /\ r[i] = p[i]
        /\ \A i \in 1..Len(r) : i \notin 1..Len(p) => r[i].step \notin {"control", "obeyed"}
    BY JoinedSteps
  <1>2. NoStarts(r)
    BY <1>1 DEF NoStarts
  <1>3. ASSUME NEW i \in 1..Len(r)
        PROVE  /\ r[i].step = "obeyed" => r[i].cmd \in {"Started", "Stopped"}
               /\ r[i].step = "control" => r[i].cmd = "Stop"
               /\ r[i] = Obeyed("Stopped") =>
                    \/ \A t \in S : \E j \in 1..i-1 : r[j] = Control(t, "Stop")
                    \/ \A j \in 1..i : r[j].step # "control"
    <2>1. CASE i \in 1..Len(p)
      <3>1. \A j \in 1..i : j \in 1..Len(p) /\ r[j] = p[j]
        BY <1>1, <2>1
      <3>2. r[i].step = "obeyed" => r[i].cmd \in {"Started", "Stopped"}
        BY <2>1, <3>1 DEF CommandsOK
      <3>3. r[i].step = "control" => r[i].cmd = "Stop"
        BY <1>2 DEF NoStarts
      <3>4. ASSUME r[i] = Obeyed("Stopped")
            PROVE  \/ \A t \in S : \E j \in 1..i-1 : r[j] = Control(t, "Stop")
                   \/ \A j \in 1..i : r[j].step # "control"
        <4>1. p[i] = Obeyed("Stopped")
          BY <2>1, <3>1, <3>4
        <4>2. \/ \A t \in S : \E j \in 1..i-1 : p[j] = Control(t, "Stop")
              \/ \A j \in 1..i : p[j].step # "control"
          BY <2>1, <4>1 DEF CommandsOK
        <4>3. QED
          BY <3>1, <4>2
      <3>5. QED
        BY <3>2, <3>3, <3>4
    <2>2. CASE i \notin 1..Len(p)
      BY <1>1, <2>2 DEF Obeyed, Step
    <2>3. QED
      BY <2>1, <2>2
  <1>4. QED
    BY <1>2, <1>3 DEF CommandsOK, NoStarts

LEMMA SetBehindDrops ==
  ASSUME NEW S \in SUBSET Transports, NEW p, Fits(p, S), NEW r,
         \A t \in S : \E i \in 1..Len(p) : p[i] = Drop(t),
         r = p \o <<Step("unlock", "No"), Step("set", "Shutdown")>>
  PROVE  PlanOK(r, S)
  <1> DEFINE q == <<Step("unlock", "No"), Step("set", "Shutdown")>>
  <1>1. /\ q \in Seq(PlanSteps) /\ Len(q) = 2
        /\ q[1] = Step("unlock", "No") /\ q[2] = Step("set", "Shutdown")
    BY DEF PlanSteps, Step
  <1>2. p \in Seq(PlanSteps)
    BY DEF Fits
  <1> HIDE DEF q
  <1>3. r = p \o q
    BY DEF q
  <1>4. /\ r \in Seq(PlanSteps) /\ Len(r) = Len(p) + 2 /\ Len(p) \in Nat
        /\ \A i \in 1..Len(p) : r[i] = p[i]
        /\ \A i \in 1..Len(q) : r[Len(p)+i] = q[i]
    BY <1>1, <1>2, <1>3, JoinedSteps
  <1>5. /\ r[Len(p) + 1] = Step("unlock", "No")
        /\ r[Len(p) + 2] = Step("set", "Shutdown")
    BY <1>1, <1>4
  <1>6. ASSUME NEW i \in 1..Len(r)
        PROVE  /\ r[i].step \in {"control", "drop"} => r[i].t \in S
               /\ r[i].step \notin {"control", "drop"} => r[i].t = NoTransport
               /\ r[i].step = "control" => r[i].cmd \in {"Start", "Stop"}
               /\ r[i].step = "set" =>
                    /\ i = Len(r) /\ r[i].cmd = "Shutdown"
                    /\ \A t \in S : \E j \in 1..i-1 : r[j] = Drop(t)
    <2>1. CASE i \in 1..Len(p)
      BY <1>4, <2>1 DEF Fits
    <2>2. CASE i = Len(p) + 1
      BY <1>5, <2>2 DEF Step
    <2>3. CASE i = Len(p) + 2
      <3>1. \A j \in 1..Len(p) : j \in 1..i-1 /\ r[j] = p[j]
        BY <1>4, <2>3
      <3>2. \A t \in S : \E j \in 1..i-1 : r[j] = Drop(t)
        BY <3>1
      <3>3. QED
        BY <1>4, <1>5, <2>3, <3>2 DEF Step
    <2>4. i \in 1..Len(p) \/ i = Len(p) + 1 \/ i = Len(p) + 2
      BY <1>4
    <2>5. QED
      BY <2>1, <2>2, <2>3, <2>4
  <1>7. ASSUME NEW i \in 1..Len(r), r[i].step = "drop", NEW j \in i+1..Len(r)
        PROVE  r[j].t # r[i].t
    <2>1. i \in 1..Len(p)
      BY <1>4, <1>5, <1>7 DEF Step
    <2>2. CASE j \in 1..Len(p)
      BY <1>4, <1>7, <2>1, <2>2 DEF Fits
    <2>3. CASE j \notin 1..Len(p)
      <3>1. j = Len(p) + 1 \/ j = Len(p) + 2
        BY <1>4, <1>7, <2>1, <2>3
      <3>2. r[j].t = NoTransport /\ r[i].t # NoTransport
        <4>1. r[j].t = NoTransport
          BY <1>5, <3>1 DEF Step
        <4>2. r[i].t \in Transports
          BY <1>4, <1>7, <2>1 DEF Fits
        <4>3. QED
          BY <4>1, <4>2, ContentServerAssumption
      <3>3. QED
        BY <3>2
    <2>4. QED
      BY <2>2, <2>3
  <1>8. QED
    BY <1>4, <1>6, <1>7 DEF PlanOK

LEMMA ShutdownIsOK ==
  ASSUME NEW S \in SUBSET Transports, NEW state, NEW c \in SomeCommands(S, "Stop"),
         NEW p \in {ThenStatus(c, "Stopped"), <<>>}, NEW r,
         r = ((p \o <<Step("down", "No"), Step("lock", "No")>>) \o Drops(S))
               \o <<Step("unlock", "No"), Step("set", "Shutdown")>>
  PROVE  PlanOK(r, S) /\ CommandsOK(r, S, state)
  <1> DEFINE q == <<Step("down", "No"), Step("lock", "No")>>
             z == <<Step("unlock", "No"), Step("set", "Shutdown")>>
             p1 == p \o q
             p2 == p1 \o Drops(S)
  <1>1. /\ Fits(p, S) /\ CommandsOK(p, S, state) /\ NoStarts(p)
        /\ \A i \in 1..Len(p) : p[i].step # "drop"
    <2>1. CASE p = ThenStatus(c, "Stopped")
      BY <2>1, StopIsOK
    <2>2. CASE p = <<>>
      BY <2>2, FewSteps DEF CommandsOK, NoStarts
    <2>3. QED
      BY <2>1, <2>2
  <1>2. /\ Fits(q, S) /\ Len(q) = 2
        /\ \A i \in 1..Len(q) : q[i].step \in {"down", "lock"}
    <2>1. Fits(q, S)
      BY FewSteps
    <2>2. /\ Len(q) = 2 /\ q[1].step = "down" /\ q[2].step = "lock"
      BY DEF Step
    <2>3. QED
      BY <2>1, <2>2
  <1>3. /\ z \in Seq(PlanSteps)
        /\ \A i \in 1..Len(z) : z[i].step \in {"unlock", "set"}
    BY DEF Step, PlanSteps
  <1>4. /\ Fits(Drops(S), S)
        /\ \A i \in 1..Len(Drops(S)) : Drops(S)[i].step = "drop"
        /\ \A x \in S : \E i \in 1..Len(Drops(S)) : Drops(S)[i] = Drop(x)
    BY DropsFit
  <1> DEFINE d == Drops(S)
  <1> HIDE DEF q, z, d
  <1>5. /\ p \in Seq(PlanSteps) /\ q \in Seq(PlanSteps) /\ d \in Seq(PlanSteps)
    BY <1>1, <1>2, <1>4 DEF Fits, d
  <1>6. /\ Fits(p1, S) /\ CommandsOK(p1, S, state) /\ NoStarts(p1)
        /\ p1 \in Seq(PlanSteps)
        /\ \A i \in 1..Len(p1) : p1[i].step # "drop"
    <2>1. Fits(p1, S)
      BY <1>1, <1>2, JoinedFits
    <2>2. CommandsOK(p1, S, state) /\ NoStarts(p1)
      BY <1>1, <1>2, <1>5, BehindCommands
    <2>3. \A i \in 1..Len(p1) : p1[i].step # "drop"
      BY <1>1, <1>2, <1>5, JoinedUndropped
    <2>4. QED
      BY <2>1, <2>2, <2>3 DEF Fits
  <1> HIDE DEF p1
  <1>7. /\ Fits(p2, S) /\ CommandsOK(p2, S, state) /\ NoStarts(p2)
        /\ p2 \in Seq(PlanSteps)
        /\ \A x \in S : \E i \in 1..Len(p2) : p2[i] = Drop(x)
    <2>1. Fits(p2, S)
      BY <1>4, <1>6, JoinedFits
    <2>2. CommandsOK(p2, S, state) /\ NoStarts(p2)
      BY <1>4, <1>5, <1>6, BehindCommands DEF d
    <2>3. \A i \in 1..Len(d) : Len(p1)+i \in 1..Len(p2) /\ p2[Len(p1)+i] = d[i]
      BY <1>5, <1>6, JoinedSteps DEF d
    <2>4. \A x \in S : \E i \in 1..Len(p2) : p2[i] = Drop(x)
      BY <1>4, <2>3 DEF d
    <2>5. QED
      BY <2>1, <2>2, <2>4 DEF Fits
  <1> HIDE DEF p2
  <1>8. r = p2 \o z
    BY DEF p2, p1, q, z
  <1>9. PlanOK(r, S)
    BY <1>7, <1>8, SetBehindDrops DEF z
  <1>10. CommandsOK(r, S, state)
    BY <1>3, <1>7, <1>8, BehindCommands
  <1>11. QED
    BY <1>9, <1>10

LEMMA DropsThenStart ==
  ASSUME NEW T, NEW d, NEW q, NEW r, r = d \o q, Fits(d, T), Fits(q, T), NEW state,
         \A i \in 1..Len(d) : d[i].step = "drop",
         \A i \in 1..Len(q) : q[i].step = "control" /\ state = "Started",
         \A i \in 1..Len(d), j \in 1..Len(q) : d[i].step = "drop" => q[j].t # d[i].t
  PROVE  PlanOK(r, T) /\ CommandsOK(r, T, state)
  <1>1. Fits(r, T)
    BY JoinedFits
  <1>2. d \in Seq(PlanSteps) /\ q \in Seq(PlanSteps)
    BY DEF Fits
  <1>3. \A i \in 1..Len(r) : r[i].step \in {"drop", "control"}
                             /\ (r[i].step = "control" => state = "Started")
    BY <1>2, JoinedMembers
  <1>4. CommandsOK(r, T, state)
    BY <1>3 DEF CommandsOK, Obeyed, Step
  <1>5. QED
    BY <1>1, <1>4, FitsIsOK

LEMMA AddIsOK ==
  ASSUME NEW S \in SUBSET Transports, NEW t \in Transports, t \notin S,
         NEW same \in SUBSET S, NEW state, NEW r,
         r = Drops(same) \o IF state = "Started" THEN <<Control(t, "Start")>> ELSE <<>>
  PROVE  PlanOK(r, S \cup {t}) /\ CommandsOK(r, S \cup {t}, state)
  <1> DEFINE T == S \cup {t}
             q == IF state = "Started" THEN <<Control(t, "Start")>> ELSE <<>>
             d == Drops(same)
  <1>1. /\ Fits(d, T) /\ \A i \in 1..Len(d) : d[i].step = "drop" /\ d[i].t \in same
    <2>1. /\ Fits(d, same) /\ \A i \in 1..Len(d) : d[i].step = "drop"
      BY DropsFit
    <2>2. same \subseteq T
      OBVIOUS
    <2>3. QED
      BY <2>1, <2>2, FitsInMore DEF Fits
  <1>2. /\ Fits(q, T)
        /\ \A i \in 1..Len(q) : q[i].step = "control" /\ q[i].t = t /\ state = "Started"
    <2>1. CASE state = "Started"
      <3>1. q = <<Control(t, "Start")>>
        BY <2>1
      <3>2. PICK cmd \in {"Start", "Stop"} : cmd = "Start"
        OBVIOUS
      <3>3. Fits(<<Control(t, cmd)>>, T)
        BY FewSteps
      <3>4. QED
        BY <2>1, <3>1, <3>2, <3>3 DEF Control
    <2>2. CASE state # "Started"
      BY <2>2, FewSteps
    <2>3. QED
      BY <2>1, <2>2
  <1> HIDE DEF d, q
  <1>3. r = d \o q
    BY DEF d, q
  <1>4. \A i \in 1..Len(d), j \in 1..Len(q) : d[i].step = "drop" => q[j].t # d[i].t
    BY <1>1, <1>2
  <1>5. PlanOK(r, T) /\ CommandsOK(r, T, state)
    BY <1>1, <1>2, <1>3, <1>4, DropsThenStart
  <1>6. QED
    BY <1>5

LEMMA RemoveIsOK ==
  ASSUME NEW S \in SUBSET Transports, NEW t \in S, NEW state, NEW r,
         r = (IF state = "Started" THEN <<Control(t, "Stop")>> ELSE <<>>) \o <<Drop(t)>>
  PROVE  PlanOK(r, S) /\ CommandsOK(r, S, state)
  <1> DEFINE q == IF state = "Started" THEN <<Control(t, "Stop")>> ELSE <<>>
             d == <<Drop(t)>>
  <1>1. Fits(d, S) /\ \A i \in 1..Len(d) : d[i].step = "drop"
    <2>1. Fits(d, S)
      BY FewSteps
    <2>2. Len(d) = 1 /\ d[1].step = "drop"
      BY DEF Drop
    <2>3. QED
      BY <2>1, <2>2
  <1>2. /\ Fits(q, S)
        /\ \A i \in 1..Len(q) : q[i].step = "control" /\ q[i].cmd = "Stop"
    <2>1. CASE state = "Started"
      <3>1. q = <<Control(t, "Stop")>>
        BY <2>1
      <3>2. PICK cmd \in {"Start", "Stop"} : cmd = "Stop"
        OBVIOUS
      <3>3. Fits(<<Control(t, cmd)>>, S)
        BY FewSteps
      <3>4. QED
        BY <3>1, <3>2, <3>3 DEF Control
    <2>2. CASE state # "Started"
      BY <2>2, FewSteps
    <2>3. QED
      BY <2>1, <2>2
  <1> HIDE DEF d, q
  <1>3. r = q \o d
    BY DEF d, q
  <1>4. Fits(r, S)
    BY <1>1, <1>2, <1>3, JoinedFits
  <1>5. d \in Seq(PlanSteps) /\ q \in Seq(PlanSteps)
    BY <1>1, <1>2 DEF Fits
  <1>6. \A i \in 1..Len(r) : r[i].step \in {"drop", "control"}
                             /\ (r[i].step = "control" => r[i].cmd = "Stop")
    <2> SUFFICES ASSUME NEW i \in 1..Len(r)
                 PROVE  /\ r[i].step \in {"drop", "control"}
                        /\ r[i].step = "control" => r[i].cmd = "Stop"
      OBVIOUS
    <2>1. (\E j \in 1..Len(q) : r[i] = q[j]) \/ (\E j \in 1..Len(d) : r[i] = d[j])
      BY <1>3, <1>5, JoinedMembers
    <2>2. QED
      BY <1>1, <1>2, <2>1
  <1>7. CommandsOK(r, S, state)
    BY <1>6 DEF CommandsOK, Obeyed, Step
  <1>8. QED
    BY <1>4, <1>7, FitsIsOK

LEMMA PlanTail ==
  ASSUME PlanInv, plan # <<>>, NEW S,
         IF plan[1].step = "drop" THEN S = installed \ {plan[1].t} ELSE S = installed
  PROVE  PlanOK(Tail(plan), S)
  <1> DEFINE q == Tail(plan)
  <1>1. /\ 1 \in 1..Len(plan) /\ Len(plan) \in Nat
        /\ q \in Seq(PlanSteps) /\ Len(q) = Len(plan) - 1
        /\ \A i \in 1..Len(q) : i + 1 \in 1..Len(plan) /\ q[i] = plan[i + 1]
    BY HeadStep DEF PlanInv, PlanOK
  <1> HIDE DEF q
  <1>2. ASSUME NEW i \in 1..Len(q)
        PROVE  /\ q[i].step \in {"control", "drop"} => q[i].t \in S
               /\ q[i].step \notin {"control", "drop"} => q[i].t = NoTransport
               /\ q[i].step = "control" => q[i].cmd \in {"Start", "Stop"}
    <2>1. i + 1 \in 2..Len(plan) /\ q[i] = plan[i + 1]
      BY <1>1
    <2>2. plan[1].step = "drop" => plan[i + 1].t # plan[1].t
      BY <1>1, <2>1 DEF PlanInv, PlanOK
    <2>3. QED
      BY <1>1, <2>1, <2>2 DEF PlanInv, PlanOK
  <1>3. ASSUME NEW i \in 1..Len(q), q[i].step = "drop", NEW j \in i+1..Len(q)
        PROVE  q[j].t # q[i].t
    <2>1. /\ i + 1 \in 1..Len(plan) /\ q[i] = plan[i + 1]
          /\ j + 1 \in (i + 1) + 1..Len(plan) /\ q[j] = plan[j + 1]
      <3>1. PICK n \in Nat : n = Len(q) /\ n + 1 = Len(plan)
        BY <1>1
      <3>2. i \in 1..n /\ j \in i+1..n
        BY <3>1
      <3>3. j \in 1..n /\ i + 1 \in 1..n + 1 /\ j + 1 \in (i + 1) + 1..n + 1
        BY <3>2
      <3>4. QED
        BY <1>1, <3>1, <3>2, <3>3
    <2>2. QED
      BY <1>3, <2>1 DEF PlanInv, PlanOK
  <1>4. ASSUME NEW i \in 1..Len(q), q[i].step = "set"
        PROVE  /\ i = Len(q) /\ q[i].cmd = "Shutdown"
               /\ \A t \in S : \E j \in 1..i-1 : q[j] = Drop(t)
    <2>1. i + 1 \in 1..Len(plan) /\ q[i] = plan[i + 1]
      BY <1>1
    <2>2. /\ i + 1 = Len(plan) /\ plan[i + 1].cmd = "Shutdown"
          /\ \A t \in installed : \E j \in 1..(i + 1)-1 : plan[j] = Drop(t)
      BY <1>4, <2>1 DEF PlanInv, PlanOK
    <2>3. ASSUME NEW t \in S PROVE \E j \in 1..i-1 : q[j] = Drop(t)
      <3>1. t \in installed /\ plan[1] # Drop(t)
        BY <2>3 DEF Drop
      <3>2. PICK j \in 1..i : plan[j] = Drop(t)
        BY <2>2, <3>1
      <3>3. j # 1
        BY <3>1, <3>2
      <3>4. j - 1 \in 1..i-1 /\ q[j - 1] = plan[j]
        BY <1>1, <3>3
      <3>5. QED
        BY <3>2, <3>4
    <2>4. QED
      BY <1>1, <2>1, <2>2, <2>3
  <1>5. QED
    BY <1>1, <1>2, <1>3, <1>4 DEF PlanOK, q

ServerCall ==
  InitServer \/ StartServer \/ StopServer \/ ShutdownServer
    \/ \E t \in Transports : AddTransport(t) \/ RemoveTransport(t)

LEMMA CallPlan ==
  ASSUME MachineInv, ServerCall
  PROVE  PlanOK(plan', installed') /\ CommandsOK(plan', installed', contentState')
         /\ plan = <<>> /\ Waited /\ obeyed' = FALSE
  <1> USE DEF serverVars
  <1>1. installed \in SUBSET Transports
    BY DEF MachineInv, MachineTypeOK
  <1>2. CASE InitServer
    <2>1. PICK S \in SUBSET Transports :
            /\ installed' = S
            /\ Calls([i \in DOMAIN SetToSeq(S) |-> Control(SetToSeq(S)[i], "Start")]
                       \o <<Step("obeyed", "Started")>>)
      BY <1>2 DEF InitServer
    <2>2. /\ plan' = ThenStatus(Controls(S, "Start"), "Started")
          /\ Controls(S, "Start") \in SomeCommands(S, "Start")
          /\ plan = <<>> /\ Waited /\ obeyed' = FALSE
      BY <2>1 DEF Calls, ThenStatus, Controls, SomeCommands
    <2>3. PlanOK(plan', S) /\ CommandsOK(plan', S, contentState')
      BY <2>2, StartIsOK
    <2>4. QED
      BY <2>1, <2>2, <2>3
  <1>3. CASE StartServer
    <2>1. PICK p \in SomeCommands(installed, "Start") :
            StartPlan = p \o <<Step("obeyed", "Started")>>
      BY DEF StartPlan, CommandAll, All, Controls, SomeCommands
    <2>2. /\ plan' = ThenStatus(p, "Started") /\ UNCHANGED <<installed, contentState>>
          /\ plan = <<>> /\ Waited /\ obeyed' = FALSE
      BY <1>3, <2>1 DEF StartServer, Calls, ThenStatus
    <2>3. PlanOK(plan', installed) /\ CommandsOK(plan', installed, contentState)
      BY <1>1, <2>1, <2>2, StartIsOK
    <2>4. QED
      BY <2>2, <2>3
  <1>4. CASE StopServer
    <2>1. PICK p \in SomeCommands(installed, "Stop") : StopPlan = ThenStatus(p, "Stopped")
      BY DEF StopPlan, CommandAll, All, Controls, SomeCommands, ThenStatus
    <2>2. /\ plan' = ThenStatus(p, "Stopped") /\ UNCHANGED <<installed, contentState>>
          /\ plan = <<>> /\ Waited /\ obeyed' = FALSE
      BY <1>4, <2>1 DEF StopServer, Calls
    <2>3. Fits(plan', installed) /\ CommandsOK(plan', installed, contentState)
      BY <1>1, <2>1, <2>2, StopIsOK
    <2>4. QED
      BY <2>2, <2>3, FitsIsOK
  <1>5. CASE ShutdownServer
    <2>1. PICK c \in SomeCommands(installed, "Stop") : StopPlan = ThenStatus(c, "Stopped")
      BY DEF StopPlan, CommandAll, All, Controls, SomeCommands, ThenStatus
    <2>2. PICK p \in {ThenStatus(c, "Stopped"), <<>>} :
            p = IF contentState = "Started" THEN StopPlan ELSE <<>>
      BY <2>1
    <2>3. /\ plan' = ((p \o <<Step("down", "No"), Step("lock", "No")>>) \o Drops(installed))
                       \o <<Step("unlock", "No"), Step("set", "Shutdown")>>
          /\ UNCHANGED <<installed, contentState>>
          /\ plan = <<>> /\ Waited /\ obeyed' = FALSE
      BY <1>5, <2>2 DEF ShutdownServer, Calls, ShutdownPlan, Drops
    <2>4. PlanOK(plan', installed) /\ CommandsOK(plan', installed, contentState)
      BY <1>1, <2>1, <2>2, <2>3, ShutdownIsOK
    <2>5. QED
      BY <2>3, <2>4
  <1>6. ASSUME NEW t \in Transports, AddTransport(t)
        PROVE  PlanOK(plan', installed') /\ CommandsOK(plan', installed', contentState')
               /\ plan = <<>> /\ Waited /\ obeyed' = FALSE
    <2> DEFINE same == {u \in installed : NameOf[u] = NameOf[t]}
    <2>1. /\ plan' = Drops(same) \o IF contentState = "Started" THEN <<Control(t, "Start")>>
                                   ELSE <<>>
          /\ installed' = installed \cup {t} /\ contentState' = contentState
          /\ plan = <<>> /\ Waited /\ obeyed' = FALSE
      BY <1>6 DEF AddTransport, Calls, Drops
    <2>2. t \notin installed /\ same \in SUBSET installed
      BY <1>6 DEF AddTransport, MachineInv, Owned
    <2> HIDE DEF same
    <2>3. /\ PlanOK(plan', installed \cup {t})
          /\ CommandsOK(plan', installed \cup {t}, contentState)
      BY <1>1, <2>1, <2>2, AddIsOK
    <2>4. QED
      BY <2>1, <2>3
  <1>7. ASSUME NEW t \in Transports, RemoveTransport(t)
        PROVE  PlanOK(plan', installed') /\ CommandsOK(plan', installed', contentState')
               /\ plan = <<>> /\ Waited /\ obeyed' = FALSE
    <2>1. /\ plan' = (IF contentState = "Started" THEN <<Control(t, "Stop")>> ELSE <<>>)
                       \o <<Drop(t)>>
          /\ UNCHANGED <<installed, contentState>> /\ t \in installed
          /\ plan = <<>> /\ Waited /\ obeyed' = FALSE
      BY <1>7 DEF RemoveTransport, Calls
    <2>2. PlanOK(plan', installed) /\ CommandsOK(plan', installed, contentState)
      BY <1>1, <2>1, RemoveIsOK
    <2>3. QED
      BY <2>1, <2>2
  <1>8. QED
    BY <1>2, <1>3, <1>4, <1>5, <1>6, <1>7 DEF ServerCall

LEMMA PlanStep ==
  ASSUME MachineInv, PlanInv, [ContentNext]_contentVars
  PROVE  PlanInv'
  <1> USE DEF serverVars, ownerVars
  <1>1. CASE ServerCall
    BY <1>1, CallPlan DEF PlanInv
  <1>2. ASSUME NEW t \in Transports,
               \/ ControlStep(t) \/ ListenerStep(t)
               \/ \E r \in ContentPosts : ClientConnects(t, r)
        PROVE  UNCHANGED <<plan, installed>>
    BY <1>2 DEF ControlStep, ControlDone, ControlHalted, ControlDown, ControlAborts,
       ListenerStep, ListenerStopped, ListenerTriggered, ListenFails, ListenerAccepts,
       ListenerReads, ListenerRefuses, ListenerAdds, ListenerCloses, QueueMessage,
       ListenerLeaves, ClientConnects
  <1>3. CASE WorkStep \/ SendStep \/ UNCHANGED contentVars
    <2>1. UNCHANGED <<plan, installed>>
      BY <1>3 DEF WorkStep, SendStep, DoWork, SenderCalls, LetsGo, UserDestroyed,
         WorkerLeaves, contentVars
    <2>2. QED
      BY <2>1 DEF PlanInv, PlanOK
  <1>4. CASE OwnerStep
    <2>1. /\ plan # <<>> /\ plan' = Tail(plan)
          /\ IF plan[1].step = "drop" THEN installed' = installed \ {plan[1].t}
             ELSE installed' = installed
      BY <1>4, HeadStep DEF OwnerStep, OwnerControls, OwnerDrops, OwnerObeyed, OwnerSets,
         OwnerDowns, OwnerLocks, OwnerUnlocks, Next1
    <2>2. PlanOK(plan', installed')
      BY <2>1, PlanTail
    <2>3. QED
      BY <2>2 DEF PlanInv
  <1>5. QED
    <2>1. UNCHANGED <<plan, installed>> => PlanInv'
      BY DEF PlanInv, PlanOK
    <2>2. QED
      BY <1>1, <1>2, <1>3, <1>4, <2>1 DEF ContentNext, ServerCall

-----------------------------------------------------------------------------
(* The status *)

LEMMA CallStatus ==
  ASSUME MachineInv, StatusInv, ServerCall
  PROVE  StatusInv'
  <1> USE DEF serverVars
  <1>1. /\ CommandsOK(plan', installed', contentState')
        /\ plan = <<>> /\ Waited /\ obeyed' = FALSE
    BY CallPlan
  <1>2. \A t \in Transports : control[t] \notin {"starting", "stopping"}
    BY <1>1, WaitedForAll
  <1>3. /\ control' = control
        /\ contentState' \in {"Initted", "Started", "Stopped"}
        /\ contentState' = contentState \/ contentState' = "Initted"
    BY DEF ServerCall, InitServer, StartServer, StopServer, ShutdownServer, AddTransport,
       RemoveTransport, StatusInv
  <1>4. StopsAll'
    BY <1>1, <1>2, <1>3 DEF CommandsOK, StopsAll
  <1>5. StoppedQuiet'
    <2> SUFFICES ASSUME contentState' = "Stopped"
                 PROVE  \A t \in installed' : Quiet(t)'
      BY DEF StoppedQuiet
    <2>1. \A t \in installed : Quiet(t)
      BY <1>1, <1>3 DEF StatusInv, StoppedQuiet, Started
    <2>2. CASE \E t \in Transports : AddTransport(t)
      <3>1. PICK t \in Transports : AddTransport(t)
        BY <2>2
      <3>2. control[t] = "none"
        BY <3>1, NewIsIdle DEF AddTransport
      <3>3. Quiet(t)'
        BY <3>1, <3>2 DEF AddTransport, Quiet, Serving, MachineInv, MachineTypeOK
      <3>4. \A u \in installed : u # t => Quiet(u)'
        BY <2>1, <3>1 DEF AddTransport, Quiet, Serving, MachineInv, MachineTypeOK
      <3>5. QED
        BY <3>1, <3>3, <3>4 DEF AddTransport
    <2>3. CASE ~\E t \in Transports : AddTransport(t)
      <3>1. UNCHANGED <<installed, tState, listenerAt, control>>
        BY <2>3 DEF ServerCall, InitServer, StartServer, StopServer, ShutdownServer,
           RemoveTransport
      <3>2. QED
        BY <2>1, <3>1 DEF Quiet, Serving
    <2>4. QED
      BY <2>2, <2>3
  <1>6. QED
    BY <1>1, <1>3, <1>4, <1>5 DEF StatusInv, CommandsOK

\* What the others do keeps the status as long as a quiet transport stays so.
LEMMA StatusKept ==
  ASSUME StatusInv, UNCHANGED <<plan, installed, contentState, obeyed>>,
         contentState = "NoState" => UNCHANGED <<userAt, listenerAt>>,
         \A t \in installed : Quiet(t) => Quiet(t)',
         \A t \in installed : control[t] = "stopping" => control'[t] = "stopping" \/ Quiet(t)',
         \A t \in Transports : control[t] = "starting" => control'[t] = "starting",
         \A t \in Transports :
           control'[t] \in {"starting", "stopping"} => control[t] \in {"starting", "stopping"}
  PROVE  StatusInv'
  <1>1. StoppedQuiet'
    BY DEF StatusInv, StoppedQuiet, Started
  <1>2. StopsAll'
    <2> SUFFICES ASSUME NEW i \in 1..Len(plan), plan[i] = Obeyed("Stopped")
                 PROVE
        /\ \A j \in 1..Len(plan) : plan[j].step = "control" => plan[j].cmd = "Stop"
        /\ \/ \A t \in installed :
                \/ Quiet(t)' \/ control'[t] = "stopping"
                \/ \E j \in 1..i-1 : plan[j] = Control(t, "Stop")
           \/ /\ ~obeyed /\ \A j \in 1..i : plan[j].step # "control"
              /\ \A t \in Transports : control'[t] \notin {"starting", "stopping"}
      BY DEF StopsAll
    <2>1. /\ \A j \in 1..Len(plan) : plan[j].step = "control" => plan[j].cmd = "Stop"
          /\ \/ \A t \in installed :
                  \/ Quiet(t) \/ control[t] = "stopping"
                  \/ \E j \in 1..i-1 : plan[j] = Control(t, "Stop")
             \/ /\ ~obeyed /\ \A j \in 1..i : plan[j].step # "control"
                /\ \A t \in Transports : control[t] \notin {"starting", "stopping"}
      BY DEF StatusInv, StopsAll
    <2>2. QED
      BY <2>1
  <1>3. QED
    BY <1>1, <1>2 DEF StatusInv, Started

LEMMA ListenerStatus ==
  ASSUME MachineInv, StatusInv, NEW t \in Transports, ListenerStep(t)
  PROVE  StatusInv'
  <1> USE DEF ListenerGoes, serverVars, ownerVars, workVars, eventVars, SetTransport
  <1>1. Obeys(t) /\ Owned(t) /\ MachineTypeOK
    BY DEF MachineInv
  <1>2. /\ UNCHANGED <<plan, installed, contentState, obeyed, control>>
        /\ listenerAt[t] # "new"
    BY DEF ListenerStep, ListenerStopped, ListenerTriggered, ListenFails, ListenerAccepts,
       ListenerReads, ListenerRefuses, ListenerAdds, ListenerCloses, QueueMessage,
       ListenerLeaves
  <1>3. contentState # "NoState"
    BY <1>2 DEF StatusInv
  <1>4. \A u \in Transports : u # t => tState'[u] = tState[u] /\ listenerAt'[u] = listenerAt[u]
    BY <1>1 DEF MachineTypeOK, ListenerStep, ListenerStopped, ListenerTriggered, ListenFails,
       ListenerAccepts, ListenerReads, ListenerRefuses, ListenerAdds, ListenerCloses,
       QueueMessage, ListenerLeaves
  <1>5. ASSUME t \in installed, Quiet(t) PROVE Quiet(t)'
    <2>1. control[t] \in {"none", "stopping"}
      BY <1>1, <1>5 DEF Owned, Quiet, MachineTypeOK
    <2>2. listenerAt[t] = "parked" => ~trigger[t]
      BY <1>1, <2>1 DEF Obeys, Uncontrolled, Stopping, Rests, Serving, Failed
    <2>3. CASE ListenerStopped(t)
      BY <1>1, <1>5, <2>3 DEF ListenerStopped, Quiet, Serving, MachineTypeOK
    <2>4. CASE ListenerLeaves(t)
      BY <1>1, <1>5, <2>4 DEF ListenerLeaves, Quiet, Serving, MachineTypeOK
    <2>5. CASE ListenerTriggered(t) \/ ListenFails(t)
      BY <2>2, <2>5 DEF ListenerTriggered, ListenFails
    <2>6. CASE \/ \E r \in ContentPosts : ListenerAccepts(t, r)
               \/ ListenerReads(t) \/ ListenerRefuses(t)
               \/ ListenerAdds(t) \/ ListenerCloses(t) \/ QueueMessage(t)
      BY <1>5, <2>6 DEF ListenerAccepts, ListenerReads, ListenerRefuses, ListenerAdds,
         ListenerCloses, QueueMessage, Quiet, Serving
    <2>7. QED
      BY <2>3, <2>4, <2>5, <2>6 DEF ListenerStep
  <1>6. \A u \in installed : Quiet(u) => Quiet(u)'
    <2>1. \A u \in installed : u # t /\ Quiet(u) => Quiet(u)'
      BY <1>1, <1>2, <1>4 DEF Quiet, Serving, MachineTypeOK
    <2>2. QED
      BY <1>5, <2>1
  <1>7. QED
    BY <1>2, <1>3, <1>6, StatusKept

LEMMA ControlStatus ==
  ASSUME MachineInv, StatusInv, NEW t \in Transports, ControlStep(t)
  PROVE  StatusInv'
  <1> USE DEF serverVars, ownerVars, workVars, eventVars
  <1>1. Obeys(t) /\ Owned(t) /\ MachineTypeOK
    BY DEF MachineInv
  <1>2. /\ UNCHANGED <<plan, installed, contentState, listenerAt, tState, userAt>>
        /\ \A u \in Transports : u # t => control'[u] = control[u]
        /\ control'[t] \notin {"starting", "stopping"}
    BY <1>1 DEF ControlStep, ControlDone, ControlHalted, ControlDown, ControlAborts,
       ControlShuts, MachineTypeOK
  <1>3. CASE ControlDone(t)
    <2>1. /\ control[t] \in {"starting", "stopping"} /\ obeyed' = TRUE
          /\ control'[t] = "none" /\ (control[t] = "stopping" => stoppedEv[t])
      BY <1>1, <1>3 DEF ControlDone, MachineTypeOK
    <2>2. \A u \in installed : Quiet(u) => Quiet(u)'
      BY <1>1, <1>2, <2>1 DEF Quiet, Serving, MachineTypeOK
    <2>3. control[t] = "stopping" => Quiet(t)'
      BY <1>1, <1>2, <2>1 DEF Obeys, Stopping, Quiet, Serving
    <2>4. StoppedQuiet'
      BY <1>2, <2>1, <2>2 DEF StatusInv, StoppedQuiet, Started
    <2>5. StopsAll'
      <3> SUFFICES ASSUME NEW i \in 1..Len(plan), plan[i] = Obeyed("Stopped")
                   PROVE
          /\ \A j \in 1..Len(plan) : plan[j].step = "control" => plan[j].cmd = "Stop"
          /\ \A u \in installed :
               \/ Quiet(u)' \/ control'[u] = "stopping"
               \/ \E j \in 1..i-1 : plan[j] = Control(u, "Stop")
        BY <1>2 DEF StopsAll
      <3>1. /\ \A j \in 1..Len(plan) : plan[j].step = "control" => plan[j].cmd = "Stop"
            /\ \A u \in installed :
                 \/ Quiet(u) \/ control[u] = "stopping"
                 \/ \E j \in 1..i-1 : plan[j] = Control(u, "Stop")
        BY <2>1 DEF StatusInv, StopsAll
      <3>2. \A u \in installed : u \in Transports
        BY <1>1 DEF MachineTypeOK
      <3>3. QED
        BY <1>2, <2>1, <2>2, <2>3, <3>1, <3>2
    <2>6. QED
      BY <1>2, <2>1, <2>4, <2>5 DEF StatusInv, Started
  <1>4. CASE ControlHalted(t) \/ ControlDown(t) \/ ControlAborts(t)
    <2>1. control[t] \in {"halting", "shutting", "aborting"} /\ obeyed' = obeyed
      BY <1>4 DEF ControlHalted, ControlDown, ControlAborts
    <2>2. t \notin installed
      BY <1>1, <2>1 DEF Owned
    <2>3. installed \subseteq Transports
      BY <1>1 DEF MachineTypeOK
    <2>4. \A u \in installed : Quiet(u) => Quiet(u)'
      BY <1>2, <2>2, <2>3 DEF Quiet, Serving
    <2>5. QED
      BY <1>2, <2>1, <2>2, <2>3, <2>4, StatusKept
  <1>5. QED
    BY <1>3, <1>4 DEF ControlStep

LEMMA UserStatus ==
  ASSUME MachineInv, StatusInv, WorkStep \/ SendStep
  PROVE  StatusInv'
  <1>1. MachineTypeOK /\ UsersKnow /\ \A u \in Transports : Owned(u)
    BY DEF MachineInv
  <1>2. PICK v \in Users : UserStep(v)
    BY UserSteps
  <1>3. /\ UNCHANGED <<plan, installed, contentState, obeyed, listenerAt>>
        /\ userAt[v] # "none"
    BY <1>2 DEF UserStep, Takes, WorkStep, SendStep, DoWork, SenderCalls, LetsGo,
       UserDestroyed, WorkerLeaves, UserGoes, serverVars, ownerVars
  <1>4. contentState # "NoState"
    BY <1>3 DEF StatusInv
  <1>5. CASE UNCHANGED <<control, tState>>
    <2>1. \A u \in installed : Quiet(u) => Quiet(u)'
      BY <1>3, <1>5 DEF Quiet, Serving
    <2>2. QED
      BY <1>3, <1>4, <1>5, <2>1, StatusKept
  <1>6. CASE /\ LetsGo(v) /\ userHolds[v] \notin installed
             /\ \A w \in Users \ {v} : ~HeldBy(w, userHolds[v])
    <2>1. PICK t \in Transports : t = userHolds[v]
      BY <1>6, LastKeepsMachine
    <2>2. control[t] = "none" /\ listenerAt[t] # "new" /\ Destroys(t)
      BY <1>6, <2>1, LastKeepsMachine
    <2>3. /\ \A u \in Transports : u # t => SameOf(u)
          /\ control'[t] \in {"none", "halting", "shutting"}
      BY <1>3, <2>2, DestroyBegun
    <2>4. installed \subseteq Transports /\ t \notin installed
      BY <1>1, <1>6, <2>1 DEF MachineTypeOK
    <2>5. \A u \in installed : Quiet(u) => Quiet(u)'
      BY <1>3, <2>3, <2>4 DEF Quiet, Serving, SameOf
    <2>6. \A u \in Transports : u = t \/ control'[u] = control[u]
      BY <2>3 DEF SameOf
    <2>7. QED
      BY <1>3, <1>4, <2>2, <2>3, <2>4, <2>5, <2>6, StatusKept
  <1>7. QED
    BY <1>2, <1>5, <1>6 DEF UserStep, Takes, LetsGo, UserDestroyed, NoControl

LEMMA TailStarted ==
  ASSUME PlanInv, plan # <<>>, Started(plan), plan[1].step # "obeyed" \/ Len(plan) # 1
  PROVE  Started(Tail(plan))
  <1> DEFINE q == Tail(plan)
  <1>1. /\ plan \in Seq(PlanSteps) /\ Len(plan) \in Nat /\ Len(plan) # 0
        /\ plan[Len(plan)] = Obeyed("Started")
    BY DEF PlanInv, PlanOK, Started
  <1>2. Len(plan) # 1
    BY <1>1 DEF Obeyed, Step
  <1>3. /\ q \in Seq(PlanSteps) /\ Len(q) = Len(plan) - 1
        /\ \A i \in 1..Len(plan)-1 : q[i] = plan[i + 1]
    BY HeadStep
  <1> HIDE DEF q
  <1>4. /\ Len(q) \in 1..Len(plan)-1 /\ Len(q) + 1 = Len(plan)
    BY <1>1, <1>2, <1>3
  <1>5. q[Len(q)] = plan[Len(q) + 1]
    BY <1>3, <1>4
  <1>6. q[Len(q)] = Obeyed("Started")
    BY <1>1, <1>4, <1>5
  <1>7. q # <<>>
    BY <1>3, <1>4
  <1>8. QED
    BY <1>6, <1>7 DEF Started, q

\* What the head of a plan does keeps the promise of the stop behind it.
LEMMA TailStops ==
  ASSUME MachineInv, PlanInv, StatusInv, Waited, plan # <<>>, plan' = Tail(plan),
         obeyed' = obeyed, installed' \subseteq installed,
         ~(plan[1].step = "control" /\ plan[1].cmd = "Start") =>
           \A t \in installed' : Quiet(t) => Quiet(t)',
         \A t \in installed' :
           plan[1] = Control(t, "Stop") => Quiet(t)' \/ control'[t] = "stopping",
         plan[1].step # "control" =>
           \A t \in Transports : control'[t] \notin {"starting", "stopping"}
  PROVE  StopsAll'
  <1> DEFINE q == Tail(plan)
  <1>1. /\ 1 \in 1..Len(plan) /\ Len(plan) \in Nat
        /\ Len(q) = Len(plan) - 1
        /\ \A i \in 1..Len(q) : i + 1 \in 1..Len(plan) /\ q[i] = plan[i + 1]
    BY HeadStep DEF PlanInv, PlanOK
  <1>2. /\ installed \subseteq Transports
        /\ \A t \in Transports : control[t] \notin {"starting", "stopping"}
    BY WaitedForAll DEF MachineInv, MachineTypeOK
  <1> HIDE DEF q
  <1> SUFFICES ASSUME NEW i \in 1..Len(q), q[i] = Obeyed("Stopped")
               PROVE
      /\ \A j \in 1..Len(q) : q[j].step = "control" => q[j].cmd = "Stop"
      /\ \/ \A t \in installed' :
              \/ Quiet(t)' \/ control'[t] = "stopping"
              \/ \E j \in 1..i-1 : q[j] = Control(t, "Stop")
         \/ /\ ~obeyed' /\ \A j \in 1..i : q[j].step # "control"
            /\ \A t \in Transports : control'[t] \notin {"starting", "stopping"}
    BY DEF StopsAll, q
  <1>3. i + 1 \in 1..Len(plan) /\ plan[i + 1] = Obeyed("Stopped") /\ i \in Nat
    BY <1>1
  <1>4. /\ \A j \in 1..Len(plan) : plan[j].step = "control" => plan[j].cmd = "Stop"
        /\ \/ \A t \in installed :
                \/ Quiet(t) \/ control[t] = "stopping"
                \/ \E j \in 1..(i + 1)-1 : plan[j] = Control(t, "Stop")
           \/ /\ ~obeyed /\ \A j \in 1..i + 1 : plan[j].step # "control"
              /\ \A t \in Transports : control[t] \notin {"starting", "stopping"}
    BY <1>3 DEF StatusInv, StopsAll
  <1>5. \A j \in 1..Len(q) : q[j].step = "control" => q[j].cmd = "Stop"
    BY <1>1, <1>4
  <1>6. CASE \A t \in installed :
               \/ Quiet(t) \/ control[t] = "stopping"
               \/ \E j \in 1..(i + 1)-1 : plan[j] = Control(t, "Stop")
    <2>1. ASSUME NEW t \in installed'
          PROVE  \/ Quiet(t)' \/ control'[t] = "stopping"
                 \/ \E j \in 1..i-1 : q[j] = Control(t, "Stop")
      <3>1. t \in Transports /\ t \in installed
        BY <1>2
      <3>2. CASE Quiet(t)
        BY <1>1, <1>4, <3>2
      <3>3. CASE ~Quiet(t)
        <4>1. PICK j \in 1..i : plan[j] = Control(t, "Stop")
          BY <1>2, <1>3, <1>6, <3>1, <3>3
        <4>2. CASE j = 1
          BY <4>1, <4>2
        <4>3. CASE j # 1
          <5>1. j - 1 \in 1..i-1 /\ j - 1 \in 1..Len(q) /\ (j - 1) + 1 = j
            BY <1>1, <1>3, <4>3
          <5>2. q[j - 1] = Control(t, "Stop")
            BY <1>1, <4>1, <5>1
          <5>3. QED
            BY <5>1, <5>2
        <4>4. QED
          BY <4>2, <4>3
      <3>4. QED
        BY <3>2, <3>3
    <2>2. QED
      BY <1>5, <2>1
  <1>7. CASE /\ ~obeyed /\ \A j \in 1..i + 1 : plan[j].step # "control"
             /\ \A t \in Transports : control[t] \notin {"starting", "stopping"}
    <2>1. plan[1].step # "control"
      BY <1>3, <1>7
    <2>2. \A j \in 1..i : j \in 1..Len(q) /\ j + 1 \in 1..i + 1
      BY <1>1, <1>3
    <2>3. \A j \in 1..i : q[j].step # "control"
      BY <1>1, <1>7, <2>2
    <2>4. QED
      BY <1>5, <1>7, <2>1, <2>3
  <1>8. QED
    BY <1>4, <1>6, <1>7

\* A step of the owner that is not the one that sets the status.
LEMMA TailStatus ==
  ASSUME MachineInv, PlanInv, StatusInv, Waited, plan # <<>>, plan' = Tail(plan),
         obeyed' = obeyed, installed' \subseteq installed, contentState' = contentState,
         plan[1].step # "obeyed",
         ~(plan[1].step = "control" /\ plan[1].cmd = "Start") =>
           \A t \in installed' : Quiet(t) => Quiet(t)',
         \A t \in installed' :
           plan[1] = Control(t, "Stop") => Quiet(t)' \/ control'[t] = "stopping",
         plan[1].step # "control" =>
           \A t \in Transports : control'[t] \notin {"starting", "stopping"},
         \/ \A t \in installed' : Quiet(t) => Quiet(t)'
         \/ \E t \in Transports : control'[t] = "starting"
  PROVE  StatusInv'
  <1>1. /\ 1 \in 1..Len(plan) /\ Len(plan) \in Nat
        /\ Len(plan') = Len(plan) - 1
        /\ \A i \in 1..Len(plan') : i + 1 \in 1..Len(plan) /\ plan'[i] = plan[i + 1]
    BY HeadStep DEF PlanInv, PlanOK
  <1>2. StopsAll'
    BY TailStops
  <1>3. Started(plan) => Started(plan')
    BY TailStarted
  <1>4. \A i \in 1..Len(plan') :
          /\ plan'[i].step = "obeyed" => plan'[i].cmd \in {"Started", "Stopped"}
          /\ plan'[i].step = "control" /\ plan'[i].cmd = "Start" =>
               contentState' = "Started" \/ Started(plan')
    BY <1>1, <1>3 DEF StatusInv
  <1>5. \A t \in Transports : control[t] # "starting"
    BY WaitedForAll
  <1>6. StoppedQuiet'
    <2> SUFFICES ASSUME contentState = "Stopped"
                 PROVE  \/ \A t \in installed' : Quiet(t)'
                        \/ /\ Started(plan')
                           /\ obeyed' \/ \E t \in Transports : control'[t] = "starting"
      BY DEF StoppedQuiet, Started
    <2>1. CASE Started(plan) /\ obeyed
      BY <1>3, <2>1
    <2>2. CASE \A t \in installed : Quiet(t)
      <3>1. CASE \A t \in installed' : Quiet(t) => Quiet(t)'
        BY <2>2, <3>1
      <3>2. CASE ~\A t \in installed' : Quiet(t) => Quiet(t)'
        <4>1. plan[1].step = "control" /\ plan[1].cmd = "Start"
          BY <3>2
        <4>2. Started(plan)
          BY <1>1, <4>1 DEF StatusInv
        <4>3. QED
          BY <1>3, <3>2, <4>2
      <3>3. QED
        BY <3>1, <3>2
    <2>3. QED
      BY <1>5, <2>1, <2>2 DEF StatusInv, StoppedQuiet
  <1>7. contentState' # "NoState" /\ (contentState' = "Shutdown" => installed' = {})
    BY DEF StatusInv
  <1>8. QED
    BY <1>2, <1>4, <1>6, <1>7 DEF StatusInv, Started

LEMMA CommandStatus ==
  ASSUME MachineInv, PlanInv, StatusInv, OwnerControls
  PROVE  StatusInv'
  <1>1. /\ Waited /\ plan # <<>> /\ plan' = Tail(plan) /\ plan[1].step = "control"
        /\ UNCHANGED <<obeyed, installed, contentState, listenerAt>>
        /\ ControlBegins(plan[1].t, plan[1].cmd)
    BY HeadStep DEF OwnerControls, Next1, serverVars
  <1>2. plan[1].t \in installed /\ plan[1].cmd \in {"Start", "Stop"}
    BY <1>1, HeadStep DEF PlanInv, PlanOK
  <1>3. PICK t \in installed, cmd \in {"Start", "Stop"} : t = plan[1].t /\ cmd = plan[1].cmd
    BY <1>2
  <1>4. t \in Transports /\ Obeys(t) /\ MachineTypeOK /\ installed \subseteq Transports
    BY DEF MachineInv, MachineTypeOK
  <1>5. control[t] = "none"
    BY <1>1, WaitedForAll
  <1>6. ControlBegins(t, cmd)
    BY <1>1, <1>3
  <1>7. \A u \in installed : plan[1] = Control(u, "Stop") => u = t /\ cmd = "Stop"
    BY <1>3 DEF Control
  <1>8. CASE NoControl /\ (cmd = "Stop" => tState[t] # "Started")
    <2>1. \A u \in installed : Quiet(u) => Quiet(u)'
      BY <1>1, <1>8 DEF NoControl, Quiet, Serving
    <2>2. cmd = "Stop" => Quiet(t)
      BY <1>4, <1>5, <1>8 DEF Quiet, Obeys, Uncontrolled, Rests, Failed, Serving
    <2>3. QED
      BY <1>1, <1>7, <2>1, <2>2, TailStatus
  <1>9. CASE cmd = "Start" /\ ControlStarts(t)
    <2>1. control'[t] = "starting"
      BY <1>4, <1>9 DEF ControlStarts, MachineTypeOK
    <2>2. QED
      BY <1>1, <1>3, <1>4, <1>7, <1>9, <2>1, TailStatus
  <1>10. CASE cmd = "Stop" /\ tState[t] = "Started" /\ ControlStops(t, "stopping")
    <2>1. control'[t] = "stopping"
      BY <1>4, <1>10 DEF ControlStops, MachineTypeOK
    <2>2. \A u \in installed : Quiet(u) => Quiet(u)'
      BY <1>1, <1>4, <1>10 DEF ControlStops, SetTransport, MachineTypeOK, Quiet, Serving
    <2>3. QED
      BY <1>1, <1>7, <2>1, <2>2, TailStatus
  <1>11. QED
    BY <1>4, <1>6, <1>8, <1>9, <1>10, ControlCases DEF Commandable

LEMMA DropStatus ==
  ASSUME MachineInv, PlanInv, StatusInv, OwnerDrops
  PROVE  StatusInv'
  <1>1. /\ Waited /\ plan # <<>> /\ plan' = Tail(plan) /\ plan[1].step = "drop"
        /\ UNCHANGED <<obeyed, contentState, listenerAt>>
        /\ installed' = installed \ {plan[1].t}
        /\ IF Held(plan[1].t) THEN NoControl ELSE Destroys(plan[1].t)
    BY HeadStep DEF OwnerDrops, Next1
  <1>2. plan[1].t \in installed
    BY <1>1, HeadStep DEF PlanInv, PlanOK
  <1>3. PICK t \in installed : t = plan[1].t
    BY <1>2
  <1>4. t \in Transports /\ Owned(t) /\ MachineTypeOK /\ installed \subseteq Transports
    BY DEF MachineInv, MachineTypeOK
  <1>5. /\ control[t] = "none"
        /\ \A u \in Transports : control[u] \notin {"starting", "stopping"}
    BY <1>1, WaitedForAll
  <1>6. /\ \A u \in Transports : u # t => tState'[u] = tState[u] /\ control'[u] = control[u]
        /\ control'[t] \in {"none", "halting", "shutting"}
    <2>1. CASE NoControl
      BY <1>5, <2>1 DEF NoControl
    <2>2. CASE Destroys(t)
      <3>1. /\ \A u \in Transports : u # t => SameOf(u)
            /\ control'[t] \in {"none", "halting", "shutting"}
        BY <1>1, <1>4, <1>5, <2>2, DestroyBegun DEF Owned
      <3>2. QED
        BY <3>1 DEF SameOf
    <2>3. QED
      BY <1>1, <1>3, <2>1, <2>2
  <1>7. /\ \A u \in installed' : Quiet(u) => Quiet(u)'
        /\ \A u \in Transports : control'[u] \notin {"starting", "stopping"}
        /\ \A u \in installed' : plan[1] # Control(u, "Stop")
        /\ installed' \subseteq installed
    BY <1>1, <1>3, <1>4, <1>5, <1>6 DEF Quiet, Serving, Control
  <1>8. QED
    BY <1>1, <1>7, TailStatus

LEMMA ObeyedStatus ==
  ASSUME MachineInv, PlanInv, StatusInv, OwnerObeyed
  PROVE  StatusInv'
  <1>1. /\ Waited /\ plan # <<>> /\ plan' = Tail(plan) /\ plan[1].step = "obeyed"
        /\ UNCHANGED <<obeyed, installed, tState, listenerAt, control, userAt>>
        /\ contentState' = IF obeyed THEN plan[1].cmd ELSE contentState
    BY HeadStep DEF OwnerObeyed, Next1, workVars
  <1>2. /\ 1 \in 1..Len(plan) /\ Len(plan) \in Nat
        /\ Len(plan') = Len(plan) - 1
        /\ \A i \in 1..Len(plan') : i + 1 \in 1..Len(plan) /\ plan'[i] = plan[i + 1]
    BY <1>1, HeadStep DEF PlanInv, PlanOK
  <1>3. plan[1].cmd \in {"Started", "Stopped"}
    BY <1>1, <1>2 DEF StatusInv
  <1>4. plan[1] \in PlanSteps /\ plan[1].t = NoTransport
    BY <1>1, <1>2, HeadStep DEF PlanInv, PlanOK
  <1>5. plan[1] = Obeyed(plan[1].cmd)
    BY <1>1, <1>4 DEF PlanSteps, Obeyed, Step
  <1>6. \A t \in Transports : control[t] \notin {"starting", "stopping"}
    BY <1>1, WaitedForAll
  <1>7. installed \subseteq Transports
    BY DEF MachineInv, MachineTypeOK
  <1>8. StopsAll'
    <2>1. \A t \in installed' : Quiet(t) => Quiet(t)'
      BY <1>1 DEF Quiet, Serving
    <2>2. \A t \in installed' : plan[1] # Control(t, "Stop")
      BY <1>1 DEF Control
    <2>3. QED
      BY <1>1, <1>6, <2>1, <2>2, TailStops
  <1>9. plan[1].cmd = "Stopped" =>
          /\ \A j \in 1..Len(plan) : plan[j].step = "control" => plan[j].cmd = "Stop"
          /\ (\A t \in installed : Quiet(t)) \/ ~obeyed
    <2> SUFFICES ASSUME plan[1].cmd = "Stopped"
                 PROVE
          /\ \A j \in 1..Len(plan) : plan[j].step = "control" => plan[j].cmd = "Stop"
          /\ (\A t \in installed : Quiet(t)) \/ ~obeyed
      OBVIOUS
    <2>1. plan[1] = Obeyed("Stopped")
      BY <1>5
    <2>2. /\ \A j \in 1..Len(plan) : plan[j].step = "control" => plan[j].cmd = "Stop"
          /\ \/ \A t \in installed :
                  \/ Quiet(t) \/ control[t] = "stopping"
                  \/ \E j \in 1..1-1 : plan[j] = Control(t, "Stop")
             \/ ~obeyed
      BY <1>2, <2>1 DEF StatusInv, StopsAll
    <2>3. QED
      BY <1>6, <1>7, <2>2
  <1>10. \A i \in 1..Len(plan') :
           /\ plan'[i].step = "obeyed" => plan'[i].cmd \in {"Started", "Stopped"}
           /\ plan'[i].step = "control" /\ plan'[i].cmd = "Start" =>
                contentState' = "Started" \/ Started(plan')
    <2> SUFFICES ASSUME NEW i \in 1..Len(plan')
                 PROVE
           /\ plan'[i].step = "obeyed" => plan'[i].cmd \in {"Started", "Stopped"}
           /\ plan'[i].step = "control" /\ plan'[i].cmd = "Start" =>
                contentState' = "Started" \/ Started(plan')
      OBVIOUS
    <2>1. i + 1 \in 1..Len(plan) /\ plan'[i] = plan[i + 1] /\ Len(plan) # 1
      BY <1>2
    <2>2. Started(plan) => Started(plan')
      BY <1>1, <2>1, TailStarted
    <2>3. /\ plan[i + 1].step = "obeyed" => plan[i + 1].cmd \in {"Started", "Stopped"}
          /\ plan[i + 1].step = "control" /\ plan[i + 1].cmd = "Start" =>
               contentState = "Started" \/ Started(plan)
      BY <2>1 DEF StatusInv
    <2>4. QED
      BY <1>1, <1>3, <1>9, <2>1, <2>2, <2>3
  <1>11. contentState # "NoState"
    BY <1>1 DEF StatusInv
  <1>12. StoppedQuiet'
    <2> SUFFICES ASSUME contentState' = "Stopped"
                 PROVE  \A t \in installed' : Quiet(t)'
      BY DEF StoppedQuiet
    <2>1. \A t \in installed : Quiet(t)
      BY <1>1, <1>3, <1>6, <1>9 DEF StatusInv, StoppedQuiet
    <2>2. QED
      BY <1>1, <2>1 DEF Quiet, Serving
  <1>13. QED
    BY <1>1, <1>3, <1>8, <1>10, <1>11, <1>12 DEF StatusInv, Started

LEMMA SetStatus ==
  ASSUME MachineInv, PlanInv, StatusInv, OwnerSets
  PROVE  StatusInv'
  <1>1. /\ plan # <<>> /\ plan' = Tail(plan) /\ plan[1].step = "set"
        /\ UNCHANGED <<obeyed, installed>>
        /\ contentState' = plan[1].cmd
    BY HeadStep DEF OwnerSets, Next1
  <1>2. /\ 1 \in 1..Len(plan) /\ Len(plan) \in Nat /\ Len(plan') = Len(plan) - 1
    BY <1>1, HeadStep DEF PlanInv, PlanOK
  <1>3. /\ 1 = Len(plan) /\ plan[1].cmd = "Shutdown"
        /\ \A t \in installed : \E j \in 1..1-1 : plan[j] = Drop(t)
    BY <1>1, <1>2 DEF PlanInv, PlanOK
  <1>4. installed = {}
    BY <1>3
  <1>5. plan' = <<>> /\ Len(plan') = 0
    BY <1>1, <1>2, <1>3, HeadStep
  <1>6. \A i : i \notin 1..Len(plan')
    BY <1>5
  <1>7. StoppedQuiet' /\ StopsAll'
    BY <1>1, <1>3, <1>6 DEF StoppedQuiet, StopsAll
  <1>8. QED
    BY <1>1, <1>3, <1>4, <1>6, <1>7 DEF StatusInv

LEMMA StatusStep ==
  ASSUME MachineInv, PlanInv, StatusInv, [ContentNext]_contentVars
  PROVE  StatusInv'
  <1>1. CASE ServerCall
    BY <1>1, CallStatus
  <1>2. CASE \E t \in Transports : ControlStep(t) \/ ListenerStep(t)
    BY <1>2, ControlStatus, ListenerStatus
  <1>3. CASE \/ UNCHANGED contentVars
             \/ \E t \in Transports : \E r \in ContentPosts : ClientConnects(t, r)
    <2>1. UNCHANGED <<plan, installed, contentState, obeyed, userAt, listenerAt, tState,
                      control>>
      BY <1>3 DEF ClientConnects, contentVars, serverVars, ownerVars, workVars
    <2>2. \A t \in installed : Quiet(t) => Quiet(t)'
      BY <2>1 DEF Quiet, Serving
    <2>3. QED
      BY <2>1, <2>2, StatusKept
  <1>4. CASE WorkStep \/ SendStep
    BY <1>4, UserStatus
  <1>5. CASE OwnerDowns \/ OwnerLocks \/ OwnerUnlocks
    <2>1. /\ Waited /\ plan # <<>> /\ plan' = Tail(plan)
          /\ plan[1].step \in {"down", "lock", "unlock"}
          /\ UNCHANGED <<obeyed, installed, contentState, tState, listenerAt, control>>
      BY <1>5, HeadStep DEF OwnerDowns, OwnerLocks, OwnerUnlocks, Next1
    <2>2. /\ \A t \in installed' : Quiet(t) => Quiet(t)'
          /\ \A t \in installed' : plan[1] # Control(t, "Stop")
          /\ \A t \in Transports : control'[t] \notin {"starting", "stopping"}
      BY <2>1, WaitedForAll DEF Quiet, Serving, Control
    <2>3. QED
      BY <2>1, <2>2, TailStatus
  <1>6. CASE OwnerControls \/ OwnerDrops \/ OwnerObeyed \/ OwnerSets
    BY <1>6, CommandStatus, DropStatus, ObeyedStatus, SetStatus
  <1>7. QED
    BY <1>1, <1>2, <1>3, <1>4, <1>5, <1>6 DEF ContentNext, ServerCall, OwnerStep

-----------------------------------------------------------------------------
(* The posts *)

\* Who begins to control a transport is in control of it.
LEMMA InControl ==
  ASSUME MachineInv, NEW t \in Transports,
         \/ NoControl
         \/ Destroys(t)
         \/ \E cmd \in {"Start", "Stop"} : ControlBegins(t, cmd)
  PROVE  \A u \in Transports : Done(u)' => Done(u)
  <1>1. MachineTypeOK
    BY DEF MachineInv
  <1>2. CASE NoControl
    BY <1>2 DEF NoControl, Done
  <1>3. ASSUME NEW cmd \in {"Start", "Stop", "Shutdown"}, ControlBegins(t, cmd)
        PROVE  \A u \in Transports : Done(u)' => Done(u)
    <2>1. \/ NoControl \/ ControlStarts(t) \/ ControlShuts(t)
          \/ ControlStops(t, "stopping") \/ ControlStops(t, "halting")
      BY <1>3, ControlCases
    <2>2. CASE NoControl
      BY <2>2, <1>2
    <2>3. CASE ControlStarts(t)
      BY <1>1, <2>3 DEF ControlStarts, MachineTypeOK, Done
    <2>4. CASE ControlShuts(t)
      BY <1>1, <2>4 DEF ControlShuts, MachineTypeOK, Done
    <2>5. CASE ControlStops(t, "stopping") \/ ControlStops(t, "halting")
      BY <1>1, <2>5 DEF ControlStops, MachineTypeOK, Done
    <2>6. QED
      BY <2>1, <2>2, <2>3, <2>4, <2>5
  <1>4. CASE Destroys(t)
    BY <1>2, <1>3, <1>4 DEF Destroys
  <1>5. QED
    BY <1>2, <1>3, <1>4

LEMMA PostKept ==
  ASSUME PostInv, UNCHANGED <<pending, post, postOf, replies, serving>>,
         \A t \in Transports : Reads(t)' => Reads(t),
         \A t \in Transports : Done(t)' => Done(t)
  PROVE  PostInv'
  BY DEF PostInv

LEMMA ListenerPost ==
  ASSUME MachineInv, PostInv, NEW t \in Transports, ListenerStep(t)
  PROVE  PostInv'
  <1> USE DEF ListenerGoes, connectionVars
  <1>1. Obeys(t) /\ MachineTypeOK
    BY DEF MachineInv
  <1>2. UNCHANGED <<tDown, control, postOf>> /\ \A u \in Transports : Done(u)' <=> Done(u)
    BY DEF ListenerStep, ListenerStopped, ListenerTriggered, ListenFails, ListenerAccepts,
       ListenerReads, ListenerRefuses, ListenerAdds, ListenerCloses, QueueMessage,
       ListenerLeaves, Done
  <1>3. CASE \/ ListenerStopped(t) \/ ListenerTriggered(t) \/ ListenFails(t)
             \/ ListenerReads(t) \/ ListenerLeaves(t)
    <2>1. /\ UNCHANGED <<pending, post, replies, serving>>
          /\ \A u \in Transports : Reads(u)' => Reads(u)
      BY <1>1, <1>3 DEF ListenerStopped, ListenerTriggered, ListenFails, ListenerReads,
         ListenerLeaves, MachineTypeOK, Reads
    <2>2. QED
      BY <1>2, <2>1, PostKept
  <1>4. ASSUME NEW r \in ContentPosts, ListenerAccepts(t, r) PROVE PostInv'
    <2>1. /\ post[r] = "connected" /\ postOf[r] = t /\ replies[r] = 0
          /\ \A u \in Transports : r \notin pending[u]
          /\ \A u \in Transports : Reads(u) => r \notin serving[u]
          /\ pending' = pending
      BY <1>4 DEF ListenerAccepts, PostInv
    <2>2. /\ post' = [post EXCEPT ![r] = "accepted"]
          /\ serving' = [serving EXCEPT ![t] = {r}]
          /\ replies' = replies
          /\ \A u \in Transports : u # t => (Reads(u)' <=> Reads(u))
      BY <1>1, <1>4 DEF ListenerAccepts, MachineTypeOK, Reads
    <2>3. QED
      BY <1>1, <1>2, <2>1, <2>2 DEF PostInv
  <1>5. CASE ListenerRefuses(t)
    <2>1. /\ Reads(t) /\ ~Reads(t)'
          /\ \A u \in Transports : u # t => (Reads(u)' <=> Reads(u))
          /\ post' = [r \in ContentPosts |->
                        IF r \in serving[t] THEN "closed" ELSE post[r]]
          /\ serving' = [serving EXCEPT ![t] = {}]
          /\ pending' = pending
      BY <1>1, <1>5 DEF ListenerRefuses, MachineTypeOK, Reads
    <2>2. \A r \in serving[t] : replies[r] = 0 /\ post[r] = "accepted" /\ postOf[r] = t
      BY <2>1 DEF PostInv
    <2>3. PICK told \in {{}, serving[t]} :
            replies' = [r \in ContentPosts |-> replies[r] + IF r \in told THEN 1 ELSE 0]
      BY <1>5 DEF ListenerRefuses
    <2>4. /\ replies' \in [ContentPosts -> 0..1]
          /\ \A r \in ContentPosts : r \notin serving[t] => replies'[r] = replies[r]
      BY <2>2, <2>3 DEF PostInv
    <2>5. \A u \in Transports : \A r \in pending[u] : r \notin serving[t]
      BY <2>1, <2>2 DEF PostInv
    <2>6. \A u \in Transports : u # t /\ Reads(u) =>
            \A r \in serving[u] : r \notin serving[t]
      BY <2>2 DEF PostInv
    <2>7. QED
      BY <1>2, <2>1, <2>4, <2>5, <2>6 DEF PostInv
  <1>6. CASE ListenerAdds(t)
    <2>1. /\ Reads(t) /\ ~Reads(t)'
          /\ \A u \in Transports : u # t => (Reads(u)' <=> Reads(u))
          /\ pending' = [pending EXCEPT ![t] = @ \cup serving[t]]
          /\ UNCHANGED <<post, replies, serving>>
      BY <1>1, <1>6 DEF ListenerAdds, MachineTypeOK, Reads
    <2>2. ~Done(t)
      BY <1>1, <2>1 DEF Obeys, Reads, Done
    <2>3. QED
      BY <1>2, <2>1, <2>2 DEF PostInv
  <1>7. CASE ListenerCloses(t)
    <2>1. /\ \A u \in Transports : Reads(u)' => Reads(u)
          /\ post' = [r \in ContentPosts |->
                        IF postOf[r] = t /\ post[r] = "connected" THEN "closed" ELSE post[r]]
          /\ UNCHANGED <<pending, replies, serving>>
      BY <1>1, <1>7 DEF ListenerCloses, MachineTypeOK, Reads
    <2>2. QED
      BY <1>2, <2>1 DEF PostInv
  <1>8. CASE QueueMessage(t)
    <2>1. /\ \A u \in Transports : Reads(u)' => Reads(u)
          /\ serving' = [serving EXCEPT ![t] = {}]
          /\ UNCHANGED <<pending, post, replies>>
      BY <1>1, <1>8 DEF QueueMessage, MachineTypeOK, Reads
    <2>2. QED
      BY <1>2, <2>1 DEF PostInv
  <1>9. QED
    BY <1>3, <1>4, <1>5, <1>6, <1>7, <1>8 DEF ListenerStep

LEMMA ControlPost ==
  ASSUME MachineInv, PostInv, NEW t \in Transports, ControlStep(t)
  PROVE  PostInv'
  <1> USE DEF connectionVars
  <1>1. Obeys(t) /\ MachineTypeOK
    BY DEF MachineInv
  <1>2. CASE ControlDone(t)
    <2>1. ~tDown[t]
      BY <1>1, <1>2 DEF ControlDone, Obeys
    <2>2. /\ UNCHANGED <<pending, post, postOf, replies, serving, listenerAt, tDown>>
          /\ \A u \in Transports : u # t => control'[u] = control[u]
      BY <1>1, <1>2 DEF ControlDone, MachineTypeOK
    <2>3. QED
      BY <2>1, <2>2, PostKept DEF Reads, Done
  <1>3. CASE ControlHalted(t)
    <2>1. /\ UNCHANGED <<pending, post, postOf, replies, serving, listenerAt>>
          /\ \A u \in Transports : Done(u)' => Done(u)
      BY <1>1, <1>3 DEF ControlHalted, ControlShuts, MachineTypeOK, Done
    <2>2. QED
      BY <2>1, PostKept DEF Reads
  <1>4. CASE ControlDown(t)
    <2>1. /\ ~Reads(t) /\ UNCHANGED <<listenerAt, tDown, postOf, serving>>
          /\ \A u \in Transports : u # t => control'[u] = control[u]
      BY <1>1, <1>4 DEF ControlDown, Obeys, ShuttingDown, Rests, MachineTypeOK, Reads
    <2>2. /\ pending' = [pending EXCEPT ![t] = {}]
          /\ post' = [r \in ContentPosts |-> IF r \in pending[t] THEN "closed" ELSE post[r]]
          /\ replies' = [r \in ContentPosts |->
                           replies[r] + IF r \in pending[t] THEN 1 ELSE 0]
      BY <1>4 DEF ControlDown, AbortAllPosts
    <2>3. /\ replies' \in [ContentPosts -> 0..1]
          /\ \A r \in ContentPosts : r \notin pending[t] =>
               post'[r] = post[r] /\ replies'[r] = replies[r]
          /\ \A r \in pending[t] : post'[r] = "closed" /\ postOf[r] = t
      BY <2>2 DEF PostInv
    <2>4. /\ pending'[t] = {}
          /\ \A u \in Transports : u # t => pending'[u] = pending[u]
      BY <2>2 DEF PostInv
    <2>5. /\ pending' \in [Transports -> SUBSET ContentPosts]
          /\ post' \in [ContentPosts -> {"none", "connected", "accepted", "closed"}]
      BY <2>2 DEF PostInv
    <2>6. \A r \in ContentPosts : post'[r] \in {"none", "connected"} => replies'[r] = 0
      BY <2>3 DEF PostInv
    <2>7. \A u \in Transports : \A r \in pending'[u] :
            post'[r] = "accepted" /\ replies'[r] = 0 /\ postOf'[r] = u
      <3> SUFFICES ASSUME NEW u \in Transports, NEW r \in pending'[u]
                   PROVE  post'[r] = "accepted" /\ replies'[r] = 0 /\ postOf'[r] = u
        OBVIOUS
      <3>1. u # t /\ r \in pending[u] /\ r \in ContentPosts
        BY <2>4, <2>5
      <3>2. post[r] = "accepted" /\ replies[r] = 0 /\ postOf[r] = u
        BY <3>1 DEF PostInv
      <3>3. r \notin pending[t]
        BY <2>3, <3>1, <3>2
      <3>4. QED
        BY <2>1, <2>3, <3>1, <3>2, <3>3
    <2>8. \A u \in Transports : Reads(u)' => \A r \in serving'[u] :
            post'[r] = "accepted" /\ replies'[r] = 0 /\ postOf'[r] = u /\ r \notin pending'[u]
      <3> SUFFICES ASSUME NEW u \in Transports, Reads(u), NEW r \in serving[u]
                   PROVE  /\ post'[r] = "accepted" /\ replies'[r] = 0 /\ postOf[r] = u
                          /\ r \notin pending'[u]
        BY <2>1 DEF Reads
      <3>1. /\ r \in ContentPosts /\ u # t
            /\ post[r] = "accepted" /\ replies[r] = 0 /\ postOf[r] = u /\ r \notin pending[u]
        BY <2>1 DEF PostInv
      <3>2. r \notin pending[t]
        BY <2>3, <3>1
      <3>3. QED
        BY <2>3, <2>4, <3>1, <3>2
    <2>9. \A u \in Transports : Done(u)' => pending'[u] = {}
      BY <2>1, <2>4 DEF PostInv, Done
    <2>10. QED
      BY <2>1, <2>3, <2>5, <2>6, <2>7, <2>8, <2>9 DEF PostInv
  <1>5. CASE ControlAborts(t)
    <2>1. /\ control[t] = "aborting"
          /\ UNCHANGED <<pending, post, postOf, replies, serving, listenerAt, tDown>>
          /\ \A u \in Transports : u # t => control'[u] = control[u]
      BY <1>1, <1>5 DEF ControlAborts, MachineTypeOK
    <2>2. QED
      BY <2>1, PostKept DEF Reads, Done
  <1>6. QED
    BY <1>2, <1>3, <1>4, <1>5 DEF ControlStep

LEMMA PostStep ==
  ASSUME MachineInv, PlanInv, PostInv, [ContentNext]_contentVars
  PROVE  PostInv'
  <1> USE DEF connectionVars
  <1>1. CASE ServerCall \/ OwnerObeyed \/ OwnerSets \/ OwnerDowns \/ OwnerLocks
               \/ OwnerUnlocks \/ UNCHANGED contentVars
    <2>1. /\ UNCHANGED <<pending, post, postOf, replies, serving, tDown, control>>
          /\ \A t \in Transports : Reads(t)' => Reads(t)
      <3> USE DEF Reads
      <3>1. CASE InitServer
        BY <3>1 DEF InitServer
      <3>2. CASE \E t \in Transports : AddTransport(t)
        BY <3>2 DEF AddTransport, MachineInv, MachineTypeOK
      <3>3. CASE \/ StartServer \/ StopServer \/ ShutdownServer
                 \/ \E t \in Transports : RemoveTransport(t)
        BY <3>3 DEF StartServer, StopServer, ShutdownServer, RemoveTransport
      <3>4. CASE OwnerObeyed \/ OwnerSets \/ OwnerDowns \/ OwnerLocks
                   \/ OwnerUnlocks \/ UNCHANGED contentVars
        BY <3>4 DEF OwnerObeyed, OwnerSets, OwnerDowns, OwnerLocks, OwnerUnlocks,
           contentVars
      <3>5. QED
        BY <1>1, <3>1, <3>2, <3>3, <3>4 DEF ServerCall
    <2>2. QED
      BY <2>1, PostKept DEF Done
  <1>2. CASE \E t \in Transports : ControlStep(t) \/ ListenerStep(t)
    BY <1>2, ControlPost, ListenerPost
  <1>3. ASSUME NEW t \in Transports, NEW r \in ContentPosts, ClientConnects(t, r)
        PROVE  PostInv'
    <2>1. /\ post[r] = "none" /\ replies[r] = 0
          /\ \A u \in Transports : r \notin pending[u]
          /\ \A u \in Transports : Reads(u) => r \notin serving[u]
      BY <1>3 DEF ClientConnects, PostInv
    <2>2. QED
      BY <1>3, <2>1 DEF ClientConnects, PostInv, Reads, Done
  <1>4. CASE OwnerControls \/ OwnerDrops
    <2>1. /\ plan # <<>> /\ plan[1].step \in {"control", "drop"} /\ plan[1].t = Head(plan).t
          /\ plan[1].step = "control" => plan[1].cmd \in {"Start", "Stop"}
          /\ plan[1].t \in installed
      BY <1>4, HeadStep DEF OwnerControls, OwnerDrops, Next1, PlanInv, PlanOK
    <2>2. PICK t \in Transports : t = Head(plan).t
      BY <2>1 DEF MachineInv, MachineTypeOK
    <2>3. /\ \/ NoControl
             \/ Destroys(t)
             \/ \E cmd \in {"Start", "Stop"} : ControlBegins(t, cmd)
          /\ UNCHANGED <<pending, post, postOf, replies, serving, listenerAt>>
      BY <1>4, <2>1, <2>2, HeadStep DEF OwnerControls, OwnerDrops, Next1
    <2>4. QED
      BY <2>3, InControl, PostKept DEF Reads
  <1>5. CASE WorkStep \/ SendStep
    <2>1. UNCHANGED <<pending, post, postOf, replies, serving, listenerAt>>
      BY <1>5 DEF WorkStep, SendStep, DoWork, SenderCalls, LetsGo, UserDestroyed,
         WorkerLeaves
    <2>2. \A t \in Transports : Done(t)' => Done(t)
      <3>1. CASE UNCHANGED <<tDown, control>>
        BY <3>1 DEF Done
      <3>2. CASE \E v \in Users : LetsGo(v)
        <4>1. PICK v \in Users : LetsGo(v)
          BY <3>2
        <4>2. PICK t \in Transports : t = userHolds[v]
          BY <4>1 DEF LetsGo, UserGoes, MachineInv, UsersKnow, MachineTypeOK
        <4>3. NoControl \/ Destroys(t)
          BY <4>1, <4>2 DEF LetsGo
        <4>4. QED
          BY <4>3, InControl
      <3>3. QED
        BY <1>5, <3>1, <3>2 DEF WorkStep, SendStep, DoWork, SenderCalls, UserDestroyed,
           WorkerLeaves, Users
    <2>3. QED
      BY <2>1, <2>2, PostKept DEF Reads
  <1>6. QED
    BY <1>1, <1>2, <1>3, <1>4, <1>5 DEF ContentNext, ServerCall, OwnerStep

LEMMA ContentInvInit == ContentInit => ContentInv
  <1> SUFFICES ASSUME ContentInit PROVE ContentInv
    OBVIOUS
  <1>1. MachineInv
    BY MachineInvInit
  <1>2. plan = <<>> /\ Len(plan) = 0 /\ \A i : i \notin 1..Len(plan)
    BY DEF ContentInit
  <1>3. PlanInv
    BY <1>2 DEF PlanInv, PlanOK
  <1>4. StatusInv
    BY <1>2 DEF ContentInit, StatusInv, StoppedQuiet, StopsAll
  <1>5. PostInv
    BY DEF ContentInit, PostInv, Reads, Done
  <1>6. QED
    BY <1>1, <1>3, <1>4, <1>5 DEF ContentInv

LEMMA ContentInvSafe == ContentInv => ContentSafe
  <1> SUFFICES ASSUME ContentInv PROVE ContentSafe
    OBVIOUS
  <1> USE DEF ContentInv
  <1>1. StoppedTransports
    <2> SUFFICES ASSUME contentState \in {"Stopped", "Shutdown"}, plan = <<>>,
                        NEW t \in installed
                 PROVE  tState[t] # "Started" /\ ~Serving(t)
      BY DEF StoppedTransports
    <2>1. contentState = "Stopped" => Quiet(t)
      BY DEF StatusInv, StoppedQuiet, Started
    <2>2. QED
      BY <2>1 DEF StatusInv, Quiet
  <1>2. \A t \in Transports : Destroyed(t) => Failed(t)
    BY DEF MachineInv, Owned, Destroyed, Held, Uses
  <1>3. ListenerHasObject
    <2>1. \A t \in Transports : control[t] = "aborting" => ~\E u \in Users : Sends(u, t)
      BY DEF MachineInv, Owned, Sends, Uses
    <2>2. QED
      BY <1>2, <2>1 DEF ListenerHasObject, Failed
  <1>4. ContentAnsweredOnce
    <2>1. \A r \in ContentPosts : replies[r] <= 1
      BY DEF PostInv
    <2>2. \A t \in Transports : \A r \in pending[t] : post[r] = "accepted" /\ replies[r] = 0
      BY DEF PostInv
    <2>3. \A t \in Transports : Destroyed(t) /\ pending[t] # {} => ~tDown[t]
      BY DEF PostInv, Destroyed, Done
    <2>4. QED
      BY <2>1, <2>2, <2>3 DEF ContentAnsweredOnce
  <1>5. QED
    BY <1>1, <1>3, <1>4 DEF ContentSafe

\* Whichever of its transports the owner adds, removes and commands, and whoever
\* destroys one: a stopped server listens with none of them, a post is answered
\* once, and a listener has its object while it runs.
\* (RpcContentHandlerServer.cpp:145-202, NetSocketServer.cpp:115-126)
THEOREM ContentIsSafe == ContentSpec => []ContentSafe
  <1>1. ContentInv /\ [ContentNext]_contentVars => ContentInv'
    BY MachineStep, PlanStep, StatusStep, PostStep DEF ContentInv
  <1>2. QED
    BY <1>1, ContentInvInit, ContentInvSafe, PTL DEF ContentSpec
=============================================================================
