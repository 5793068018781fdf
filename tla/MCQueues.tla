------------------------------ MODULE MCQueues ------------------------------
(* A ThdQueue, or a ThdDeque, shared by a few threads.  The two classes     *)
(* share nothing: an execution is about one of them, and the other stays    *)
(* empty.                                                                   *)
EXTENDS ThdQueue

CONSTANT TwoThreads  \* the threads of a ThdDeque, or of a priority queue

VARIABLES
  class,
  dqSemValue, dqAbandoned, dqWaiters, dqSemPc, dqWoke, dqSemRes,
  dqQueue, dqDown, dqGuard, dqPc, dqGot, fresh, erased

Deque == INSTANCE ThdDeque WITH
  Threads <- TwoThreads,
  semValue <- dqSemValue, abandoned <- dqAbandoned, waiters <- dqWaiters,
  semPc <- dqSemPc, woke <- dqWoke, semRes <- dqSemRes,
  queue <- dqQueue, down <- dqDown, guard <- dqGuard, pc <- dqPc,
  got <- dqGot

dqVars ==
  <<dqSemValue, dqAbandoned, dqWaiters, dqSemPc, dqWoke, dqSemRes,
    dqQueue, dqDown, dqGuard, dqPc, dqGot, fresh, erased>>

MCInit ==
  /\ class \in {"ThdQueue", "ThdDeque"}
  /\ Init
  /\ Deque!Init
  /\ class = "ThdDeque" => isFifo

MCNext ==
  \/ /\ class = "ThdQueue"
     /\ \E t \in IF isFifo THEN Threads ELSE TwoThreads : ThreadNext(t)
     /\ UNCHANGED <<class, dqVars>>
  \/ class = "ThdDeque" /\ Deque!Next /\ UNCHANGED <<class, vars>>

\* No thread is inside an operation of the object an execution is not about.
MCSpec ==
  /\ MCInit /\ [][MCNext]_<<class, vars, dqVars>>
  /\ \A t \in Threads : ThreadFairness(t)
  /\ \A t \in TwoThreads : Deque!ThreadFairness(t)

\* The properties of ThdDeque, for this deque.
ErasedNeverReceived == Deque!ErasedNeverReceived

\* Nobody waits for ever: down() returns from a ThdQueue, and a remover beside
\* an item of a ThdDeque gets it.
QueuesProgress == DownReturns /\ Deque!WaitingMeetsItem
=============================================================================
