------------------------------ MODULE ThdQueue ------------------------------
(***************************************************************************)
(* ThdQueue<T> (src/h/thd/ThdQueue.h): a std::queue (or, with isFifo =     *)
(* false, a std::priority_queue) under the critical section _guard, and a  *)
(* ThdSemaphore _signal that counts the items for the threads in remove.   *)
(*                                                                         *)
(* The semaphore is ThdSemaphore with all its interleavings.  What insert  *)
(* and remove do between taking and leaving _guard is one step, or two     *)
(* when the semaphore is touched, since nobody else sees the container     *)
(* without the guard.  isDown and size change nothing.                     *)
(***************************************************************************)
EXTENDS ThdSemaphore, Sequences, SequencesExt

CONSTANTS
  Items,       \* the objects inserted; their order is the priority
  NoItem,      \* the value of an object nothing was removed into
  MaxInserts   \* bound: how many items are ever pushed

ASSUME ThdQueueAssumption ==
  /\ Items \subseteq Nat
  /\ NoItem \notin Items
  /\ MaxInserts \in Nat
  /\ MaxInserts <= SemValueMax  \* a queue this long fits the semaphore
  /\ InitialCount = 0           \* _signal.create(semName)

VARIABLES
  isFifo,   \* _isFifo, which the constructor sets for good
  queue,    \* _fifoQ or _priorityQ, oldest item first
  down,     \* _down
  guard,    \* the owner of _guard
  pc,       \* where a thread is in insert, remove or down
  got,      \* the object of the thread's last successful remove
  inserts   \* how many items were pushed (for MaxInserts only)

queueVars == <<isFifo, queue, down, guard, pc, got, inserts>>
vars == <<semVars, queueVars>>

(***************************************************************************)
(* idle       in none of the operations                                    *)
(* inserting  in insert, pushed, holds _guard, _signal not yet incremented *)
(* removing   in remove, inside _signal.decrement                          *)
(* granted    in remove, the decrement succeeded, wants _guard             *)
(* downing    in down, holds _guard                                        *)
(***************************************************************************)
QueuePcs == {"idle", "inserting", "removing", "granted", "downing"}

TypeOK ==
  /\ SemTypeOK
  /\ isFifo \in BOOLEAN
  /\ queue \in Seq(Items)
  /\ down \in BOOLEAN
  /\ guard \in Threads \cup {NoThread}
  /\ pc \in [Threads -> QueuePcs]
  /\ got \in [Threads -> Items \cup {NoItem}]
  /\ inserts \in 0..MaxInserts

Init ==
  /\ SemInit
  /\ isFifo \in BOOLEAN
  /\ queue = <<>>
  /\ down = FALSE
  /\ guard = NoThread
  /\ pc = [t \in Threads |-> "idle"]
  /\ got = [t \in Threads |-> NoItem]
  /\ inserts = 0

Move(t, from, to) ==
  /\ pc[t] = from
  /\ pc' = [pc EXCEPT ![t] = to]

-----------------------------------------------------------------------------
(* insert *)

\* Take the guard and push.  On a queue that is down insert does nothing.
InsertPush(t, x) ==
  /\ guard = NoThread
  /\ ~down
  /\ inserts < MaxInserts
  /\ Move(t, "idle", "inserting")
  /\ guard' = t
  /\ queue' = Append(queue, x)
  /\ inserts' = inserts + 1
  /\ UNCHANGED <<semVars, isFifo, down, got>>

\* Mutant: signal only the item that ends an empty queue.
InsertSignalFirst(t) ==
  /\ Move(t, "inserting", "idle")
  /\ IF Len(queue) = 1 THEN Increment(t) ELSE UNCHANGED semVars
  /\ guard' = NoThread
  /\ UNCHANGED <<isFifo, queue, down, got, inserts>>

\* _signal.increment(), and leave the guard.
InsertSignal(t) ==
  /\ Move(t, "inserting", "idle")
  /\ Increment(t)
  /\ guard' = NoThread
  /\ UNCHANGED <<isFifo, queue, down, got, inserts>>

-----------------------------------------------------------------------------
(* remove *)

\* The place of the item front() or top() returns.
FrontIndex(q) ==
  IF isFifo THEN 1
  ELSE CHOOSE i \in 1..Len(q) : \A j \in 1..Len(q) : q[j] <= q[i]

RemoveRefused(t) ==
  /\ pc[t] = "idle"
  /\ DecrementRefused(t)
  /\ UNCHANGED <<isFifo, queue, down, guard, pc, got, inserts>>

RemoveWait(t) ==
  /\ Move(t, "idle", "removing")
  /\ DecrementEnter(t)
  /\ UNCHANGED <<isFifo, queue, down, guard, got, inserts>>

\* The steps of the decrement that leave the queue alone.
RemoveInside(t) ==
  /\ pc[t] = "removing"
  /\ DecrementInner(t)
  /\ UNCHANGED queueVars

RemoveGranted(t) ==
  /\ LeaveResult(t) = "SUCCESS"
  /\ Move(t, "removing", "granted")
  /\ DecrementLeave(t)
  /\ UNCHANGED <<isFifo, queue, down, guard, got, inserts>>

\* "abandoned or timed out" (ThdQueue.h:182), or interrupted.
RemoveFailed(t) ==
  /\ LeaveResult(t) = "FAILED"
  /\ Move(t, "removing", "idle")
  /\ DecrementLeave(t)
  /\ UNCHANGED <<isFifo, queue, down, guard, got, inserts>>

\* Mutant: no look at _down behind the decrement.
RemovePopAlways(t) ==
  /\ guard = NoThread
  /\ queue # <<>>
  /\ Move(t, "granted", "idle")
  /\ got' = [got EXCEPT ![t] = queue[FrontIndex(queue)]]
  /\ queue' = RemoveAt(queue, FrontIndex(queue))
  /\ UNCHANGED <<semVars, isFifo, down, guard, inserts>>

RemovePop(t) ==
  /\ guard = NoThread
  /\ ~down
  /\ Move(t, "granted", "idle")
  /\ got' = [got EXCEPT ![t] = queue[FrontIndex(queue)]]
  /\ queue' = RemoveAt(queue, FrontIndex(queue))
  /\ UNCHANGED <<semVars, isFifo, down, guard, inserts>>

RemoveAbort(t) ==
  /\ guard = NoThread
  /\ down
  /\ Move(t, "granted", "idle")
  /\ UNCHANGED <<semVars, isFifo, queue, down, guard, got, inserts>>

-----------------------------------------------------------------------------
(* down: the guard is held until abandon has returned *)

DownBegin(t) ==
  /\ guard = NoThread
  /\ ~down
  /\ Move(t, "idle", "downing")
  /\ guard' = t
  /\ down' = TRUE
  /\ UNCHANGED <<semVars, isFifo, queue, got, inserts>>

DownAbandon(t) ==
  /\ pc[t] = "downing"
  /\ AbandonSet(t) \/ AbandonAgain(t) \/ AbandonPost(t)
  /\ UNCHANGED queueVars

DownEnd(t) ==
  /\ Move(t, "downing", "idle")
  /\ AbandonDone(t)
  /\ guard' = NoThread
  /\ UNCHANGED <<isFifo, queue, down, got, inserts>>

-----------------------------------------------------------------------------

ThreadNext(t) ==
  \/ \E x \in Items : InsertPush(t, x)
  \/ InsertSignal(t)
  \/ RemoveRefused(t)
  \/ RemoveWait(t)
  \/ RemoveInside(t)
  \/ RemoveGranted(t)
  \/ RemoveFailed(t)
  \/ RemovePop(t)
  \/ RemoveAbort(t)
  \/ DownBegin(t)
  \/ DownAbandon(t)
  \/ DownEnd(t)

Next == \E t \in Threads : ThreadNext(t)

Spec == Init /\ [][Next]_vars

\* A thread inside an operation goes on whenever it can.  The threads need
\* not call anything, and no signal needs to interrupt them.
ThreadFairness(t) ==
  WF_vars(\/ InsertSignal(t)
          \/ RemoveInside(t) /\ ~DecrementInterrupted(t)
          \/ RemoveGranted(t) \/ RemoveFailed(t)
          \/ RemovePop(t) \/ RemoveAbort(t)
          \/ DownAbandon(t)
          \/ DownEnd(t))

FairSpec == Spec /\ \A t \in Threads : ThreadFairness(t)

-----------------------------------------------------------------------------
(* Properties *)

\* A thread whose pushed item is not yet counted by the semaphore, or who has
\* taken the token of an item it has not yet popped.
Owes(t) ==
  \/ pc[t] \in {"inserting", "granted"}
  \/ pc[t] = "removing" /\ semPc[t] \in {"counted", "leaving"} /\ woke[t]

\* While the queue is up the tokens are exactly the items nobody is about to
\* take: no item is invisible to the waiting threads, and no token lets a
\* thread through to an empty queue.  (ThdQueue.h:126-170)
TokensMatchItems ==
  ~down => semValue + Cardinality({t \in Threads : Owes(t)}) = Len(queue)

\* "we are guranteed to have something in the queue or the pool has been
\* shutdown" (ThdQueue.h:156): remove calls front() and pop() without looking,
\* which is undefined on an empty container.
PopHasItem ==
  \A t \in Threads : pc[t] = "granted" /\ ~down => queue # <<>>

\* A thread in insert or down is the one that holds the guard.
GuardHeld ==
  \A t \in Threads : pc[t] \in {"inserting", "downing"} <=> guard = t

\* Where a thread is in the queue tells where it may be in the semaphore.
PcsAgree ==
  \A t \in Threads :
    /\ pc[t] \in {"idle", "inserting", "granted"} => semPc[t] = "out"
    /\ pc[t] = "removing" =>
         semPc[t] \in {"entering", "waiting", "counted", "leaving"}
    /\ pc[t] = "downing" =>
         down /\ semPc[t] \in {"out", "abandoning", "posting"}

\* The inductive invariant.  That the tokens match the items is kept by a
\* step of the semaphore only because the pcs agree and because nothing but
\* down abandons it, and by InsertSignal only because the semaphore cannot
\* be at its limit: it counts fewer tokens than there were inserts.
QueueInv ==
  /\ TypeOK
  /\ WaitersCounted
  /\ PcsAgree
  /\ GuardHeld
  /\ abandoned => down
  /\ Len(queue) <= inserts
  /\ TokensMatchItems

\* The queue implements the closable queue of its users: every item is
\* received at most once, in order, and none after down().
CQ == INSTANCE ClosableQueue WITH closed <- down
ImplementsClosableQueue == CQ!Spec

\* down() returns although it holds _guard while it waits for the threads in
\* sem_wait to leave.  (ThdQueue.h:191-199)
DownReturns ==
  \A t \in Threads : pc[t] = "downing" ~> pc[t] = "idle"

\* "signal all threads waiting on a queues to return" (ThdPool.cpp:135, said
\* of down()): once the queue is down nobody stays in remove.  It is false:
\* see the run queue_stranded.
DownReleasesRemovers ==
  \A t \in Threads : down /\ pc[t] = "removing" ~> pc[t] = "idle"
=============================================================================
