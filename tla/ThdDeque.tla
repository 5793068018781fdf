------------------------------ MODULE ThdDeque ------------------------------
(***************************************************************************)
(* ThdDeque<T> (src/h/thd/ThdDeque.h): a std::deque under a critical       *)
(* section with a ThdSemaphore for the threads in remove.  It differs from *)
(* ThdQueue in removeItem, which erases an item and leaves its token in    *)
(* the semaphore, and in remove, which therefore looks whether the deque   *)
(* is empty and waits again when it is.                                    *)
(***************************************************************************)
EXTENDS ThdSemaphore, Sequences, SequencesExt

CONSTANTS
  Items,       \* the objects inserted, each at most once
  NoItem       \* the value of an object nothing was removed into

VARIABLES
  queue,    \* _queue
  down,     \* _down
  guard,    \* the owner of _guard
  pc,       \* where a thread is in insert, remove or down, as in ThdQueue
  got,      \* the object of the thread's last successful remove
  fresh,    \* the items not inserted yet
  erased    \* the items for which removeItem returned true

dequeVars == <<queue, down, guard, pc, got, fresh, erased>>
vars == <<semVars, dequeVars>>

Init ==
  /\ SemInit
  /\ queue = <<>>
  /\ down = FALSE
  /\ guard = NoThread
  /\ pc = [t \in Threads |-> "idle"]
  /\ got = [t \in Threads |-> NoItem]
  /\ fresh = Items
  /\ erased = {}

Move(t, from, to) ==
  /\ pc[t] = from
  /\ pc' = [pc EXCEPT ![t] = to]

-----------------------------------------------------------------------------
InsertPush(t, x) ==
  /\ guard = NoThread
  /\ ~down
  /\ x \in fresh
  /\ Move(t, "idle", "inserting")
  /\ guard' = t
  /\ queue' = Append(queue, x)
  /\ fresh' = fresh \ {x}
  /\ UNCHANGED <<semVars, down, got, erased>>

InsertSignal(t) ==
  /\ Move(t, "inserting", "idle")
  /\ Increment(t)
  /\ guard' = NoThread
  /\ UNCHANGED <<queue, down, got, fresh, erased>>

\* Mutant: erase the front, wherever the item was found.
RemoveItemFront(t, x) ==
  /\ pc[t] = "idle"
  /\ guard = NoThread
  /\ ~down
  /\ x \in ToSet(queue)
  /\ queue' = Tail(queue)
  /\ erased' = erased \cup {x}
  /\ UNCHANGED <<semVars, down, guard, pc, got, fresh>>

\* removeItem: true if the item was still there.  The semaphore is left alone.
RemoveItem(t, x) ==
  /\ pc[t] = "idle"
  /\ guard = NoThread
  /\ ~down
  /\ x \in ToSet(queue)
  /\ queue' = RemoveFirst(queue, x)
  /\ erased' = erased \cup {x}
  /\ UNCHANGED <<semVars, down, guard, pc, got, fresh>>

-----------------------------------------------------------------------------
(* remove *)

RemoveRefused(t) ==
  /\ pc[t] = "idle"
  /\ DecrementRefused(t)
  /\ UNCHANGED <<queue, down, guard, pc, got, fresh, erased>>

RemoveWait(t) ==
  /\ Move(t, "idle", "removing")
  /\ DecrementEnter(t)
  /\ UNCHANGED <<queue, down, guard, got, fresh, erased>>

\* The same decrement, from a later round of the loop.
RemoveWaitAgain(t) ==
  /\ pc[t] = "removing"
  /\ DecrementEnter(t)
  /\ UNCHANGED dequeVars

RemoveRefusedAgain(t) ==
  /\ Move(t, "removing", "idle")
  /\ DecrementRefused(t)
  /\ UNCHANGED <<queue, down, guard, got, fresh, erased>>

RemoveInside(t) ==
  /\ pc[t] = "removing"
  /\ DecrementInner(t)
  /\ UNCHANGED dequeVars

RemoveGranted(t) ==
  /\ LeaveResult(t) = "SUCCESS"
  /\ Move(t, "removing", "granted")
  /\ DecrementLeave(t)
  /\ UNCHANGED <<queue, down, guard, got, fresh, erased>>

RemoveFailed(t) ==
  /\ LeaveResult(t) = "FAILED"
  /\ Move(t, "removing", "idle")
  /\ DecrementLeave(t)
  /\ UNCHANGED <<queue, down, guard, got, fresh, erased>>

RemovePop(t) ==
  /\ guard = NoThread
  /\ ~down
  /\ queue # <<>>
  /\ Move(t, "granted", "idle")
  /\ got' = [got EXCEPT ![t] = Head(queue)]
  /\ queue' = Tail(queue)
  /\ UNCHANGED <<semVars, down, guard, fresh, erased>>

\* The token of an item that removeItem erased: wait again.
RemoveEmpty(t) ==
  /\ guard = NoThread
  /\ ~down
  /\ queue = <<>>
  /\ Move(t, "granted", "removing")
  /\ UNCHANGED <<semVars, queue, down, guard, got, fresh, erased>>

RemoveAbort(t) ==
  /\ guard = NoThread
  /\ down
  /\ Move(t, "granted", "idle")
  /\ UNCHANGED <<semVars, queue, down, guard, got, fresh, erased>>

-----------------------------------------------------------------------------
(* down *)

DownBegin(t) ==
  /\ guard = NoThread
  /\ ~down
  /\ Move(t, "idle", "downing")
  /\ guard' = t
  /\ down' = TRUE
  /\ UNCHANGED <<semVars, queue, got, fresh, erased>>

DownAbandon(t) ==
  /\ pc[t] = "downing"
  /\ AbandonSet(t) \/ AbandonAgain(t) \/ AbandonPost(t)
  /\ UNCHANGED dequeVars

DownEnd(t) ==
  /\ Move(t, "downing", "idle")
  /\ AbandonDone(t)
  /\ guard' = NoThread
  /\ UNCHANGED <<queue, down, got, fresh, erased>>

-----------------------------------------------------------------------------

Next ==
  \E t \in Threads :
    \/ \E x \in Items : InsertPush(t, x) \/ RemoveItem(t, x)
    \/ InsertSignal(t)
    \/ RemoveRefused(t)
    \/ RemoveWait(t)
    \/ RemoveWaitAgain(t)
    \/ RemoveRefusedAgain(t)
    \/ RemoveInside(t)
    \/ RemoveGranted(t)
    \/ RemoveFailed(t)
    \/ RemovePop(t)
    \/ RemoveEmpty(t)
    \/ RemoveAbort(t)
    \/ DownBegin(t)
    \/ DownAbandon(t)
    \/ DownEnd(t)

Spec == Init /\ [][Next]_vars

\* A thread inside an operation goes on whenever it can.
ThreadFairness(t) ==
  WF_vars(\/ InsertSignal(t)
          \/ RemoveWaitAgain(t) \/ RemoveRefusedAgain(t)
          \/ RemoveInside(t) /\ ~DecrementInterrupted(t)
          \/ RemoveGranted(t) \/ RemoveFailed(t)
          \/ RemovePop(t) \/ RemoveEmpty(t) \/ RemoveAbort(t)
          \/ DownAbandon(t)
          \/ DownEnd(t))

-----------------------------------------------------------------------------
(* Properties *)

\* An item for which removeItem returned true is never received, however the
\* call interleaves with the threads in remove: "Remove an item that may be
\* enqueued but not yet executed" (ThdPool.h:134).
ErasedNeverReceived == \A t \in Threads : got[t] \notin erased

\* An item beside a thread in remove is received or taken back, or the deque
\* goes down; only a signal handler could send the thread away before.
WaitingMeetsItem ==
  \A t \in Threads :
    pc[t] = "removing" /\ queue # <<>> ~>
      queue = <<>> \/ down \/ pc[t] # "removing"
=============================================================================
