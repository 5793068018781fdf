---------------------------- MODULE ThdScheduler ----------------------------
(***************************************************************************)
(* ThdScheduler (src/src/thd/ThdScheduler.cpp): items with the time they   *)
(* want to run at, a scheduler thread that sleeps until the first of them  *)
(* is due, and worker threads that execute the due ones.                   *)
(*                                                                         *)
(* The parts are used by what they promise: _pq is a PriorityMap (Heap),   *)
(* _sig an automatic EventObject (ThdEvent) and _reqs a ClosableQueue      *)
(* (ThdQueue).  Whatever is done under _pqGuard is one step; the scheduler *)
(* thread takes _pqGuard only after wait has returned, and a worker only   *)
(* after execute has.  Times are in seconds, as ScheduleTime is on UNIX.   *)
(***************************************************************************)
EXTENDS Integers, Sequences, SequencesExt, Functions, FiniteSets

CONSTANTS
  Items,             \* the iSchedulables
  Workers,           \* the threads of _workers
  Priorities,        \* what getPriority may return, for each item
  Idle, Exited,      \* a worker in _reqs.remove; a worker that returned
  MaxAdds,           \* bound: how often users call add
  MaxClock           \* bound: when time stops

ASSUME SchedulerAssumption ==
  /\ IsFiniteSet(Items)
  /\ IsFiniteSet(Workers)
  /\ Priorities \subseteq [Items -> Nat]
  /\ Idle \notin Items
  /\ Exited \notin Items
  /\ Idle # Exited
  /\ MaxAdds \in Nat
  /\ MaxClock \in Nat

VARIABLES
  priority,  \* getPriority, which an item does not change
  clock,     \* ::time(NULL)
  pq,        \* _pq: the time of each item in it
  sig,       \* _sig: is the event signalled
  reqs,      \* _reqs
  down,      \* _down, and _reqs is down
  schedPc,   \* where the scheduler thread is
  nextWake,  \* its nextWake, in seconds
  drainedAt, \* its `now' when it looked at the heap last
  wakeAt,    \* when the wait it is in times out
  work,      \* what each worker is doing
  adds       \* how often users called add (for MaxAdds only)

schedVars == <<schedPc, nextWake, drainedAt, wakeAt>>
vars == <<priority, clock, pq, sig, reqs, down, schedVars, work, adds>>

WaitInfinite == -1
Times == 0..MaxClock

(***************************************************************************)
(* calling   about to call _sig.wait(nextWake)                             *)
(* sleeping  in it                                                         *)
(* awake     back with success or a timeout, before it locks _pqGuard      *)
(* exited    myScheduleFunction has returned                               *)
(***************************************************************************)
SchedPcs == {"calling", "sleeping", "awake", "exited"}

TypeOK ==
  /\ priority \in Priorities
  /\ clock \in Times
  /\ DOMAIN pq \subseteq Items
  /\ \A x \in DOMAIN pq : pq[x] \in Times
  /\ sig \in BOOLEAN
  /\ reqs \in Seq(Items)
  /\ down \in BOOLEAN
  /\ schedPc \in SchedPcs
  /\ nextWake \in Times \cup {WaitInfinite}
  /\ drainedAt \in Times
  /\ wakeAt \in Times \cup {WaitInfinite}
  /\ work \in [Workers -> Items \cup {Idle, Exited}]
  /\ adds \in 0..MaxAdds

Init ==
  /\ priority \in Priorities
  /\ clock = 0
  /\ pq = [x \in {} |-> 0]
  /\ sig = FALSE
  /\ reqs = <<>>
  /\ down = FALSE
  /\ schedPc = "calling"
  /\ nextWake = WaitInfinite
  /\ drainedAt = 0
  /\ wakeAt = WaitInfinite
  /\ work = [w \in Workers |-> Idle]
  /\ adds = 0

Tick ==
  /\ clock < MaxClock
  /\ clock' = clock + 1
  /\ UNCHANGED <<priority, pq, sig, reqs, down, schedVars, work, adds>>

-----------------------------------------------------------------------------
(* The heap: PriorityQueueFunc puts the earliest time first and, of items  *)
(* with one time, the one with the highest priority.                       *)

Before(h, x, y) ==
  \/ h[x] < h[y]
  \/ h[x] = h[y] /\ priority[x] > priority[y]

\* The entries head() may return; several when they are equal.
Heads(h) == {x \in DOMAIN h : \A y \in DOMAIN h : ~Before(h, y, x)}

\* Is x the head of h?
MayBeHead(h, x) ==
  {b \in BOOLEAN : (b => x \in Heads(h)) /\ (Heads(h) = {x} => b)}

Without(h, x) == Restrict(h, DOMAIN h \ {x})

-----------------------------------------------------------------------------
(* add, remove, signal: each is called by the users, and add by a worker.  *)

\* Mutant: wake the scheduler only when the heap was empty.
InsertWakesEmpty(x, time) ==
  IF down \/ x \in DOMAIN pq
  THEN UNCHANGED <<pq, sig>>
  ELSE /\ pq' = [y \in DOMAIN pq \cup {x} |-> IF y = x THEN time ELSE pq[y]]
       /\ sig' = (sig \/ DOMAIN pq = {})

\* The scheduler is woken only for a new head; an item that is in the heap
\* already is not added, whatever its new time.
Insert(x, time) ==
  IF down \/ x \in DOMAIN pq
  THEN UNCHANGED <<pq, sig>>
  ELSE /\ pq' = [y \in DOMAIN pq \cup {x} |-> IF y = x THEN time ELSE pq[y]]
       /\ \E wake \in MayBeHead(pq', x) : sig' = (sig \/ wake)

Add(x, time) ==
  /\ adds < MaxAdds
  /\ adds' = adds + 1
  /\ Insert(x, time)
  /\ UNCHANGED <<priority, clock, reqs, down, schedVars, work>>

RemoveItem(x) ==
  /\ ~down
  /\ x \in DOMAIN pq
  /\ \E wake \in MayBeHead(pq, x) : sig' = (sig \/ wake)
  /\ pq' = Without(pq, x)
  /\ UNCHANGED <<priority, clock, reqs, down, schedVars, work, adds>>

Signal(x) ==
  /\ ~down
  /\ x \in DOMAIN pq
  /\ pq' = [pq EXCEPT ![x] = clock]
  /\ sig' = TRUE
  /\ UNCHANGED <<priority, clock, reqs, down, schedVars, work, adds>>

-----------------------------------------------------------------------------
(* myScheduleFunction *)

SchedTakeSignal ==
  /\ schedPc \in {"calling", "sleeping"}
  /\ sig
  /\ sig' = FALSE
  /\ schedPc' = "awake"
  /\ UNCHANGED <<priority, clock, pq, reqs, down, nextWake, drainedAt, wakeAt, work, adds>>

\* The timeout counts from the call of wait, not from the look at the heap.  A
\* wait that would last beyond MaxClock, where time stops, ends there.
Earlier(m, n) == IF m <= n THEN m ELSE n

SchedSleep ==
  /\ schedPc = "calling"
  /\ ~sig
  /\ schedPc' = "sleeping"
  /\ wakeAt' = IF nextWake = WaitInfinite THEN WaitInfinite
               ELSE Earlier(clock + nextWake, MaxClock)
  /\ UNCHANGED <<priority, clock, pq, sig, reqs, down, nextWake, drainedAt, work, adds>>

\* The deadline of a timed wait can be invalid (Dates), which makes wait
\* return SYNCOP_FAILED and the thread leave.
SchedFail ==
  /\ schedPc = "calling"
  /\ ~sig
  /\ nextWake # WaitInfinite
  /\ schedPc' = "exited"
  /\ UNCHANGED <<priority, clock, pq, sig, reqs, down, nextWake, drainedAt, wakeAt, work, adds>>

SchedTimeout ==
  /\ schedPc = "sleeping"
  /\ wakeAt # WaitInfinite
  /\ clock >= wakeAt
  /\ schedPc' = "awake"
  /\ UNCHANGED <<priority, clock, pq, sig, reqs, down, nextWake, drainedAt, wakeAt, work, adds>>

\* The sequences in which the due items can be popped.
Due == {x \in DOMAIN pq : pq[x] <= clock}
PopOrders ==
  {s \in SetToSeqs(Due) :
     \A i, j \in DOMAIN s : i < j => ~Before(pq, s[j], s[i])}

\* Mutant: one item is moved for each wait, and the next wait is for ever.
SchedDrainOne ==
  /\ schedPc = "awake"
  /\ ~down
  /\ IF Due = {}
     THEN UNCHANGED <<pq, reqs>>
     ELSE \E x \in Heads(pq) : reqs' = Append(reqs, x) /\ pq' = Without(pq, x)
  /\ nextWake' = WaitInfinite
  /\ drainedAt' = clock
  /\ schedPc' = "calling"
  /\ UNCHANGED <<priority, clock, sig, down, wakeAt, work, adds>>

\* All due items are moved to _reqs; nextWake is the time to the next head.
SchedDrain ==
  /\ schedPc = "awake"
  /\ ~down
  /\ \E order \in PopOrders : reqs' = reqs \o order
  /\ pq' = Restrict(pq, DOMAIN pq \ Due)
  /\ nextWake' = IF DOMAIN pq' = {} THEN WaitInfinite
                 ELSE pq[CHOOSE x \in Heads(pq') : TRUE] - clock
  /\ drainedAt' = clock
  /\ schedPc' = "calling"
  /\ UNCHANGED <<priority, clock, sig, down, wakeAt, work, adds>>

SchedExit ==
  /\ schedPc = "awake"
  /\ down
  /\ schedPc' = "exited"
  /\ UNCHANGED <<priority, clock, pq, sig, reqs, down, nextWake, drainedAt, wakeAt, work, adds>>

-----------------------------------------------------------------------------
(* myWorkerFunction *)

WorkerTake(w) ==
  /\ work[w] = Idle
  /\ ~down
  /\ reqs # <<>>
  /\ work' = [work EXCEPT ![w] = Head(reqs)]
  /\ reqs' = Tail(reqs)
  /\ UNCHANGED <<priority, clock, pq, sig, down, schedVars, adds>>

\* execute returned keSchedule with the time it wants to run at next.  (One
\* that returned keExec is executed again, which changes nothing here.)
WorkerReschedule(w, time) ==
  /\ work[w] \in Items
  /\ Insert(work[w], time)
  /\ work' = [work EXCEPT ![w] = Idle]
  /\ UNCHANGED <<priority, clock, reqs, down, schedVars, adds>>

\* execute returned keNoSchedule.
WorkerFinish(w) ==
  /\ work[w] \in Items
  /\ work' = [work EXCEPT ![w] = Idle]
  /\ UNCHANGED <<priority, clock, pq, sig, reqs, down, schedVars, adds>>

\* remove failed: the queue is down, or a signal handler of the application
\* interrupted its sem_wait, which can happen at any time.
WorkerExit(w) ==
  /\ work[w] = Idle
  /\ work' = [work EXCEPT ![w] = Exited]
  /\ UNCHANGED <<priority, clock, pq, sig, reqs, down, schedVars, adds>>

-----------------------------------------------------------------------------

\* shutdown, called by close and by the destructor.
Shutdown ==
  /\ down' = TRUE
  /\ sig' = TRUE
  /\ UNCHANGED <<priority, clock, pq, reqs, schedVars, work, adds>>

Next ==
  \/ Tick
  \/ \E x \in Items, time \in Times : Add(x, time)
  \/ \E x \in Items : RemoveItem(x) \/ Signal(x)
  \/ SchedTakeSignal
  \/ SchedSleep
  \/ SchedFail
  \/ SchedTimeout
  \/ SchedDrain
  \/ SchedExit
  \/ \E w \in Workers :
       \/ WorkerTake(w)
       \/ \E time \in Times : WorkerReschedule(w, time)
       \/ WorkerFinish(w)
       \/ WorkerExit(w)
  \/ Shutdown

Spec == Init /\ [][Next]_vars

\* Time goes on, the scheduler thread runs, a worker that can take an item
\* does, and execute returns and does not ask for keExec for ever.  No wait
\* has to fail.
Fairness ==
  /\ WF_vars(Tick)
  /\ WF_vars(SchedTakeSignal)
  /\ WF_vars(SchedSleep)
  /\ WF_vars(SchedTimeout)
  /\ WF_vars(SchedDrain)
  /\ WF_vars(SchedExit)
  /\ \A w \in Workers :
       /\ WF_vars(WorkerTake(w))
       /\ WF_vars(WorkerFinish(w) \/ \E time \in Times : WorkerReschedule(w, time))

FairSpec == Spec /\ Fairness

-----------------------------------------------------------------------------
(* Properties *)

\* The scheduler never sleeps past the head of the heap: unless a signal is
\* waiting for it, the timer it set, or is about to set, ends when the first
\* item is due, whatever was added, removed, signalled or put back by a worker
\* since it looked.  (ThdScheduler.cpp:104-182, 233-262)
TimerCoversHead ==
  ~sig /\ ~down /\ schedPc \in {"calling", "sleeping"} =>
    \A x \in DOMAIN pq :
      nextWake # WaitInfinite /\ drainedAt + nextWake <= pq[x]

Running(x) == \E w \in Workers : work[w] = x
Requested(x) == \E i \in DOMAIN reqs : reqs[i] = x

\* An item whose time has come is executed, or somebody removed or delayed it,
\* or shut the scheduler down, or a thread that is needed for it is gone.
DueItemRuns ==
  \A x \in Items :
    x \in DOMAIN pq /\ pq[x] <= clock ~>
      \/ Running(x)
      \/ x \notin DOMAIN pq /\ ~Requested(x)
      \/ x \in DOMAIN pq /\ pq[x] > clock
      \/ down
      \/ schedPc = "exited"
      \/ \A w \in Workers : work[w] = Exited

\* The signal of shutdown is not lost to the scheduler thread, wherever it is
\* and however often it was signalled before.
SchedulerLeaves == down ~> schedPc = "exited"

\* No item waits for ever behind its time, and no user behind shutdown.
SchedulerProgress == DueItemRuns /\ SchedulerLeaves

\* "this next loop ensures that all items in the heap that need to be are
\* popped into the service queue" (ThdScheduler.cpp:233-234).  It is false: see
\* the run scheduler_dies.
DueItemsPopped ==
  \A x \in Items :
    x \in DOMAIN pq /\ pq[x] <= clock ~>
      down \/ x \notin DOMAIN pq \/ pq[x] > clock
=============================================================================
