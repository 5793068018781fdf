------------------------------ MODULE ThdPool ------------------------------
(***************************************************************************)
(* ThdPool (src/src/thd/ThdPool.cpp): three pools of threads made on       *)
(* first use, each with a queue of its own, and a list of threads that     *)
(* only run their runner.  "once" stands for run(keOnce), _pool and        *)
(* _poolQ; "immediate" for run(keImmediate), _system and _systemQ;         *)
(* "deque" for enqueue, _poolD and _poolDQ.                                *)
(*                                                                         *)
(* The queues are closable queues (see ClosableQueue): a step of insert,   *)
(* remove, removeItem or down is atomic.  newWorkerThread is one step that *)
(* may fail (see ThdThread).  As the library is built nobody joins the     *)
(* threads of a pool that is destroyed (see ThdThread!CloseThread).        *)
(***************************************************************************)
EXTENDS Naturals, Sequences, SequencesExt, FiniteSets

CONSTANTS
  PoolUsers,    \* the threads that call the pool
  Runners,      \* the work, each handed in once
  NoRunner,
  MaxPoolSize,  \* bound: the largest _maxPoolSize
  MaxPermanent  \* bound: how many permanent threads are made

ASSUME ThdPoolAssumption ==
  /\ NoRunner \notin Runners \cup PoolUsers
  /\ MaxPoolSize \in Nat \ {0} /\ MaxPermanent \in Nat

Pools == {"once", "immediate", "deque"}

VARIABLES
  maxSize,    \* _maxPoolSize
  made,       \* _pool, _system, _poolD: NULL, or the entries so far
  poolGuard,  \* the owner of _poolGuard, _systemGuard, _poolDGuard
  poolQ,      \* the queues
  poolDown,   \* the queues that are down
  workers,    \* the threads of a pool: where each is, "null" when it was not created
  job,        \* what each worker runs
  permanent,  \* the threads of _permanent
  user,       \* where a user is
  arg,        \* its runner and pool
  taken,      \* the runners dequeue took back
  destructor  \* how far ~ThdPool is

poolVars == <<maxSize, made, poolGuard, poolQ, poolDown, workers, job, permanent,
              user, arg, taken, destructor>>

Slots == 1..MaxPoolSize
NoArg == [pool |-> "once", runner |-> NoRunner]

WorkerPlaces == {"none", "null", "waiting", "running", "exited"}
UserPlaces == {"idle", "making", "inserting"}

PoolTypeOK ==
  /\ maxSize \in 0..MaxPoolSize
  /\ made \in [Pools -> BOOLEAN]
  /\ poolGuard \in [Pools -> PoolUsers \cup {NoRunner}]
  /\ poolQ \in [Pools -> Seq(Runners)]
  /\ poolDown \subseteq Pools
  /\ workers \in [Pools -> [Slots -> WorkerPlaces]]
  /\ job \in [Pools -> [Slots -> Runners \cup {NoRunner}]]
  /\ user \in [PoolUsers -> UserPlaces]
  /\ taken \subseteq Runners

\* init takes max-size from the configuration, whatever it is.
PoolInit ==
  /\ maxSize \in 0..MaxPoolSize
  /\ made = [k \in Pools |-> FALSE]
  /\ poolGuard = [k \in Pools |-> NoRunner]
  /\ poolQ = [k \in Pools |-> <<>>]
  /\ poolDown = {}
  /\ workers = [k \in Pools |-> [s \in Slots |-> "none"]]
  /\ job = [k \in Pools |-> [s \in Slots |-> NoRunner]]
  /\ permanent = <<>>
  /\ user = [u \in PoolUsers |-> "idle"]
  /\ arg = [u \in PoolUsers |-> NoArg]
  /\ taken = {}
  /\ destructor = "none"

PoolMove(u, from, to) ==
  /\ user[u] = from
  /\ user' = [user EXCEPT ![u] = to]

\* How many threads a pool is made of.
Size(k) == IF k = "immediate" THEN 1 ELSE maxSize

Entries(k) == Cardinality({s \in Slots : workers[k][s] # "none"})

\* The runners somebody handed in.
Handed ==
  {arg[u].runner : u \in PoolUsers} \cup taken
    \cup UNION {ToSet(poolQ[k]) \cup {job[k][s] : s \in Slots} : k \in Pools}

Placed(k, s, place, r) ==
  /\ workers' = [workers EXCEPT ![k][s] = place]
  /\ job' = [job EXCEPT ![k][s] = r]

-----------------------------------------------------------------------------
(* run, enqueue *)

\* Only the first user finds the vector (or _system) NULL and makes it.
Run(u, k, r) ==
  /\ user[u] = "idle" /\ destructor = "none" /\ r \notin Handed
  /\ poolGuard[k] = NoRunner
  /\ arg' = [arg EXCEPT ![u] = [pool |-> k, runner |-> r]]
  /\ IF made[k]
     THEN /\ user' = [user EXCEPT ![u] = "inserting"]
          /\ UNCHANGED <<made, poolGuard>>
     ELSE /\ user' = [user EXCEPT ![u] = "making"]
          /\ made' = [made EXCEPT ![k] = TRUE]
          /\ poolGuard' = [poolGuard EXCEPT ![k] = u]
  /\ UNCHANGED <<maxSize, poolQ, poolDown, workers, job, permanent, taken,
                 destructor>>

\* PoolEntry: an entry is added even when newWorkerThread returned NULL.
MakeEntry(u) ==
  LET k == arg[u].pool IN
  /\ user[u] = "making"
  /\ Entries(k) < Size(k)
  /\ \E place \in {"waiting", "null"} :
       workers' = [workers EXCEPT ![k][Entries(k) + 1] = place]
  /\ UNCHANGED <<maxSize, made, poolGuard, poolQ, poolDown, job, permanent,
                 user, arg, taken, destructor>>

\* _system is the thread itself, not a vector of entries: while it cannot be
\* created it stays NULL, and the next user tries again.
MadePool(u) ==
  LET k == arg[u].pool
      lost == k = "immediate" /\ workers[k][1] = "null" IN
  /\ Entries(k) >= Size(k)
  /\ PoolMove(u, "making", "inserting")
  /\ poolGuard' = [poolGuard EXCEPT ![k] = NoRunner]
  /\ made' = [made EXCEPT ![k] = ~lost]
  /\ workers' = IF lost THEN [workers EXCEPT ![k][1] = "none"] ELSE workers
  /\ UNCHANGED <<maxSize, poolQ, poolDown, job, permanent, arg, taken, destructor>>

InsertRunner(u) ==
  /\ PoolMove(u, "inserting", "idle")
  /\ poolQ' = [poolQ EXCEPT ![arg[u].pool] = Append(@, arg[u].runner)]
  /\ arg' = [arg EXCEPT ![u] = NoArg]
  /\ UNCHANGED <<maxSize, made, poolGuard, poolDown, workers, job, permanent,
                 taken, destructor>>

\* Mutant: removeItem says yes whatever it finds.
DequeueAlways(u, r) ==
  /\ user[u] = "idle" /\ destructor = "none"
  /\ poolQ' = [poolQ EXCEPT !["deque"] = RemoveFirst(@, r)]
  /\ taken' = taken \cup {r}
  /\ UNCHANGED <<maxSize, made, poolGuard, poolDown, workers, job, permanent,
                 user, arg, destructor>>

\* dequeue returns TRUE: the runner was still in the deque.
Dequeue(u, r) ==
  /\ user[u] = "idle" /\ destructor = "none"
  /\ Contains(poolQ["deque"], r)
  /\ poolQ' = [poolQ EXCEPT !["deque"] = RemoveFirst(@, r)]
  /\ taken' = taken \cup {r}
  /\ UNCHANGED <<maxSize, made, poolGuard, poolDown, workers, job, permanent,
                 user, arg, destructor>>

\* add, and the constructor with a runner: the first thread that cannot be
\* created ends it.
Add(u) ==
  /\ user[u] = "idle" /\ destructor = "none"
  /\ \E n \in 1..MaxPermanent :
       /\ Len(permanent) + n <= MaxPermanent
       /\ permanent' = permanent \o [i \in 1..n |-> "running"]
  /\ UNCHANGED <<maxSize, made, poolGuard, poolQ, poolDown, workers, job, user, arg,
                 taken, destructor>>

-----------------------------------------------------------------------------
(* PoolQueueRunner::run and PoolDQueueRunner::run *)

WorkerTakes(k, s) ==
  /\ workers[k][s] = "waiting"
  /\ k \notin poolDown
  /\ poolQ[k] # <<>>
  /\ Placed(k, s, "running", Head(poolQ[k]))
  /\ poolQ' = [poolQ EXCEPT ![k] = Tail(@)]
  /\ UNCHANGED <<maxSize, made, poolGuard, poolDown, permanent, user, arg,
                 taken, destructor>>

\* Mutant: an exception of the runner ends the thread.
WorkerThrows(k, s) ==
  /\ workers[k][s] = "running"
  /\ \E place \in {"waiting", "exited"} : Placed(k, s, place, NoRunner)
  /\ UNCHANGED <<maxSize, made, poolGuard, poolQ, poolDown, permanent, user,
                 arg, taken, destructor>>

\* The runner returned, or threw: run catches everything.
WorkerRan(k, s) ==
  /\ workers[k][s] = "running"
  /\ Placed(k, s, "waiting", NoRunner)
  /\ UNCHANGED <<maxSize, made, poolGuard, poolQ, poolDown, permanent, user,
                 arg, taken, destructor>>

RunnerLeaves(k, s) ==
  /\ workers[k][s] = "waiting"
  /\ k \in poolDown
  /\ Placed(k, s, "exited", NoRunner)
  /\ UNCHANGED <<maxSize, made, poolGuard, poolQ, poolDown, permanent, user,
                 arg, taken, destructor>>

PermanentEnds(i) ==
  /\ i \in DOMAIN permanent
  /\ permanent[i] = "running"
  /\ permanent' = [permanent EXCEPT ![i] = "exited"]
  /\ UNCHANGED <<maxSize, made, poolGuard, poolQ, poolDown, workers, job, user,
                 arg, taken, destructor>>

-----------------------------------------------------------------------------
(* ~ThdPool *)

Downs == <<"immediate", "once", "deque">>

\* Nobody may be in a method of the pool.  The permanent threads are not told.
Destructs ==
  /\ destructor = "none"
  /\ \A u \in PoolUsers : user[u] = "idle"
  /\ destructor' = "downing"
  /\ UNCHANGED <<maxSize, made, poolGuard, poolQ, poolDown, workers, job, permanent, user,
                 arg, taken>>

DestructorDowns ==
  /\ destructor = "downing"
  /\ poolDown' = poolDown \cup {Downs[Cardinality(poolDown) + 1]}
  /\ destructor' = IF poolDown' = Pools THEN "done" ELSE destructor
  /\ UNCHANGED <<maxSize, made, poolGuard, poolQ, workers, job, permanent, user, arg,
                 taken>>

-----------------------------------------------------------------------------

PoolNext ==
  \/ \E u \in PoolUsers :
       \/ \E k \in Pools, r \in Runners : Run(u, k, r)
       \/ MakeEntry(u)
       \/ MadePool(u)
       \/ InsertRunner(u)
       \/ \E r \in Runners : Dequeue(u, r)
       \/ Add(u)
  \/ \E k \in Pools, s \in Slots :
       WorkerTakes(k, s) \/ WorkerRan(k, s) \/ RunnerLeaves(k, s)
  \/ \E i \in 1..MaxPermanent : PermanentEnds(i)
  \/ Destructs
  \/ DestructorDowns

\* The threads of the pool run and so does everything handed to them; the
\* runners of the permanent threads may go on for ever.
PoolFairness ==
  /\ \A k \in Pools, s \in Slots :
       /\ WF_poolVars(WorkerTakes(k, s) \/ RunnerLeaves(k, s))
       /\ WF_poolVars(WorkerRan(k, s))
  /\ WF_poolVars(DestructorDowns)

PoolSpec == PoolInit /\ [][PoolNext]_poolVars

-----------------------------------------------------------------------------
(* Properties *)

\* A runner that dequeue took back is never run, by no worker that had it
\* already in hand either.  (ThdPool.h:142-145)
TakenNeverRuns ==
  \A k \in Pools, s \in Slots : job[k][s] \notin taken

\* The pool is made once, however many users find it missing at a time: the
\* threads never exceed _maxPoolSize, and nobody inserts before it is complete,
\* or, for the immediate thread, before somebody tried to make it.
PoolMadeOnce ==
  \A k \in Pools :
    /\ Entries(k) <= Size(k)
    /\ Entries(k) > 0 => made[k]
    /\ \A u \in PoolUsers :
         user[u] = "inserting" /\ arg[u].pool = k /\ k # "immediate"
           => made[k] /\ Entries(k) = Size(k)

\* A pool that got at least one thread runs what is in its queue, also after a
\* runner threw, unless the pool is destroyed first.  A pool whose threads
\* could not be created, or of size 0, keeps it for ever. (ThdPool.cpp:83, 195)
PooledRuns ==
  \A r \in Runners, k \in Pools :
    (Contains(poolQ[k], r) /\ \E s \in Slots : workers[k][s] \notin {"none", "null"})
      ~> (~Contains(poolQ[k], r) \/ destructor # "none")

\* A runner taken by dequeue does not run, and each pool is made once.
PoolSafe == PoolTypeOK /\ TakenNeverRuns /\ PoolMadeOnce
=============================================================================
