------------------------------ MODULE ThdEvent ------------------------------
(***************************************************************************)
(* ThdEvent (src/src/thd/ThdEvent.cpp, the pthreads version): a flag under *)
(* a mutex and a condition variable for the threads that wait for it.      *)
(*                                                                         *)
(* What a thread does between locking and unlocking _mMutex is one step,   *)
(* and pthread_cond_wait releases the mutex and goes to sleep in that same *)
(* step.  signal() sets the flag under the mutex and notifies after it let *)
(* go of it: two steps, with anything in between.  _mWaiters is counted    *)
(* and never read; it is left out.                                         *)
(***************************************************************************)
EXTENDS Naturals, ThreadSet

CONSTANT
  MaxSignals  \* bound: how often signal() is called

ASSUME EventAssumption == MaxSignals \in Nat

VARIABLES
  manualReset, \* _manualReset, which the constructor sets for good
  signalled,   \* _mSignalled
  evPc,        \* where a thread is in wait or signal
  timed,       \* did the thread's wait name a time
  evRes,       \* result of the thread's last wait
  signals,     \* how often signal() was called
  releases     \* how often it released a thread, if it is automatic

evVars == <<manualReset, signalled, evPc, timed, evRes, signals, releases>>

(***************************************************************************)
(* out        in none of the operations                                    *)
(* asleep     in pthread_cond_wait or pthread_cond_timedwait               *)
(* woken      the wait returned 0, the thread wants the mutex back         *)
(* expired    the wait returned ETIMEDOUT, likewise                        *)
(* notifying  in signal, the flag is set, the condition not yet signalled  *)
(***************************************************************************)
EvPcs == {"out", "asleep", "woken", "expired", "notifying"}
EvResults == {"none", "SUCCESS", "TIMEOUT", "FAILED"}

EvTypeOK ==
  /\ manualReset \in BOOLEAN
  /\ signalled \in BOOLEAN
  /\ evPc \in [Threads -> EvPcs]
  /\ timed \in [Threads -> BOOLEAN]
  /\ evRes \in [Threads -> EvResults]
  /\ signals \in 0..MaxSignals
  /\ releases \in Nat

EvInit ==
  /\ manualReset \in BOOLEAN
  /\ signalled = FALSE
  /\ evPc = [t \in Threads |-> "out"]
  /\ timed = [t \in Threads |-> FALSE]
  /\ evRes = [t \in Threads |-> "none"]
  /\ signals = 0
  /\ releases = 0

EvMove(t, from, to) ==
  /\ evPc[t] = from
  /\ evPc' = [evPc EXCEPT ![t] = to]

-----------------------------------------------------------------------------
(* wait *)

\* The flag is up: an automatic event is reset by the thread that leaves.
TakeFlag(t) ==
  /\ signalled
  /\ signalled' = manualReset
  /\ evRes' = [evRes EXCEPT ![t] = "SUCCESS"]
  /\ releases' = IF manualReset THEN releases ELSE releases + 1

WaitSatisfied(t) ==
  /\ evPc[t] = "out"
  /\ TakeFlag(t)
  /\ UNCHANGED <<manualReset, evPc, timed, signals>>

\* Mutant: the flag was looked at before the mutex was taken.
WaitSleepUnchecked(t, limit) ==
  /\ EvMove(t, "out", "asleep")
  /\ timed' = [timed EXCEPT ![t] = limit]
  /\ evRes' = [evRes EXCEPT ![t] = "none"]
  /\ UNCHANGED <<manualReset, signalled, signals, releases>>

WaitSleep(t, limit) ==
  /\ ~signalled
  /\ EvMove(t, "out", "asleep")
  /\ timed' = [timed EXCEPT ![t] = limit]
  /\ evRes' = [evRes EXCEPT ![t] = "none"]
  /\ UNCHANGED <<manualReset, signalled, signals, releases>>

\* toTimeSpec can produce a tv_nsec of 10^9 (see Dates), for which
\* pthread_cond_timedwait returns EINVAL at once.
WaitInvalid(t) ==
  /\ evPc[t] = "out"
  /\ ~signalled
  /\ evRes' = [evRes EXCEPT ![t] = "FAILED"]
  /\ UNCHANGED <<manualReset, signalled, evPc, timed, signals, releases>>

\* pthread_cond_wait may return although nobody signalled.
WakeSpurious(t) ==
  /\ EvMove(t, "asleep", "woken")
  /\ UNCHANGED <<manualReset, signalled, timed, evRes, signals, releases>>

Expire(t) ==
  /\ timed[t]
  /\ EvMove(t, "asleep", "expired")
  /\ UNCHANGED <<manualReset, signalled, timed, evRes, signals, releases>>

\* Mutant: a thread that was woken takes the flag to be up.
RecheckTrusting(t) ==
  /\ EvMove(t, "woken", "out")
  /\ signalled' = manualReset
  /\ evRes' = [evRes EXCEPT ![t] = "SUCCESS"]
  /\ releases' = IF manualReset THEN releases ELSE releases + 1
  /\ UNCHANGED <<manualReset, timed, signals>>

RecheckSatisfied(t) ==
  /\ EvMove(t, "woken", "out")
  /\ TakeFlag(t)
  /\ UNCHANGED <<manualReset, timed, signals>>

RecheckSleep(t) ==
  /\ ~signalled
  /\ EvMove(t, "woken", "asleep")
  /\ UNCHANGED <<manualReset, signalled, timed, evRes, signals, releases>>

\* Once the time is up the flag is not looked at again.
\* Mutant: a thread whose time is up lowers the flag as well.
LeaveExpiredResets(t) ==
  /\ EvMove(t, "expired", "out")
  /\ evRes' = [evRes EXCEPT ![t] = "TIMEOUT"]
  /\ signalled' = FALSE
  /\ UNCHANGED <<manualReset, timed, signals, releases>>

LeaveExpired(t) ==
  /\ EvMove(t, "expired", "out")
  /\ evRes' = [evRes EXCEPT ![t] = "TIMEOUT"]
  /\ UNCHANGED <<manualReset, signalled, timed, signals, releases>>

-----------------------------------------------------------------------------
(* signal, reset *)

SetFlag(t) ==
  /\ signals < MaxSignals
  /\ EvMove(t, "out", "notifying")
  /\ signalled' = TRUE
  /\ signals' = signals + 1
  /\ UNCHANGED <<manualReset, timed, evRes, releases>>

Asleep == {t \in Threads : evPc[t] = "asleep"}

\* The threads a notification may wake: pthread_cond_broadcast, or _signal.
NotifiedSets ==
  IF manualReset THEN {Asleep}
  ELSE IF Asleep = {} THEN {{}} ELSE {{t} : t \in Asleep}

Notify(t) ==
  /\ evPc[t] = "notifying"
  /\ \E woken \in NotifiedSets :
       evPc' = [u \in Threads |->
                  IF u = t THEN "out"
                  ELSE IF u \in woken THEN "woken" ELSE evPc[u]]
  /\ UNCHANGED <<manualReset, signalled, timed, evRes, signals, releases>>

Reset(t) ==
  /\ evPc[t] = "out"
  /\ signalled' = FALSE
  /\ UNCHANGED <<manualReset, evPc, timed, evRes, signals, releases>>

-----------------------------------------------------------------------------

EvNext ==
  \E t \in Threads :
    \/ WaitSatisfied(t)
    \/ \E limit \in BOOLEAN : WaitSleep(t, limit)
    \/ WaitInvalid(t)
    \/ WakeSpurious(t)
    \/ Expire(t)
    \/ RecheckSatisfied(t)
    \/ RecheckSleep(t)
    \/ LeaveExpired(t)
    \/ SetFlag(t)
    \/ Notify(t)
    \/ Reset(t)

EvSpec == EvInit /\ [][EvNext]_evVars

\* A thread that is awake goes on.  Nothing says that a sleeping one ever
\* wakes without being notified, and nobody has to call signal or reset.
EvFairness(t) ==
  WF_evVars(\/ RecheckSatisfied(t) \/ RecheckSleep(t)
            \/ LeaveExpired(t)
            \/ Notify(t))

EvFairSpec == EvSpec /\ \A t \in Threads : EvFairness(t)

-----------------------------------------------------------------------------
(* Properties *)

\* No wakeup is lost in the gap between setting the flag and notifying, or by
\* a thread whose time ran out: beside a thread that sleeps on a raised flag
\* there is always a notification still to come, or another thread on its way
\* to take the flag.  (ThdEvent.cpp:198-240, 252-280)
NoLostSignal ==
  signalled /\ Asleep # {} => \E t \in Threads : evPc[t] \in {"notifying", "woken"}

\* A call of signal on an automatic event releases at most one thread, however
\* many were woken: "a single waiting thread is released"
\* (ThdEvent.cpp:262), and what is not used up yet is in the flag.
OneReleasePerSignal ==
  ~manualReset =>
    releases + (IF signalled THEN 1 ELSE 0) <= signals

\* The condition variable implements the event of its users.
Waiting == {t \in Threads : evPc[t] \in {"asleep", "woken", "expired"}}
EO == INSTANCE EventObject WITH waiting <- Waiting
ImplementsEventObject == EO!Spec

\* A thread that waits while the flag is up returns, or somebody else used
\* the flag or lowered it.
WaiterMeetsSignal ==
  \A t \in Threads :
    signalled /\ t \in Waiting ~> ~signalled \/ evPc[t] = "out"
=============================================================================
