---------------------------- MODULE ThdSemaphore ----------------------------
(***************************************************************************)
(* ThdSemaphore (src/src/thd/ThdSemaphore.cpp, UNIX build): a POSIX        *)
(* semaphore with an `abandon' operation that is meant to wake everybody   *)
(* who waits and to make every later decrement fail.                       *)
(*                                                                         *)
(* The two accesses to _abandoned are each made under _guard and release   *)
(* it at once, so each is one step; _waiters is an InterLockedLong, so     *)
(* ++ and -- are one step each.  Between those steps a thread can be       *)
(* preempted: that is where the hazards of this component are.             *)
(*                                                                         *)
(* decrement is always called with its default WAIT_INFINITE: the timed    *)
(* branch is only compiled under HAVE_SEM_TIMEDWAIT, which no build file   *)
(* of the repository defines.                                              *)
(***************************************************************************)
EXTENDS Naturals, ThreadSet

CONSTANTS
  InitialCount,  \* `initial', the count the semaphore is created with
  SemValueMax    \* SEM_VALUE_MAX of the platform: sem_post fails at it

ASSUME SemAssumption ==
  /\ InitialCount \in Nat
  /\ SemValueMax \in Nat
  /\ InitialCount <= SemValueMax

VARIABLES
  semValue,   \* the count of *_mSemPtr
  abandoned,  \* _abandoned
  waiters,    \* _waiters
  semPc,      \* where a thread is inside decrement or abandon
  woke,       \* `res == 0': did the sem_wait of the thread take a token
  semRes      \* result of the thread's last decrement

semVars == <<semValue, abandoned, waiters, semPc, woke, semRes>>

(***************************************************************************)
(* out         not in decrement or abandon                                 *)
(* entering    passed the first getAbandoned, _waiters not yet incremented *)
(* waiting     in sem_wait                                                 *)
(* counted     back from sem_wait, _waiters not yet decremented            *)
(* leaving     before the second getAbandoned                              *)
(* abandoning  in abandon, before it reads _waiters                        *)
(* posting     in abandon, read a positive _waiters, about to increment    *)
(***************************************************************************)
SemPcs == {"out", "entering", "waiting", "counted", "leaving",
          "abandoning", "posting"}
SemResults == {"none", "SUCCESS", "FAILED"}

SemTypeOK ==
  /\ semValue \in 0..SemValueMax
  /\ abandoned \in BOOLEAN
  /\ waiters \in Nat
  /\ semPc \in [Threads -> SemPcs]
  /\ woke \in [Threads -> BOOLEAN]
  /\ semRes \in [Threads -> SemResults]

SemInit ==
  /\ semValue = InitialCount
  /\ abandoned = FALSE
  /\ waiters = 0
  /\ semPc = [t \in Threads |-> "out"]
  /\ woke = [t \in Threads |-> FALSE]
  /\ semRes = [t \in Threads |-> "none"]

SemMove(t, from, to) ==
  /\ semPc[t] = from
  /\ semPc' = [semPc EXCEPT ![t] = to]

\* increment(1): sem_post, whose EOVERFLOW at SEM_VALUE_MAX is ignored.
Posted(value) == IF value < SemValueMax THEN value + 1 ELSE value

Increment(t) ==
  /\ semPc[t] = "out"
  /\ semValue' = Posted(semValue)
  /\ UNCHANGED <<abandoned, waiters, semPc, woke, semRes>>

-----------------------------------------------------------------------------
(* decrement *)

\* The first getAbandoned: a thread that sees TRUE fails without waiting.
DecrementRefused(t) ==
  /\ semPc[t] = "out"
  /\ abandoned
  /\ semRes' = [semRes EXCEPT ![t] = "FAILED"]
  /\ UNCHANGED <<semValue, abandoned, waiters, semPc, woke>>

\* Mutant: no look at _abandoned before the wait.
DecrementEnterAlways(t) ==
  /\ SemMove(t, "out", "entering")
  /\ semRes' = [semRes EXCEPT ![t] = "none"]
  /\ UNCHANGED <<semValue, abandoned, waiters, woke>>

DecrementEnter(t) ==
  /\ ~abandoned
  /\ SemMove(t, "out", "entering")
  /\ semRes' = [semRes EXCEPT ![t] = "none"]
  /\ UNCHANGED <<semValue, abandoned, waiters, woke>>

DecrementCount(t) ==
  /\ SemMove(t, "entering", "waiting")
  /\ waiters' = waiters + 1
  /\ UNCHANGED <<semValue, abandoned, woke, semRes>>

\* sem_wait takes a token ...
DecrementWake(t) ==
  /\ semValue > 0
  /\ SemMove(t, "waiting", "counted")
  /\ semValue' = semValue - 1
  /\ woke' = [woke EXCEPT ![t] = TRUE]
  /\ UNCHANGED <<abandoned, waiters, semRes>>

\* ... or a signal handler ran and it returns EINTR without one.
\* Mutant: take every return of sem_wait for a token.
DecrementInterruptedWoke(t) ==
  /\ SemMove(t, "waiting", "counted")
  /\ woke' = [woke EXCEPT ![t] = TRUE]
  /\ UNCHANGED <<semValue, abandoned, waiters, semRes>>

DecrementInterrupted(t) ==
  /\ SemMove(t, "waiting", "counted")
  /\ woke' = [woke EXCEPT ![t] = FALSE]
  /\ UNCHANGED <<semValue, abandoned, waiters, semRes>>

\* Mutant: lower _waiters twice, for the wait and for the token.
DecrementUncountTwice(t) ==
  /\ SemMove(t, "counted", "leaving")
  /\ waiters' = IF woke[t] THEN waiters - 2 ELSE waiters - 1
  /\ UNCHANGED <<semValue, abandoned, woke, semRes>>

DecrementUncount(t) ==
  /\ SemMove(t, "counted", "leaving")
  /\ waiters' = waiters - 1
  /\ UNCHANGED <<semValue, abandoned, woke, semRes>>

\* The second getAbandoned: once abandoned, even a token taken is a failure.
\* Mutant: no second look at _abandoned.
LeaveResultUnchecked(t) == IF woke[t] THEN "SUCCESS" ELSE "FAILED"

LeaveResult(t) == IF woke[t] /\ ~abandoned THEN "SUCCESS" ELSE "FAILED"

DecrementLeave(t) ==
  /\ SemMove(t, "leaving", "out")
  /\ semRes' = [semRes EXCEPT ![t] = LeaveResult(t)]
  /\ woke' = [woke EXCEPT ![t] = FALSE]
  /\ UNCHANGED <<semValue, abandoned, waiters>>

\* The steps of decrement between its two looks at _abandoned.
DecrementInner(t) ==
  \/ DecrementCount(t)
  \/ DecrementWake(t)
  \/ DecrementInterrupted(t)
  \/ DecrementUncount(t)

-----------------------------------------------------------------------------
(* abandon *)

\* setAbandoned
AbandonSet(t) ==
  /\ SemMove(t, "out", "abandoning")
  /\ abandoned' = TRUE
  /\ UNCHANGED <<semValue, waiters, woke, semRes>>

\* `while (_waiters > 0)': the read, and then the increment it decided.
AbandonAgain(t) ==
  /\ waiters > 0
  /\ SemMove(t, "abandoning", "posting")
  /\ UNCHANGED <<semValue, abandoned, waiters, woke, semRes>>

AbandonPost(t) ==
  /\ SemMove(t, "posting", "abandoning")
  /\ semValue' = Posted(semValue)
  /\ UNCHANGED <<abandoned, waiters, woke, semRes>>

AbandonDone(t) ==
  /\ waiters = 0
  /\ SemMove(t, "abandoning", "out")
  /\ UNCHANGED <<semValue, abandoned, waiters, woke, semRes>>

-----------------------------------------------------------------------------
(* The semaphore on its own: any thread calls any operation, in any order. *)

SemCall(t) ==
  \/ Increment(t)
  \/ DecrementRefused(t)
  \/ DecrementEnter(t)
  \/ AbandonSet(t)

SemStep(t) ==
  \/ DecrementInner(t)
  \/ DecrementLeave(t)
  \/ AbandonAgain(t)
  \/ AbandonPost(t)
  \/ AbandonDone(t)

SemNext == \E t \in Threads : SemCall(t) \/ SemStep(t)

SemSpec == SemInit /\ [][SemNext]_semVars

\* A thread that can run does; a blocked sem_wait needs a token, and the
\* kernel hands the tokens to the waiting threads.  Nobody must call, and no
\* signal must arrive.
SemThreadFairness(t) ==
  WF_semVars(\/ DecrementCount(t)
             \/ DecrementWake(t)
             \/ DecrementUncount(t)
             \/ DecrementLeave(t)
             \/ AbandonAgain(t)
             \/ AbandonPost(t)
             \/ AbandonDone(t))

SemFairSpec == SemSpec /\ \A t \in Threads : SemThreadFairness(t)

-----------------------------------------------------------------------------
(* Properties *)

Abandoning(t) == semPc[t] \in {"abandoning", "posting"}
InSemWait(t) == semPc[t] \in {"waiting", "counted"}

\* abandon trusts _waiters to be the number of threads at or behind sem_wait:
\* were it smaller abandon would leave somebody behind, were it larger abandon
\* would spin for ever.  (ThdSemaphore.cpp:91, 277, 295)
WaitersCounted == waiters = Cardinality({t \in Threads : InSemWait(t)})

\* A decrement never succeeds once the semaphore is abandoned, even when
\* abandon's own tokens, or old ones, satisfied its sem_wait: whatever stands
\* behind a SUCCESS was posted by a user.  (ThdSemaphore.cpp:297-300)
NoSuccessAfterAbandon ==
  [][\A t \in Threads :
       abandoned /\ semRes'[t] = "SUCCESS" => semRes[t] = "SUCCESS"]_semVars

\* abandon terminates: the tokens it posts make every counted thread leave
\* sem_wait and lower _waiters, and nobody can join them for ever because the
\* first getAbandoned turns callers away.  (ThdSemaphore.cpp:91-95)
AbandonReturns ==
  \A t \in Threads : Abandoning(t) ~> semPc[t] = "out"
=============================================================================
