------------------------------ MODULE ThdRWLock ------------------------------
(***************************************************************************)
(* ThdRWLock (src/src/thd/ThdRWLock.cpp) with the two kinds of client it   *)
(* has: code that looks at the result of acquire and stays out when it is  *)
(* false (test/thd/thdtest.cpp), and ThdAutoReadLock and ThdAutoWriteLock, *)
(* which ignore it (src/h/thd/ThdAutoLock.h).                              *)
(*                                                                         *)
(* _dataLock is a ThdSemaphore that nobody abandons: decrement takes a     *)
(* token, or fails when a signal handler interrupts it.  The steps made    *)
(* under _readLock are one step, except that the first reader waits for    *)
(* _dataLock with _readLock held.                                          *)
(***************************************************************************)
EXTENDS Integers, ThreadSet

CONSTANT
  MaxInterrupts  \* bound: how many waits a signal interrupts

ASSUME RWLockAssumption == MaxInterrupts \in Nat

VARIABLES
  readLock,    \* the owner of _readLock
  readCount,   \* _readCount
  dataLock,    \* the count of _dataLock
  rwPc,        \* where a thread is
  interrupts,  \* how many waits were interrupted
  autoLocks    \* do the clients ignore the result of acquire

rwVars == <<readLock, readCount, dataLock, rwPc, interrupts, autoLocks>>

(***************************************************************************)
(* rwPc:                                                                   *)
(* out       outside                                                       *)
(* first     in acquireReadLock as the first reader, waiting for _dataLock *)
(* reading   in the section that the read lock is to protect               *)
(* waiting   in acquireWriteLock                                           *)
(* writing   in the section that the write lock is to protect              *)
(***************************************************************************)
RWPcs == {"out", "first", "reading", "waiting", "writing"}

RWTypeOK ==
  /\ readLock \in Threads \cup {NoThread}
  /\ readCount \in Int
  /\ dataLock \in Nat
  /\ rwPc \in [Threads -> RWPcs]
  /\ interrupts \in 0..MaxInterrupts
  /\ autoLocks \in BOOLEAN

RWInit ==
  /\ readLock = NoThread
  /\ readCount = 0
  /\ dataLock = 1
  /\ rwPc = [t \in Threads |-> "out"]
  /\ interrupts = 0
  /\ autoLocks \in BOOLEAN

RWMove(t, from, to) ==
  /\ rwPc[t] = from
  /\ rwPc' = [rwPc EXCEPT ![t] = to]

-----------------------------------------------------------------------------
(* acquireReadLock *)

\* Mutant: the count is raised outside _readLock.
ReadJoinUnlocked(t) ==
  /\ readCount + 1 # 1
  /\ RWMove(t, "out", "reading")
  /\ readCount' = readCount + 1
  /\ UNCHANGED <<readLock, dataLock, interrupts, autoLocks>>

\* Not the first reader: `the readers have the data lock'.
ReadJoin(t) ==
  /\ readLock = NoThread
  /\ readCount + 1 # 1
  /\ RWMove(t, "out", "reading")
  /\ readCount' = readCount + 1
  /\ UNCHANGED <<readLock, dataLock, interrupts, autoLocks>>

ReadFirst(t) ==
  /\ readLock = NoThread
  /\ readCount + 1 = 1
  /\ RWMove(t, "out", "first")
  /\ readCount' = readCount + 1
  /\ readLock' = t
  /\ UNCHANGED <<dataLock, interrupts, autoLocks>>

ReadTake(t) ==
  /\ dataLock > 0
  /\ RWMove(t, "first", "reading")
  /\ dataLock' = dataLock - 1
  /\ readLock' = NoThread
  /\ UNCHANGED <<readCount, interrupts, autoLocks>>

\* The decrement failed: acquireReadLock returns false, _readCount stays.
ReadInterrupted(t) ==
  /\ interrupts < MaxInterrupts
  /\ RWMove(t, "first", IF autoLocks THEN "reading" ELSE "out")
  /\ interrupts' = interrupts + 1
  /\ readLock' = NoThread
  /\ UNCHANGED <<readCount, dataLock, autoLocks>>

\* Mutant: the old count is compared, and the token stays with nobody.
ReadReleaseOld(t) ==
  /\ readLock = NoThread
  /\ RWMove(t, "reading", "out")
  /\ readCount' = readCount - 1
  /\ dataLock' = IF readCount = 0 THEN dataLock + 1 ELSE dataLock
  /\ UNCHANGED <<readLock, interrupts, autoLocks>>

\* releaseReadLock
ReadRelease(t) ==
  /\ readLock = NoThread
  /\ RWMove(t, "reading", "out")
  /\ readCount' = readCount - 1
  /\ dataLock' = IF readCount - 1 = 0 THEN dataLock + 1 ELSE dataLock
  /\ UNCHANGED <<readLock, interrupts, autoLocks>>

-----------------------------------------------------------------------------
(* acquireWriteLock, releaseWriteLock *)

WriteWait(t) ==
  /\ RWMove(t, "out", "waiting")
  /\ UNCHANGED <<readLock, readCount, dataLock, interrupts, autoLocks>>

WriteTake(t) ==
  /\ dataLock > 0
  /\ RWMove(t, "waiting", "writing")
  /\ dataLock' = dataLock - 1
  /\ UNCHANGED <<readLock, readCount, interrupts, autoLocks>>

\* Mutant: acquireWriteLock does not pass the failure on.
WriteInterruptedEnters(t) ==
  /\ interrupts < MaxInterrupts
  /\ RWMove(t, "waiting", "writing")
  /\ interrupts' = interrupts + 1
  /\ UNCHANGED <<readLock, readCount, dataLock, autoLocks>>

WriteInterrupted(t) ==
  /\ interrupts < MaxInterrupts
  /\ RWMove(t, "waiting", IF autoLocks THEN "writing" ELSE "out")
  /\ interrupts' = interrupts + 1
  /\ UNCHANGED <<readLock, readCount, dataLock, autoLocks>>

WriteRelease(t) ==
  /\ RWMove(t, "writing", "out")
  /\ dataLock' = dataLock + 1
  /\ UNCHANGED <<readLock, readCount, interrupts, autoLocks>>

-----------------------------------------------------------------------------

RWNext ==
  \E t \in Threads :
    \/ ReadJoin(t)
    \/ ReadFirst(t)
    \/ ReadTake(t)
    \/ ReadInterrupted(t)
    \/ ReadRelease(t)
    \/ WriteWait(t)
    \/ WriteTake(t)
    \/ WriteInterrupted(t)
    \/ WriteRelease(t)

RWSpec == RWInit /\ [][RWNext]_rwVars

\* A thread whose token is there takes it, a reader or writer leaves its
\* section; a thread that wants _readLock to leave gets it in the end, since
\* the holders of a mutex take turns.  Nobody has to call acquire.
RWFairness(t) ==
  /\ WF_rwVars(ReadTake(t) \/ WriteTake(t) \/ WriteRelease(t))
  /\ SF_rwVars(ReadRelease(t))

RWFairSpec == RWSpec /\ \A t \in Threads : RWFairness(t)

-----------------------------------------------------------------------------
(* Properties *)

InRead == {t \in Threads : rwPc[t] = "reading"}
InFirst == {t \in Threads : rwPc[t] = "first"}
InWrite == {t \in Threads : rwPc[t] = "writing"}

\* A writer is alone: "acquireReadLock ... @return true if the read lock was
\* acquired" (ThdRWLock.cpp:76-80).  It is false once a signal interrupts the
\* wait of a first reader, which leaves _readCount raised: the next reader
\* joins, beside a writer.
LockExcludes == InWrite # {} => InRead = {} /\ Cardinality(InWrite) = 1

\* As long as no wait was interrupted it is true, however the readers take
\* turns in being the first and the last.  (ThdRWLock.cpp:81-108, 126-151)
Exclusion == interrupts = 0 => LockExcludes

\* The one token of _dataLock is in the semaphore, with the writer, or with
\* the readers as a group: it came in with the first of them and goes out with
\* the last, whoever that is.
TokenAccounted ==
  dataLock + Cardinality(InWrite) + (IF readCount > 0 /\ InFirst = {} THEN 1 ELSE 0) = 1

\* _readCount is the number of the threads that will call releaseReadLock; the
\* clients that ignore the result of acquire keep it so even when they are
\* interrupted, the others leave one behind.  (ThdRWLock.cpp:95-97)
Counted == readCount = Cardinality(InRead) + Cardinality(InFirst)
ReadersCounted == interrupts = 0 \/ autoLocks => Counted

\* Two writers are never in their sections together, even when interrupted
\* readers have left their _readCount behind, if the clients check the result.
WritersExclusive == ~autoLocks => dataLock + Cardinality(InWrite) <= 1

\* The wait of the first reader for _dataLock under _readLock cannot block the
\* thread that has to give the lock back: while somebody waits, somebody gets
\* in, or a signal handler runs.
SomebodyEnters ==
  interrupts = 0 /\ (\E t \in Threads : rwPc[t] \in {"first", "waiting"})
    ~> interrupts > 0 \/ \E t \in Threads : rwPc[t] \in {"reading", "writing"}

\* The inductive invariant.  Only a first reader holds _readLock; without
\* interruptions it is the only reader while it waits, and the token is where
\* TokenAccounted says.
RWInv ==
  /\ RWTypeOK
  /\ \A t \in Threads : rwPc[t] = "first" <=> readLock = t
  /\ interrupts = 0 =>
       /\ Counted
       /\ TokenAccounted
       /\ \A t \in Threads : rwPc[t] = "first" => readCount = 1
=============================================================================
