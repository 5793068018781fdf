--------------------------- MODULE ThdSyncProofs ----------------------------
(***************************************************************************)
(* Proofs about the event, the read-write lock, the scheduler and the heap *)
(* it keeps its schedule in, for any threads, any number of signals,       *)
(* interrupted waits and schedules, and any keys, values and operations.   *)
(***************************************************************************)
EXTENDS ThdEvent, ThdRWLock, ThdScheduler, Heap, FiniteSetTheorems,
        SequenceTheorems, WellFoundedInduction, TLAPS

-----------------------------------------------------------------------------
(* ThdEvent *)

\* NoLostSignal is not inductive for a manual event: a woken thread that leaves
\* lets the flag stay up.  There the notification itself is still to come, since
\* nobody goes to sleep on a raised flag.
BroadcastToCome ==
  manualReset /\ signalled /\ Asleep # {} =>
    \E t \in Threads : evPc[t] = "notifying"

EvInv ==
  /\ EvTypeOK
  /\ NoLostSignal
  /\ BroadcastToCome
  /\ OneReleasePerSignal

EvStep(t) ==
  \/ WaitSatisfied(t)
  \/ \E limit \in BOOLEAN : WaitSleep(t, limit)
  \/ WaitInvalid(t)
  \/ WakeSpurious(t)
  \/ Expire(t)
  \/ RecheckSatisfied(t)
  \/ RecheckSleep(t)
  \/ LeaveExpired(t)
  \/ SetFlag(t)
  \/ Notify(t)
  \/ Reset(t)

LEMMA EvNextSteps == EvNext <=> \E t \in Threads : EvStep(t)
  BY Zenon DEF EvNext, EvStep

LEMMA EvInitInv == EvInit => EvInv
  <1> SUFFICES ASSUME EvInit PROVE EvInv
    OBVIOUS
  <1>1. EvTypeOK
    <2>1. /\ signals \in 0..MaxSignals
          /\ releases \in Nat
          /\ evPc \in [Threads -> EvPcs]
          /\ evRes \in [Threads -> EvResults]
      BY EventAssumption DEF EvInit, EvPcs, EvResults
    <2>2. manualReset \in BOOLEAN /\ signalled \in BOOLEAN /\ timed \in [Threads -> BOOLEAN]
      BY Zenon DEF EvInit
    <2>3. QED
      BY <2>1, <2>2 DEF EvTypeOK
  <1>2. NoLostSignal /\ BroadcastToCome
    BY DEF EvInit, NoLostSignal, BroadcastToCome
  <1>3. OneReleasePerSignal
    BY DEF EvInit, OneReleasePerSignal
  <1>4. QED
    BY <1>1, <1>2, <1>3 DEF EvInv

-----------------------------------------------------------------------------
(* The types *)

LEMMA EvTypeStep ==
  ASSUME EvTypeOK, NEW t \in Threads, EvStep(t)
  PROVE  EvTypeOK'
  <1> USE EventAssumption DEF EvTypeOK, EvPcs, EvResults, EvMove
  <1>1. CASE WaitSatisfied(t)
    BY <1>1 DEF WaitSatisfied, TakeFlag
  <1>2. ASSUME NEW limit \in BOOLEAN, WaitSleep(t, limit)
        PROVE  EvTypeOK'
    BY <1>2 DEF WaitSleep
  <1>3. CASE WaitInvalid(t)
    BY <1>3 DEF WaitInvalid
  <1>4. CASE WakeSpurious(t)
    BY <1>4 DEF WakeSpurious
  <1>5. CASE Expire(t)
    BY <1>5 DEF Expire
  <1>6. CASE RecheckSatisfied(t)
    BY <1>6 DEF RecheckSatisfied, TakeFlag
  <1>7. CASE RecheckSleep(t)
    BY <1>7 DEF RecheckSleep
  <1>8. CASE LeaveExpired(t)
    BY <1>8 DEF LeaveExpired
  <1>9. CASE SetFlag(t)
    BY <1>9 DEF SetFlag
  <1>10. CASE Notify(t)
    BY <1>10 DEF Notify
  <1>11. CASE Reset(t)
    BY <1>11 DEF Reset
  <1>12. QED
    BY <1>1, <1>2, <1>3, <1>4, <1>5, <1>6, <1>7, <1>8, <1>9, <1>10, <1>11 DEF EvStep

-----------------------------------------------------------------------------
(* No lost signal *)

LEMMA EvSignalStep ==
  ASSUME EvInv, NEW t \in Threads, EvStep(t)
  PROVE  NoLostSignal' /\ BroadcastToCome'
  <1> USE DEF EvInv, EvTypeOK, EvPcs, EvMove, NoLostSignal, BroadcastToCome, Asleep
  <1>1. CASE WaitSatisfied(t)
    BY <1>1 DEF WaitSatisfied, TakeFlag
  <1>2. ASSUME NEW limit \in BOOLEAN, WaitSleep(t, limit)
        PROVE  NoLostSignal' /\ BroadcastToCome'
    BY <1>2 DEF WaitSleep
  <1>3. CASE WaitInvalid(t)
    BY <1>3 DEF WaitInvalid
  <1>4. CASE WakeSpurious(t)
    BY <1>4 DEF WakeSpurious
  <1>5. CASE Expire(t)
    BY <1>5 DEF Expire
  <1>6. CASE RecheckSatisfied(t)
    BY <1>6 DEF RecheckSatisfied, TakeFlag
  <1>7. CASE RecheckSleep(t)
    BY <1>7 DEF RecheckSleep
  <1>8. CASE LeaveExpired(t)
    BY <1>8 DEF LeaveExpired
  <1>9. CASE SetFlag(t)
    BY <1>9 DEF SetFlag
  <1>10. CASE Notify(t)
    <2>1. PICK woken \in NotifiedSets :
            evPc' = [u \in Threads |->
                       IF u = t THEN "out"
                       ELSE IF u \in woken THEN "woken" ELSE evPc[u]]
      BY <1>10 DEF Notify
    <2>2. manualReset' = manualReset /\ evPc[t] = "notifying"
      BY <1>10 DEF Notify
    <2>3. CASE manualReset
      <3>1. woken = Asleep
        BY <2>1, <2>3 DEF NotifiedSets
      <3>2. Asleep' = {}
        BY <2>1, <3>1
      <3>3. QED
        BY <3>2
    <2>4. CASE ~manualReset /\ Asleep = {}
      <3>1. Asleep' = {}
        BY <2>1, <2>4
      <3>2. QED
        BY <3>1
    <2>5. CASE ~manualReset /\ Asleep # {}
      <3>1. PICK u \in Asleep : woken = {u}
        BY <2>1, <2>5 DEF NotifiedSets
      <3>2. u \in Threads /\ evPc'[u] = "woken"
        BY <2>1, <2>2, <3>1
      <3>3. QED
        BY <2>2, <2>5, <3>2
    <2>6. QED
      BY <2>3, <2>4, <2>5
  <1>11. CASE Reset(t)
    BY <1>11 DEF Reset
  <1>12. QED
    BY <1>1, <1>2, <1>3, <1>4, <1>5, <1>6, <1>7, <1>8, <1>9, <1>10, <1>11 DEF EvStep

-----------------------------------------------------------------------------
(* One release for a signal *)

LEMMA EvReleaseStep ==
  ASSUME EvInv, NEW t \in Threads, EvStep(t)
  PROVE  OneReleasePerSignal'
  <1> USE DEF EvInv, EvTypeOK, OneReleasePerSignal
  <1>1. signals \in Nat /\ releases \in Nat
    BY EventAssumption
  <1>2. ASSUME TakeFlag(t), UNCHANGED <<manualReset, signals>>
        PROVE  OneReleasePerSignal'
    BY <1>2, <1>1 DEF TakeFlag
  <1>3. ASSUME UNCHANGED <<manualReset, signals, releases>>, signalled' => signalled
        PROVE  OneReleasePerSignal'
    BY <1>3, <1>1
  <1>4. CASE WaitSatisfied(t) \/ RecheckSatisfied(t)
    BY <1>4, <1>2 DEF WaitSatisfied, RecheckSatisfied
  <1>5. CASE SetFlag(t)
    BY <1>5, <1>1 DEF SetFlag
  <1>6. CASE Reset(t)
    BY <1>6, <1>3 DEF Reset
  <1>7. CASE UNCHANGED <<manualReset, signalled, signals, releases>>
    BY <1>7, <1>3
  <1>8. QED
    BY <1>4, <1>5, <1>6, <1>7
    DEF EvStep, WaitSleep, WaitInvalid, WakeSpurious, Expire, RecheckSleep,
        LeaveExpired, Notify

LEMMA EvStepInv == EvInv /\ [EvNext]_evVars => EvInv'
  <1>1. ASSUME EvInv, NEW t \in Threads, EvStep(t) PROVE EvInv'
    <2>1. EvTypeOK'
      BY <1>1, EvTypeStep DEF EvInv
    <2>2. NoLostSignal' /\ BroadcastToCome'
      BY <1>1, EvSignalStep
    <2>3. OneReleasePerSignal'
      BY <1>1, EvReleaseStep
    <2>4. QED
      BY <2>1, <2>2, <2>3 DEF EvInv
  <1>2. EvInv /\ UNCHANGED evVars => EvInv'
    BY DEF EvInv, EvTypeOK, NoLostSignal, BroadcastToCome, OneReleasePerSignal, Asleep, evVars
  <1>3. QED
    BY <1>1, <1>2, EvNextSteps

\* However threads sleep, expire, are woken and notified, a thread never
\* sleeps on a raised flag with no notification and no woken thread to come.
\* (ThdEvent.cpp:198-280)
THEOREM EvNoLostSignal == EvSpec => []NoLostSignal
  <1>1. EvInv => NoLostSignal
    BY DEF EvInv
  <1>2. QED
    BY <1>1, EvInitInv, EvStepInv, PTL DEF EvSpec

\* Every release of a thread from an automatic event has a signal of its own.
\* (ThdEvent.cpp:262)
THEOREM EvOneReleasePerSignal == EvSpec => []OneReleasePerSignal
  <1>1. EvInv => OneReleasePerSignal
    BY DEF EvInv
  <1>2. QED
    BY <1>1, EvInitInv, EvStepInv, PTL DEF EvSpec

-----------------------------------------------------------------------------
(* Refinement *)

LEMMA EvInitRefines == EvInit => EO!Init
  BY DEF EvInit, EO!Init, Waiting

\* Going to sleep, returning and giving up are steps of the abstract event,
\* what happens to a thread in between is not.
LEMMA EvStepRefines == EvTypeOK /\ [EvNext]_evVars => [EO!Next]_EO!eoVars
  <1>1. ASSUME EvTypeOK, NEW t \in Threads, EvStep(t)
        PROVE  [EO!Next]_EO!eoVars
    <2> USE <1>1 DEF EvTypeOK, EvPcs, EvMove
    <2>1. CASE WaitSatisfied(t)
      <3>1. Waiting' = Waiting \ {t}
        BY <2>1 DEF WaitSatisfied, Waiting
      <3>2. EO!Release(t)
        BY <2>1, <3>1 DEF WaitSatisfied, TakeFlag, EO!Release
      <3>3. QED
        BY <3>2 DEF EO!Next
    <2>2. ASSUME NEW limit \in BOOLEAN, WaitSleep(t, limit)
          PROVE  EO!Wait(t)
      <3>1. Waiting' = Waiting \cup {t}
        BY <2>2 DEF WaitSleep, Waiting
      <3>2. QED
        BY <2>2, <3>1 DEF WaitSleep, EO!Wait
    <2>3. CASE WaitInvalid(t)
      BY <2>3 DEF WaitInvalid, Waiting, EO!eoVars
    <2>4. CASE WakeSpurious(t) \/ Expire(t) \/ RecheckSleep(t)
      <3>1. Waiting' = Waiting
        BY <2>4 DEF WakeSpurious, Expire, RecheckSleep, Waiting
      <3>2. QED
        BY <2>4, <3>1 DEF WakeSpurious, Expire, RecheckSleep, EO!eoVars
    <2>5. CASE RecheckSatisfied(t)
      <3>1. Waiting' = Waiting \ {t}
        BY <2>5 DEF RecheckSatisfied, Waiting
      <3>2. EO!Release(t)
        BY <2>5, <3>1 DEF RecheckSatisfied, TakeFlag, EO!Release
      <3>3. QED
        BY <3>2 DEF EO!Next
    <2>6. CASE LeaveExpired(t)
      <3>1. Waiting' = Waiting \ {t}
        BY <2>6 DEF LeaveExpired, Waiting
      <3>2. EO!GiveUp(t)
        BY <2>6, <3>1 DEF LeaveExpired, EO!GiveUp
      <3>3. QED
        BY <3>2 DEF EO!Next
    <2>7. CASE SetFlag(t)
      <3>1. Waiting' = Waiting
        BY <2>7 DEF SetFlag, Waiting
      <3>2. QED
        BY <2>7, <3>1 DEF SetFlag, EO!Set, EO!Next
    <2>8. CASE Notify(t)
      <3>1. \A woken \in NotifiedSets : woken \subseteq Asleep
        BY DEF NotifiedSets
      <3>2. Waiting' = Waiting
        BY <2>8, <3>1 DEF Notify, Waiting, Asleep
      <3>3. QED
        BY <2>8, <3>2 DEF Notify, EO!eoVars
    <2>9. CASE Reset(t)
      BY <2>9 DEF Reset, Waiting, EO!Clear, EO!Next
    <2>10. QED
      BY <2>1, <2>2, <2>3, <2>4, <2>5, <2>6, <2>7, <2>8, <2>9 DEF EvStep, EO!Next
  <1>2. UNCHANGED evVars => UNCHANGED EO!eoVars
    BY DEF evVars, Waiting, EO!eoVars
  <1>3. QED
    BY <1>1, <1>2, EvNextSteps

\* The flag, the mutex and the condition variable together behave like the
\* event the class promises, for any threads.
THEOREM EvImplementsEventObject == EvSpec => ImplementsEventObject
  <1>1. EvInv => EvTypeOK
    BY DEF EvInv
  <1>2. QED
    BY <1>1, EvInitInv, EvStepInv, EvInitRefines, EvStepRefines, PTL
    DEF EvSpec, ImplementsEventObject, EO!Spec

-----------------------------------------------------------------------------
(* ThdRWLock *)

\* Exclusion is not inductive: that a reader who joins without _dataLock finds no
\* writer depends on where the token of _dataLock is, and that on _readCount being
\* the number of readers and on the first reader being alone while it waits.  RWInv
\* says all this.  The proof counts the threads at a place, before and after a
\* step.  When waits are interrupted, WritersInv still keeps writers apart.
At(pc, p) == {t \in Threads : pc[t] = p}
Num(pc, p) == Cardinality(At(pc, p))

LEMMA AtFinite ==
  ASSUME NEW pc, NEW p
  PROVE  /\ IsFiniteSet(At(pc, p))
         /\ Num(pc, p) \in Nat
         /\ Num(pc, p) = 0 <=> At(pc, p) = {}
  <1>1. At(pc, p) \subseteq Threads
    BY DEF At
  <1>2. QED
    BY <1>1, ThreadsAssumption, FS_Subset, FS_CardinalityType, FS_EmptySet DEF Num

\* Thread t goes from place a to place b.
Goes(pc, qc, t, a, b) == pc[t] = a /\ qc = [pc EXCEPT ![t] = b]

\* A thread that moves from one place to another is counted there instead.
LEMMA Moved ==
  ASSUME NEW pc \in [Threads -> RWPcs], NEW qc, NEW t \in Threads,
         NEW a, NEW b \in RWPcs, a # b, Goes(pc, qc, t, a, b)
  PROVE  /\ Num(qc, a) = Num(pc, a) - 1
         /\ Num(qc, b) = Num(pc, b) + 1
         /\ \A p \in RWPcs : p # a /\ p # b => Num(qc, p) = Num(pc, p)
  <1>1. At(qc, a) = At(pc, a) \ {t} /\ t \in At(pc, a)
    BY DEF At, Goes
  <1>2. At(qc, b) = At(pc, b) \cup {t} /\ t \notin At(pc, b)
    BY DEF At, Goes
  <1>3. \A p \in RWPcs : p # a /\ p # b => At(qc, p) = At(pc, p)
    BY DEF At, Goes
  <1>4. Num(qc, a) = Num(pc, a) - 1
    BY <1>1, AtFinite, FS_RemoveElement DEF Num
  <1>5. Num(qc, b) = Num(pc, b) + 1
    BY <1>2, AtFinite, FS_AddElement DEF Num
  <1>6. QED
    BY <1>3, <1>4, <1>5 DEF Num

-----------------------------------------------------------------------------
(* The invariant as arithmetic *)

\* c is _readCount, d the count of _dataLock, and there are nr readers,
\* nf first readers and nw writers.
Balanced(c, d, nr, nf, nw) ==
  /\ c = nr + nf
  /\ d + nw + (IF c > 0 /\ nf = 0 THEN 1 ELSE 0) = 1
  /\ nf > 0 => c = 1

BalancedAt(c, d, pc) == Balanced(c, d, Num(pc, "reading"), Num(pc, "first"), Num(pc, "writing"))

FirstAlone == \A t \in Threads : rwPc[t] = "first" => readCount = 1

LEMMA BalancedBefore ==
  Counted /\ TokenAccounted /\ FirstAlone <=> BalancedAt(readCount, dataLock, rwPc)
  <1>1. /\ Cardinality(InRead) = Num(rwPc, "reading")
        /\ Cardinality(InFirst) = Num(rwPc, "first")
        /\ Cardinality(InWrite) = Num(rwPc, "writing")
    BY DEF InRead, InFirst, InWrite, Num, At
  <1>2. InFirst = {} <=> Num(rwPc, "first") = 0
    BY AtFinite DEF InFirst, At
  <1>3. Num(rwPc, "first") > 0 <=> \E t \in Threads : rwPc[t] = "first"
    <2>1. Num(rwPc, "first") \in Nat
      BY AtFinite
    <2>2. At(rwPc, "first") # {} <=> \E t \in Threads : rwPc[t] = "first"
      BY DEF At
    <2>3. Num(rwPc, "first") = 0 <=> At(rwPc, "first") = {}
      BY AtFinite
    <2>4. QED
      BY <2>1, <2>2, <2>3
  <1>4. QED
    BY <1>1, <1>2, <1>3
    DEF Counted, TokenAccounted, FirstAlone, BalancedAt, Balanced

LEMMA BalancedAfter ==
  (Counted /\ TokenAccounted /\ FirstAlone)' <=> BalancedAt(readCount', dataLock', rwPc')
  <1>1. /\ Cardinality(InRead)' = Num(rwPc', "reading")
        /\ Cardinality(InFirst)' = Num(rwPc', "first")
        /\ Cardinality(InWrite)' = Num(rwPc', "writing")
    BY DEF InRead, InFirst, InWrite, Num, At
  <1>2. InFirst' = {} <=> Num(rwPc', "first") = 0
    BY AtFinite DEF InFirst, At
  <1>3. Num(rwPc', "first") > 0 <=> \E t \in Threads : rwPc'[t] = "first"
    <2>1. Num(rwPc', "first") \in Nat
      BY AtFinite
    <2>2. At(rwPc', "first") # {} <=> \E t \in Threads : rwPc'[t] = "first"
      BY DEF At
    <2>3. Num(rwPc', "first") = 0 <=> At(rwPc', "first") = {}
      BY AtFinite
    <2>4. QED
      BY <2>1, <2>2, <2>3
  <1>4. QED
    BY <1>1, <1>2, <1>3
    DEF Counted, TokenAccounted, FirstAlone, BalancedAt, Balanced

-----------------------------------------------------------------------------
(* RWInv is inductive *)

LEMMA RWInitInv == RWInit => RWInv
  <1> SUFFICES ASSUME RWInit PROVE RWInv
    OBVIOUS
  <1>1. RWTypeOK
    BY ThreadsAssumption, RWLockAssumption DEF RWInit, RWTypeOK, RWPcs
  <1>2. \A t \in Threads : rwPc[t] = "first" <=> readLock = t
    BY ThreadsAssumption DEF RWInit
  <1>3. \A p \in {"reading", "first", "writing"} : Num(rwPc, p) = 0
    <2>1. \A p \in {"reading", "first", "writing"} : At(rwPc, p) = {}
      BY DEF RWInit, At
    <2>2. QED
      BY <2>1, AtFinite
  <1>4. BalancedAt(readCount, dataLock, rwPc)
    BY <1>3 DEF RWInit, BalancedAt, Balanced
  <1>5. QED
    BY <1>1, <1>2, <1>4, BalancedBefore DEF FirstAlone, RWInv

\* Who holds _readLock, and the types, whatever is interrupted.
LEMMA RWTypeStep ==
  ASSUME RWInv, NEW t \in Threads,
         \/ ReadJoin(t) \/ ReadFirst(t) \/ ReadTake(t) \/ ReadInterrupted(t) \/ ReadRelease(t)
         \/ WriteWait(t) \/ WriteTake(t) \/ WriteInterrupted(t) \/ WriteRelease(t)
  PROVE  /\ RWTypeOK'
         /\ (\A u \in Threads : rwPc[u] = "first" <=> readLock = u)'
  <1> USE ThreadsAssumption, RWLockAssumption DEF RWInv, RWTypeOK, RWPcs, RWMove
  <1>1. CASE ReadJoin(t)
    BY <1>1 DEF ReadJoin
  <1>2. CASE ReadFirst(t)
    BY <1>2 DEF ReadFirst
  <1>3. CASE ReadTake(t)
    BY <1>3 DEF ReadTake
  <1>4. CASE ReadInterrupted(t)
    BY <1>4 DEF ReadInterrupted
  <1>5. CASE ReadRelease(t)
    BY <1>5 DEF ReadRelease
  <1>6. CASE WriteWait(t)
    BY <1>6 DEF WriteWait
  <1>7. CASE WriteTake(t)
    BY <1>7 DEF WriteTake
  <1>8. CASE WriteInterrupted(t)
    BY <1>8 DEF WriteInterrupted
  <1>9. CASE WriteRelease(t)
    BY <1>9 DEF WriteRelease
  <1>10. QED
    BY <1>1, <1>2, <1>3, <1>4, <1>5, <1>6, <1>7, <1>8, <1>9

\* The readers and the token, as long as nothing was interrupted.
LEMMA RWCountStep ==
  ASSUME RWInv, interrupts' = 0, NEW t \in Threads,
         \/ ReadJoin(t) \/ ReadFirst(t) \/ ReadTake(t) \/ ReadInterrupted(t) \/ ReadRelease(t)
         \/ WriteWait(t) \/ WriteTake(t) \/ WriteInterrupted(t) \/ WriteRelease(t)
  PROVE  BalancedAt(readCount', dataLock', rwPc')
  <1> DEFINE nr == Num(rwPc, "reading")
             nf == Num(rwPc, "first")
             nw == Num(rwPc, "writing")
             mr == Num(rwPc', "reading")
             mf == Num(rwPc', "first")
             mw == Num(rwPc', "writing")
  <1>1. /\ nr \in Nat /\ nf \in Nat /\ nw \in Nat
        /\ mr \in Nat /\ mf \in Nat /\ mw \in Nat
    BY AtFinite
  <1>2. /\ rwPc \in [Threads -> RWPcs] /\ readCount \in Int /\ dataLock \in Nat
        /\ interrupts \in Nat
    BY RWLockAssumption DEF RWInv, RWTypeOK
  <1>3. readLock = NoThread => nf = 0
    <2>1. readLock = NoThread => At(rwPc, "first") = {}
      BY ThreadsAssumption DEF RWInv, At
    <2>2. nf = 0 <=> At(rwPc, "first") = {}
      BY AtFinite
    <2>3. QED
      BY <2>1, <2>2
  <1>4. interrupts = 0 => Balanced(readCount, dataLock, nr, nf, nw)
    BY BalancedBefore DEF RWInv, FirstAlone, BalancedAt
  <1>5. ASSUME NEW a \in RWPcs, NEW b \in RWPcs, a # b, RWMove(t, a, b)
        PROVE  /\ Num(rwPc', a) = Num(rwPc, a) - 1
               /\ Num(rwPc', b) = Num(rwPc, b) + 1
               /\ \A p \in RWPcs : p # a /\ p # b => Num(rwPc', p) = Num(rwPc, p)
    <2>1. Goes(rwPc, rwPc', t, a, b)
      BY <1>5 DEF RWMove, Goes
    <2>2. QED
      BY <1>5, <1>2, <2>1, Moved
  <1>6. RWPcs = {"out", "first", "reading", "waiting", "writing"}
    BY DEF RWPcs
  <1> SUFFICES Balanced(readCount', dataLock', mr, mf, mw)
    BY DEF BalancedAt
  <1> HIDE DEF nr, nf, nw, mr, mf, mw
  <1>7. CASE ReadJoin(t)
    <2>1. mr = nr + 1 /\ mf = nf /\ mw = nw
      BY <1>7, <1>5, <1>6 DEF ReadJoin, nr, nf, nw, mr, mf, mw
    <2>2. QED
      BY <1>7, <1>1, <1>2, <1>3, <1>4, <2>1 DEF ReadJoin, Balanced
  <1>8. CASE ReadFirst(t)
    <2>1. mr = nr /\ mf = nf + 1 /\ mw = nw
      BY <1>8, <1>5, <1>6 DEF ReadFirst, nr, nf, nw, mr, mf, mw
    <2>2. QED
      BY <1>8, <1>1, <1>2, <1>3, <1>4, <2>1 DEF ReadFirst, Balanced
  <1>9. CASE ReadTake(t)
    <2>1. mr = nr + 1 /\ mf = nf - 1 /\ mw = nw
      BY <1>9, <1>5, <1>6 DEF ReadTake, nr, nf, nw, mr, mf, mw
    <2>2. QED
      BY <1>9, <1>1, <1>2, <1>4, <2>1 DEF ReadTake, Balanced
  <1>10. CASE ReadInterrupted(t) \/ WriteInterrupted(t)
    BY <1>10, <1>2 DEF ReadInterrupted, WriteInterrupted
  <1>11. CASE ReadRelease(t)
    <2>1. mr = nr - 1 /\ mf = nf /\ mw = nw
      BY <1>11, <1>5, <1>6 DEF ReadRelease, nr, nf, nw, mr, mf, mw
    <2>2. QED
      BY <1>11, <1>1, <1>2, <1>3, <1>4, <2>1 DEF ReadRelease, Balanced
  <1>12. CASE WriteWait(t)
    <2>1. mr = nr /\ mf = nf /\ mw = nw
      BY <1>12, <1>5, <1>6 DEF WriteWait, nr, nf, nw, mr, mf, mw
    <2>2. QED
      BY <1>12, <1>4, <2>1 DEF WriteWait
  <1>13. CASE WriteTake(t)
    <2>1. mr = nr /\ mf = nf /\ mw = nw + 1
      BY <1>13, <1>5, <1>6 DEF WriteTake, nr, nf, nw, mr, mf, mw
    <2>2. QED
      BY <1>13, <1>1, <1>2, <1>4, <2>1 DEF WriteTake, Balanced
  <1>14. CASE WriteRelease(t)
    <2>1. mr = nr /\ mf = nf /\ mw = nw - 1
      BY <1>14, <1>5, <1>6 DEF WriteRelease, nr, nf, nw, mr, mf, mw
    <2>2. QED
      BY <1>14, <1>1, <1>2, <1>4, <2>1 DEF WriteRelease, Balanced
  <1>15. QED
    BY <1>7, <1>8, <1>9, <1>10, <1>11, <1>12, <1>13, <1>14

LEMMA RWStepInv == RWInv /\ [RWNext]_rwVars => RWInv'
  <1>1. ASSUME RWInv, NEW t \in Threads,
               \/ ReadJoin(t) \/ ReadFirst(t) \/ ReadTake(t) \/ ReadInterrupted(t)
               \/ ReadRelease(t) \/ WriteWait(t) \/ WriteTake(t) \/ WriteInterrupted(t)
               \/ WriteRelease(t)
        PROVE  RWInv'
    <2>1. RWTypeOK' /\ (\A u \in Threads : rwPc[u] = "first" <=> readLock = u)'
      BY <1>1, RWTypeStep
    <2>2. interrupts' = 0 => (Counted /\ TokenAccounted /\ FirstAlone)'
      BY <1>1, RWCountStep, BalancedAfter
    <2>3. QED
      BY <2>1, <2>2 DEF RWInv, FirstAlone
  <1>2. RWInv /\ UNCHANGED rwVars => RWInv'
    BY DEF RWInv, RWTypeOK, Counted, TokenAccounted, InRead, InFirst, InWrite, rwVars
  <1>3. QED
    BY <1>1, <1>2 DEF RWNext

-----------------------------------------------------------------------------

\* With the token accounted for, a writer leaves none for the readers.
LEMMA RWInvExcludes == RWInv => Exclusion
  <1> SUFFICES ASSUME RWInv, interrupts = 0, InWrite # {}
               PROVE  InRead = {} /\ Cardinality(InWrite) = 1
    BY DEF Exclusion, LockExcludes
  <1> DEFINE nr == Num(rwPc, "reading")
             nf == Num(rwPc, "first")
             nw == Num(rwPc, "writing")
  <1>1. nr \in Nat /\ nf \in Nat /\ nw \in Nat /\ dataLock \in Nat /\ readCount \in Int
    BY AtFinite DEF RWInv, RWTypeOK
  <1>2. Balanced(readCount, dataLock, nr, nf, nw)
    BY BalancedBefore DEF RWInv, FirstAlone, BalancedAt
  <1>3. InWrite = At(rwPc, "writing") /\ InRead = At(rwPc, "reading")
    BY DEF InWrite, InRead, At
  <1>4. nw # 0 /\ (nr = 0 <=> InRead = {}) /\ nw = Cardinality(InWrite)
    BY <1>3, AtFinite DEF Num
  <1> HIDE DEF nr, nf, nw
  <1>5. nw = 1 /\ (IF readCount > 0 /\ nf = 0 THEN 1 ELSE 0) = 0
    BY <1>1, <1>2, <1>4 DEF Balanced
  <1>6. nr = 0
    BY <1>1, <1>2, <1>5 DEF Balanced
  <1>7. QED
    BY <1>4, <1>5, <1>6

\* As long as no wait was interrupted, a writer is in its section alone, for
\* any number of threads.  (ThdRWLock.cpp:81-151)
THEOREM RWExclusion == RWSpec => []Exclusion
  <1>1. RWInit => RWInv
    BY RWInitInv
  <1>2. RWInv /\ [RWNext]_rwVars => RWInv'
    BY RWStepInv
  <1>3. RWInv => Exclusion
    BY RWInvExcludes
  <1>4. QED
    BY <1>1, <1>2, <1>3, PTL DEF RWSpec
-----------------------------------------------------------------------------
(* Writers, when waits are interrupted and the clients check the result *)

\* An interrupted first reader leaves the count above the number of readers,
\* and then it never comes down to 0: nobody gives back a token that nobody
\* took.  Until then the readers have the token when there are any.
Covered(c, d, nr, nf, nw) ==
  /\ c >= nr + nf
  /\ nf > 0 => c = 1
  /\ d + nw + (IF c > 0 /\ c = nr THEN 1 ELSE 0) <= 1

CoveredAt(c, d, pc) == Covered(c, d, Num(pc, "reading"), Num(pc, "first"), Num(pc, "writing"))

WritersInv == ~autoLocks => CoveredAt(readCount, dataLock, rwPc)

LEMMA WritersStep ==
  ASSUME RWInv, WritersInv, ~autoLocks, NEW t \in Threads,
         \/ ReadJoin(t) \/ ReadFirst(t) \/ ReadTake(t) \/ ReadInterrupted(t) \/ ReadRelease(t)
         \/ WriteWait(t) \/ WriteTake(t) \/ WriteInterrupted(t) \/ WriteRelease(t)
  PROVE  CoveredAt(readCount', dataLock', rwPc')
  <1> DEFINE nr == Num(rwPc, "reading")
             nf == Num(rwPc, "first")
             nw == Num(rwPc, "writing")
             mr == Num(rwPc', "reading")
             mf == Num(rwPc', "first")
             mw == Num(rwPc', "writing")
  <1>1. /\ nr \in Nat /\ nf \in Nat /\ nw \in Nat
        /\ mr \in Nat /\ mf \in Nat /\ mw \in Nat
    BY AtFinite
  <1>2. rwPc \in [Threads -> RWPcs] /\ readCount \in Int /\ dataLock \in Nat
    BY RWLockAssumption DEF RWInv, RWTypeOK
  <1>3. readLock = NoThread => nf = 0
    <2>1. readLock = NoThread => At(rwPc, "first") = {}
      BY ThreadsAssumption DEF RWInv, At
    <2>2. nf = 0 <=> At(rwPc, "first") = {}
      BY AtFinite
    <2>3. QED
      BY <2>1, <2>2
  <1>4. Covered(readCount, dataLock, nr, nf, nw)
    BY DEF WritersInv, CoveredAt
  <1>5. ASSUME NEW a \in RWPcs, NEW b \in RWPcs, a # b, RWMove(t, a, b)
        PROVE  /\ Num(rwPc', a) = Num(rwPc, a) - 1
               /\ Num(rwPc', b) = Num(rwPc, b) + 1
               /\ \A p \in RWPcs : p # a /\ p # b => Num(rwPc', p) = Num(rwPc, p)
    <2>1. Goes(rwPc, rwPc', t, a, b)
      BY <1>5 DEF RWMove, Goes
    <2>2. QED
      BY <1>5, <1>2, <2>1, Moved
  <1>6. RWPcs = {"out", "first", "reading", "waiting", "writing"}
    BY DEF RWPcs
  <1> SUFFICES Covered(readCount', dataLock', mr, mf, mw)
    BY DEF CoveredAt
  <1> HIDE DEF nr, nf, nw, mr, mf, mw
  <1>7. CASE ReadJoin(t)
    <2>1. mr = nr + 1 /\ mf = nf /\ mw = nw
      BY <1>7, <1>5, <1>6 DEF ReadJoin, nr, nf, nw, mr, mf, mw
    <2>2. QED
      BY <1>7, <1>1, <1>2, <1>3, <1>4, <2>1 DEF ReadJoin, Covered
  <1>8. CASE ReadFirst(t)
    <2>1. mr = nr /\ mf = nf + 1 /\ mw = nw
      BY <1>8, <1>5, <1>6 DEF ReadFirst, nr, nf, nw, mr, mf, mw
    <2>2. QED
      BY <1>8, <1>1, <1>2, <1>3, <1>4, <2>1 DEF ReadFirst, Covered
  <1>9. CASE ReadTake(t)
    <2>1. mr = nr + 1 /\ mf = nf - 1 /\ mw = nw
      BY <1>9, <1>5, <1>6 DEF ReadTake, nr, nf, nw, mr, mf, mw
    <2>2. QED
      BY <1>9, <1>1, <1>2, <1>4, <2>1 DEF ReadTake, Covered
  <1>10. CASE ReadInterrupted(t)
    <2>1. mr = nr /\ mf = nf - 1 /\ mw = nw
      BY <1>10, <1>5, <1>6 DEF ReadInterrupted, nr, nf, nw, mr, mf, mw
    <2>2. QED
      BY <1>10, <1>1, <1>2, <1>4, <2>1 DEF ReadInterrupted, Covered
  <1>11. CASE ReadRelease(t)
    <2>1. mr = nr - 1 /\ mf = nf /\ mw = nw
      BY <1>11, <1>5, <1>6 DEF ReadRelease, nr, nf, nw, mr, mf, mw
    <2>2. QED
      BY <1>11, <1>1, <1>2, <1>3, <1>4, <2>1 DEF ReadRelease, Covered
  <1>12. CASE WriteWait(t)
    <2>1. mr = nr /\ mf = nf /\ mw = nw
      BY <1>12, <1>5, <1>6 DEF WriteWait, nr, nf, nw, mr, mf, mw
    <2>2. QED
      BY <1>12, <1>4, <2>1 DEF WriteWait
  <1>13. CASE WriteTake(t)
    <2>1. mr = nr /\ mf = nf /\ mw = nw + 1
      BY <1>13, <1>5, <1>6 DEF WriteTake, nr, nf, nw, mr, mf, mw
    <2>2. QED
      BY <1>13, <1>1, <1>2, <1>4, <2>1 DEF WriteTake, Covered
  <1>14. CASE WriteInterrupted(t)
    <2>1. mr = nr /\ mf = nf /\ mw = nw
      BY <1>14, <1>5, <1>6 DEF WriteInterrupted, nr, nf, nw, mr, mf, mw
    <2>2. QED
      BY <1>14, <1>4, <2>1 DEF WriteInterrupted
  <1>15. CASE WriteRelease(t)
    <2>1. mr = nr /\ mf = nf /\ mw = nw - 1
      BY <1>15, <1>5, <1>6 DEF WriteRelease, nr, nf, nw, mr, mf, mw
    <2>2. QED
      BY <1>15, <1>1, <1>2, <1>4, <2>1 DEF WriteRelease, Covered
  <1>16. QED
    BY <1>7, <1>8, <1>9, <1>10, <1>11, <1>12, <1>13, <1>14, <1>15

\* Nothing changes how the clients lock.
LEMMA AutoLocksStay == [RWNext]_rwVars => autoLocks' = autoLocks
  BY DEF RWNext, ReadJoin, ReadFirst, ReadTake, ReadInterrupted, ReadRelease, WriteWait,
         WriteTake, WriteInterrupted, WriteRelease, rwVars

\* Two writers are never in their sections together, and none is in one while
\* the token is in _dataLock, however many waits were interrupted, when the
\* clients check what acquire returns.  (ThdRWLock.cpp:88-97, 155-185)
THEOREM RWWritersExclusive == RWSpec => []WritersExclusive
  <1>1. RWInit => RWInv /\ WritersInv
    <2>1. RWInit => \A p \in {"reading", "first", "writing"} : At(rwPc, p) = {}
      BY DEF RWInit, At
    <2>2. RWInit => \A p \in {"reading", "first", "writing"} : Num(rwPc, p) = 0
      BY <2>1, AtFinite
    <2>3. QED
      BY <2>2, RWInitInv DEF RWInit, WritersInv, CoveredAt, Covered
  <1>2. RWInv /\ WritersInv /\ [RWNext]_rwVars => RWInv' /\ WritersInv'
    <2> SUFFICES ASSUME RWInv, WritersInv, [RWNext]_rwVars, ~autoLocks
                 PROVE  CoveredAt(readCount', dataLock', rwPc')
      BY RWStepInv, AutoLocksStay DEF WritersInv
    <2>1. CASE RWNext
      BY <2>1, WritersStep DEF RWNext
    <2>2. CASE UNCHANGED rwVars
      BY <2>2 DEF rwVars, WritersInv
    <2>3. QED
      BY <2>1, <2>2
  <1>3. RWInv /\ WritersInv => WritersExclusive
    <2> SUFFICES ASSUME RWInv, Covered(readCount, dataLock, Num(rwPc, "reading"),
                                       Num(rwPc, "first"), Num(rwPc, "writing"))
                 PROVE  dataLock + Cardinality(InWrite) <= 1
      BY DEF WritersInv, CoveredAt, WritersExclusive
    <2>1. Cardinality(InWrite) = Num(rwPc, "writing")
      BY DEF InWrite, Num, At
    <2>2. Num(rwPc, "writing") \in Nat /\ dataLock \in Nat
      BY AtFinite DEF RWInv, RWTypeOK
    <2>3. QED
      BY <2>1, <2>2 DEF Covered
  <1>4. QED
    BY <1>1, <1>2, <1>3, PTL DEF RWSpec

-----------------------------------------------------------------------------
(* ThdScheduler *)

\* TimerCoversHead is inductive together with the types: an item that is added
\* without a signal is not before some other item, and the scheduler's own look at
\* the heap finds the earliest one.

-----------------------------------------------------------------------------
(* The heap *)

IsHeap(h) ==
  /\ DOMAIN h \subseteq Items
  /\ \A x \in DOMAIN h : h[x] \in Times

LEMMA BeforeOrders ==
  ASSUME NEW h, IsHeap(h), priority \in Priorities
  PROVE  /\ \A x \in DOMAIN h : ~Before(h, x, x)
         /\ \A x, y, z \in DOMAIN h : Before(h, x, y) /\ Before(h, y, z) => Before(h, x, z)
         /\ \A x, y \in DOMAIN h : ~Before(h, x, y) => h[y] <= h[x]
  <1>1. \A x \in DOMAIN h : h[x] \in Int /\ priority[x] \in Nat
    BY SchedulerAssumption DEF IsHeap, Times
  <1>2. QED
    BY <1>1 DEF Before

\* A heap that is not empty has a head.  The set of the items before an item,
\* taken for the item where it is smallest, is empty.
LEMMA HeadExists ==
  ASSUME NEW h, IsHeap(h), DOMAIN h # {}, priority \in Priorities
  PROVE  Heads(h) # {}
  <1> DEFINE I == DOMAIN h
             Above(x) == {y \in I : Before(h, y, x)}
             T == {Above(x) : x \in I}
  <1>1. IsFiniteSet(I)
    BY SchedulerAssumption, FS_Subset DEF IsHeap
  <1>2. IsWellFoundedOn(StrictSubsetOrdering(I), SUBSET I)
    BY <1>1, FS_StrictSubsetOrderingWellFounded, FS_FiniteSubsetsOfFinite
  <1>3. T \subseteq SUBSET I /\ T # {}
    OBVIOUS
  <1>4. PICK S \in T : \A U \in T : ~ (<<U, S>> \in StrictSubsetOrdering(I))
    BY <1>2, <1>3, WFMin
  <1>5. PICK x \in I : S = Above(x)
    BY <1>4
  <1>6. Above(x) = {}
    <2> SUFFICES ASSUME NEW y \in Above(x) PROVE FALSE
      OBVIOUS
    <2>1. y \in I /\ Before(h, y, x)
      OBVIOUS
    <2>2. Above(y) \subseteq Above(x)
      BY <2>1, BeforeOrders
    <2>3. y \notin Above(y) /\ y \in Above(x)
      BY <2>1, BeforeOrders
    <2>4. Above(y) # S /\ Above(y) \subseteq S
      BY <1>5, <2>2, <2>3
    <2>5. <<Above(y), S>> \in StrictSubsetOrdering(I)
      BY <1>3, <1>4, <2>1, <2>4 DEF StrictSubsetOrdering
    <2>6. QED
      BY <1>4, <2>1, <2>5
  <1>7. x \in Heads(h)
    BY <1>6 DEF Heads
  <1>8. QED
    BY <1>7

\* No entry is earlier than a head.
LEMMA HeadEarliest ==
  ASSUME NEW h, IsHeap(h), priority \in Priorities, NEW x \in Heads(h), NEW y \in DOMAIN h
  PROVE  x \in DOMAIN h /\ h[x] <= h[y]
  BY BeforeOrders DEF Heads

\* An entry that is not the only head is not before some other one.
LEMMA NotHeadCovered ==
  ASSUME NEW h, IsHeap(h), priority \in Priorities, NEW x \in DOMAIN h, Heads(h) # {x}
  PROVE  \E y \in DOMAIN h : y # x /\ h[y] <= h[x]
  <1>1. CASE x \notin Heads(h)
    <2>1. PICK y \in DOMAIN h : Before(h, y, x)
      BY <1>1 DEF Heads
    <2>2. y # x /\ h[y] <= h[x]
      BY <2>1, BeforeOrders, SchedulerAssumption DEF Before, IsHeap, Times
    <2>3. QED
      BY <2>2
  <1>2. CASE x \in Heads(h)
    <2>1. PICK y \in Heads(h) : y # x
      BY <1>2
    <2>2. QED
      BY <2>1, HeadEarliest DEF Heads
  <1>3. QED
    BY <1>1, <1>2

-----------------------------------------------------------------------------
(* The types *)

LEMMA SchedInitType == Init => TypeOK
  <1> SUFFICES ASSUME Init PROVE TypeOK
    OBVIOUS
  <1> USE SchedulerAssumption
  <1>1. /\ priority \in Priorities /\ DOMAIN pq \subseteq Items
        /\ \A x \in DOMAIN pq : pq[x] \in Times
        /\ schedPc \in SchedPcs /\ reqs \in Seq(Items)
        /\ work \in [Workers -> Items \cup {Idle, Exited}]
    BY DEF Init, SchedPcs
  <1>2. /\ clock \in Times /\ drainedAt \in Times /\ adds \in 0..MaxAdds
        /\ nextWake \in Times \cup {WaitInfinite} /\ wakeAt \in Times \cup {WaitInfinite}
    BY DEF Init, Times
  <1>3. sig \in BOOLEAN /\ down \in BOOLEAN
    BY DEF Init
  <1>4. QED
    BY <1>1, <1>2, <1>3 DEF TypeOK

LEMMA TypeIsHeap == TypeOK => IsHeap(pq) /\ priority \in Priorities
  BY DEF TypeOK, IsHeap

LEMMA InsertType ==
  ASSUME TypeOK, NEW x \in Items, NEW time \in Times, Insert(x, time)
  PROVE  /\ DOMAIN pq' \subseteq Items
         /\ \A y \in DOMAIN pq' : pq'[y] \in Times
         /\ sig' \in BOOLEAN
  <1>1. CASE down \/ x \in DOMAIN pq
    BY <1>1 DEF Insert, TypeOK
  <1>2. CASE ~(down \/ x \in DOMAIN pq)
    <2>1. pq' = [y \in DOMAIN pq \cup {x} |-> IF y = x THEN time ELSE pq[y]]
      BY <1>2 DEF Insert
    <2>2. PICK wake \in MayBeHead(pq', x) : sig' = (sig \/ wake)
      BY <1>2 DEF Insert
    <2>3. sig' \in BOOLEAN
      BY <2>2 DEF MayBeHead
    <2>4. QED
      BY <2>1, <2>3 DEF TypeOK
  <1>3. QED
    BY <1>1, <1>2

LEMMA PopOrdersType ==
  ASSUME TypeOK, NEW order \in PopOrders
  PROVE  order \in Seq(Items)
  <1>1. Due \subseteq Items /\ IsFiniteSet(Due)
    BY SchedulerAssumption, FS_Subset DEF Due, TypeOK
  <1>2. Cardinality(Due) \in Nat
    BY <1>1, FS_CardinalityType
  <1>3. order \in [1..Cardinality(Due) -> Due]
    BY DEF PopOrders, SetToSeqs
  <1>4. order \in Seq(Due)
    BY <1>2, <1>3
  <1>5. QED
    BY <1>1, <1>3, <1>2

\* What the scheduler thread finds when it looks at the heap.
LEMMA DrainFinds ==
  ASSUME TypeOK, SchedDrain
  PROVE  /\ DOMAIN pq' = DOMAIN pq \ Due
         /\ \A x \in DOMAIN pq' : pq'[x] = pq[x] /\ pq[x] > clock
         /\ DOMAIN pq' # {} =>
              \E h \in DOMAIN pq' :
                /\ nextWake' = pq[h] - clock
                /\ \A x \in DOMAIN pq' : pq[h] <= pq[x]
  <1>1. pq' = [x \in DOMAIN pq \ Due |-> pq[x]]
    BY DEF SchedDrain, Restrict
  <1>2. \A x \in DOMAIN pq' : pq'[x] = pq[x] /\ pq[x] > clock
    BY <1>1, SchedulerAssumption DEF Due, TypeOK, Times
  <1>3. IsHeap(pq')
    BY <1>1 DEF IsHeap, TypeOK
  <1>4. ASSUME DOMAIN pq' # {}
        PROVE  \E h \in DOMAIN pq' :
                 /\ nextWake' = pq[h] - clock
                 /\ \A x \in DOMAIN pq' : pq[h] <= pq[x]
    <2> DEFINE h == CHOOSE x \in Heads(pq') : TRUE
    <2>1. Heads(pq') # {}
      BY <1>3, <1>4, HeadExists DEF TypeOK
    <2>2. h \in Heads(pq')
      BY <2>1
    <2>3. nextWake' = pq[h] - clock
      BY <1>4 DEF SchedDrain
    <2> HIDE DEF h
    <2>4. h \in DOMAIN pq' /\ \A x \in DOMAIN pq' : pq'[h] <= pq'[x]
      BY <1>3, <2>2, HeadEarliest DEF TypeOK, Heads
    <2>5. QED
      BY <1>2, <2>3, <2>4
  <1>5. QED
    BY <1>1, <1>2, <1>4

LEMMA SchedTypeStep == TypeOK /\ [Next]_vars => TypeOK'
  <1> SUFFICES ASSUME TypeOK, [Next]_vars PROVE TypeOK'
    OBVIOUS
  <1> USE SchedulerAssumption
  <1>1. CASE Tick
    BY <1>1 DEF Tick, TypeOK, Times, schedVars
  <1>2. ASSUME NEW x \in Items, NEW time \in Times, Add(x, time) PROVE TypeOK'
    BY <1>2, InsertType DEF Add, TypeOK, schedVars
  <1>3. ASSUME NEW x \in Items, RemoveItem(x) PROVE TypeOK'
    <2>1. sig' \in BOOLEAN
      BY <1>3 DEF RemoveItem, MayBeHead
    <2>2. DOMAIN pq' \subseteq Items /\ \A y \in DOMAIN pq' : pq'[y] \in Times
      BY <1>3 DEF RemoveItem, Without, Restrict, TypeOK
    <2>3. QED
      BY <1>3, <2>1, <2>2 DEF RemoveItem, TypeOK, schedVars
  <1>4. ASSUME NEW x \in Items, Signal(x) PROVE TypeOK'
    BY <1>4 DEF Signal, TypeOK, schedVars
  <1>5. CASE SchedTakeSignal
    BY <1>5 DEF SchedTakeSignal, TypeOK, SchedPcs
  <1>6. CASE SchedSleep
    BY <1>6 DEF SchedSleep, TypeOK, SchedPcs, Earlier, Times, WaitInfinite
  <1>7. CASE SchedFail
    BY <1>7 DEF SchedFail, TypeOK, SchedPcs
  <1>8. CASE SchedTimeout
    BY <1>8 DEF SchedTimeout, TypeOK, SchedPcs
  <1>9. CASE SchedDrain
    <2>1. reqs' \in Seq(Items)
      BY <1>9, PopOrdersType DEF SchedDrain, TypeOK
    <2>2. DOMAIN pq' \subseteq Items /\ \A y \in DOMAIN pq' : pq'[y] \in Times
      BY <1>9, DrainFinds DEF TypeOK
    <2>3. nextWake' \in Times \cup {WaitInfinite}
      <3>1. CASE DOMAIN pq' = {}
        BY <1>9, <3>1 DEF SchedDrain
      <3>2. CASE DOMAIN pq' # {}
        BY <1>9, <2>2, <3>2, DrainFinds DEF TypeOK, Times
      <3>3. QED
        BY <3>1, <3>2
    <2>4. QED
      BY <1>9, <2>1, <2>2, <2>3 DEF SchedDrain, TypeOK, SchedPcs
  <1>10. CASE SchedExit
    BY <1>10 DEF SchedExit, TypeOK, SchedPcs
  <1>11. ASSUME NEW w \in Workers, WorkerTake(w) PROVE TypeOK'
    <2>1. Head(reqs) \in Items /\ Tail(reqs) \in Seq(Items)
      BY <1>11 DEF WorkerTake, TypeOK
    <2>2. QED
      BY <1>11, <2>1 DEF WorkerTake, TypeOK, schedVars
  <1>12. ASSUME NEW w \in Workers, NEW time \in Times, WorkerReschedule(w, time)
         PROVE  TypeOK'
    BY <1>12, InsertType DEF WorkerReschedule, TypeOK, schedVars
  <1>13. ASSUME NEW w \in Workers, WorkerFinish(w) \/ WorkerExit(w) PROVE TypeOK'
    BY <1>13 DEF WorkerFinish, WorkerExit, TypeOK, schedVars
  <1>14. CASE Shutdown
    BY <1>14 DEF Shutdown, TypeOK, schedVars
  <1>15. CASE UNCHANGED vars
    BY <1>15 DEF vars, schedVars, TypeOK
  <1>16. QED
    BY <1>1, <1>2, <1>3, <1>4, <1>5, <1>6, <1>7, <1>8, <1>9, <1>10, <1>11, <1>12,
       <1>13, <1>14, <1>15 DEF Next

\* The types, among them that everything in the heap is an item with a time, and
\* that what the workers get are items.
THEOREM SchedTypeCorrect == Spec => []TypeOK
  BY SchedInitType, SchedTypeStep, PTL DEF Spec

-----------------------------------------------------------------------------
(* The timer *)

\* An item that goes into the heap without a signal is covered by the timer,
\* because some item before it is.
LEMMA InsertCovered ==
  ASSUME TypeOK, TimerCoversHead, NEW x \in Items, NEW time \in Times, Insert(x, time),
         UNCHANGED <<priority, down, schedVars>>
  PROVE  TimerCoversHead'
  <1> SUFFICES ASSUME ~sig', ~down, schedPc \in {"calling", "sleeping"}
               PROVE  \A y \in DOMAIN pq' :
                        nextWake # WaitInfinite /\ drainedAt + nextWake <= pq'[y]
    BY DEF TimerCoversHead, schedVars
  <1>1. CASE x \in DOMAIN pq
    BY <1>1 DEF Insert, TimerCoversHead
  <1>2. CASE x \notin DOMAIN pq
    <2>1. pq' = [y \in DOMAIN pq \cup {x} |-> IF y = x THEN time ELSE pq[y]]
      BY <1>2 DEF Insert
    <2>2. PICK wake \in MayBeHead(pq', x) : sig' = (sig \/ wake)
      BY <1>2 DEF Insert
    <2>3. ~sig /\ ~wake
      BY <2>2 DEF MayBeHead, TypeOK
    <2>4. \A y \in DOMAIN pq : nextWake # WaitInfinite /\ drainedAt + nextWake <= pq[y]
      BY <2>3 DEF TimerCoversHead
    <2>5. Heads(pq') # {x}
      BY <2>2, <2>3 DEF MayBeHead
    <2>6. IsHeap(pq')
      BY <2>1 DEF IsHeap, TypeOK
    <2>7. PICK y \in DOMAIN pq' : y # x /\ pq'[y] <= pq'[x]
      BY <2>1, <2>5, <2>6, NotHeadCovered DEF TypeOK
    <2>8. y \in DOMAIN pq /\ pq[y] <= time
      BY <2>1, <2>7
    <2>9. nextWake # WaitInfinite /\ drainedAt + nextWake <= time
      <3>1. drainedAt \in Int /\ nextWake \in Int /\ pq[y] \in Int /\ time \in Int
        BY <2>8 DEF TypeOK, Times, WaitInfinite
      <3>2. QED
        BY <2>4, <2>8, <3>1
    <2>10. QED
      BY <2>1, <2>4, <2>9
  <1>3. QED
    BY <1>1, <1>2

LEMMA TimerStep == TypeOK /\ TimerCoversHead /\ [Next]_vars => TimerCoversHead'
  <1> SUFFICES ASSUME TypeOK, TimerCoversHead, [Next]_vars PROVE TimerCoversHead'
    OBVIOUS
  <1>1. CASE UNCHANGED <<pq, sig, down, schedVars>>
    BY <1>1 DEF TimerCoversHead, schedVars
  <1>2. ASSUME NEW x \in Items, NEW time \in Times, Add(x, time) PROVE TimerCoversHead'
    BY <1>2, InsertCovered DEF Add
  <1>3. ASSUME NEW x \in Items, RemoveItem(x) PROVE TimerCoversHead'
    <2>1. DOMAIN pq' \subseteq DOMAIN pq /\ \A y \in DOMAIN pq' : pq'[y] = pq[y]
      BY <1>3 DEF RemoveItem, Without, Restrict
    <2>2. ~sig' => ~sig
      BY <1>3 DEF RemoveItem
    <2>3. QED
      BY <1>3, <2>1, <2>2 DEF RemoveItem, TimerCoversHead, schedVars
  <1>4. ASSUME NEW x \in Items, Signal(x) PROVE TimerCoversHead'
    BY <1>4 DEF Signal, TimerCoversHead
  <1>5. CASE SchedTakeSignal \/ SchedFail \/ SchedTimeout \/ SchedExit
    BY <1>5 DEF SchedTakeSignal, SchedFail, SchedTimeout, SchedExit, TimerCoversHead
  <1>6. CASE SchedSleep
    BY <1>6 DEF SchedSleep, TimerCoversHead
  <1>7. CASE SchedDrain
    <2> SUFFICES ASSUME NEW x \in DOMAIN pq'
                 PROVE  nextWake' # WaitInfinite /\ drainedAt' + nextWake' <= pq'[x]
      BY DEF TimerCoversHead
    <2>1. PICK h \in DOMAIN pq' : nextWake' = pq[h] - clock /\ pq[h] <= pq[x]
      BY <1>7, DrainFinds
    <2>2. pq'[x] = pq[x] /\ pq[h] > clock /\ drainedAt' = clock
      BY <1>7, DrainFinds DEF SchedDrain
    <2>3. pq[x] \in Int /\ pq[h] \in Int /\ clock \in Int
      BY <1>7, <2>1, DrainFinds DEF TypeOK, Times
    <2>4. QED
      BY <2>1, <2>2, <2>3 DEF WaitInfinite
  <1>8. ASSUME NEW w \in Workers, NEW time \in Times, WorkerReschedule(w, time)
        PROVE  TimerCoversHead'
    <2>1. work[w] \in Items /\ Insert(work[w], time)
      BY <1>8 DEF WorkerReschedule
    <2>2. QED
      BY <1>8, <2>1, InsertCovered DEF WorkerReschedule
  <1>9. CASE Shutdown
    BY <1>9 DEF Shutdown, TimerCoversHead
  <1>10. QED
    BY <1>1, <1>2, <1>3, <1>4, <1>5, <1>6, <1>7, <1>8, <1>9
    DEF Next, vars, Tick, WorkerTake, WorkerFinish, WorkerExit

\* The timer of the scheduler thread never lies behind the first item, whatever
\* is added, removed, signalled or rescheduled meanwhile, for any items,
\* workers and priorities.  (ThdScheduler.cpp:104-182, 233-262)
THEOREM SchedTimerCoversHead == Spec => []TimerCoversHead
  <1>1. Init => TimerCoversHead
    BY DEF Init, TimerCoversHead
  <1>2. QED
    BY <1>1, SchedInitType, SchedTypeStep, TimerStep, PTL DEF Spec

-----------------------------------------------------------------------------
(* Heap                                                                    *)
(*                                                                         *)
(* The invariant of a loop says which order is left to restore: the entry  *)
(* the loop follows may be greater than its parent, and in down also less  *)
(* than its children, but its children are in order with its parent, so    *)
(* that an exchange never puts two other entries out of order.             *)

Entries == [key : Keys, val : Values]

Unique(h) == \A i, j \in DOMAIN h : h[i].key = h[j].key => i = j

HeapTypeOK ==
  /\ heap \in Seq(Entries) /\ capacity \in Nat
  /\ lookup \in [KeysOf(heap) -> [pos : Nat, cap : Nat]]
  /\ loop \in {"none", "down", "up"} /\ again \in Nat
  /\ again > 0 => Len(heap) >= 2

\* Every iterator points to the entry of its key.
Points == \A i \in DOMAIN heap : lookup[heap[i].key] = [pos |-> i, cap |-> capacity]

\* The loops follow the entry that heapify or insert was called for.
Follows == loop # "none" => iter \in DOMAIN heap /\ item = heap[iter].key

\* Only the entry that a loop follows may be out of order, against its parent and
\* in down against its children too; its children are in order with its parent.
OrderBut ==
  \A i \in 2..Len(heap) :
    \/ heap[i].val <= heap[i \div 2].val
    \/ loop # "none" /\ i = iter
    \/ loop = "down" /\ i \div 2 = iter
OrderAcross ==
  (loop # "none" /\ iter > 1) =>
    \A i \in 2..Len(heap) : i \div 2 = iter => heap[i].val <= heap[iter \div 2].val

HeapInv ==
  /\ HeapTypeOK /\ Unique(heap) /\ Points /\ Follows
  /\ OrderBut /\ OrderAcross

-----------------------------------------------------------------------------
\* The parent of an entry, and its children.
LEMMA Halves ==
  ASSUME NEW i \in Nat
  PROVE  /\ i \div 2 \in Nat /\ i \div 2 <= i
         /\ i >= 2 => i \div 2 >= 1 /\ i \div 2 < i
         /\ \A p \in Nat : i \div 2 = p <=> i = 2 * p \/ i = 2 * p + 1
  OBVIOUS

LEMMA EntryTypes ==
  ASSUME NEW h \in Seq(Entries), NEW i \in DOMAIN h
  PROVE  /\ DOMAIN h = 1..Len(h) /\ Len(h) \in Nat
         /\ h[i] \in Entries /\ h[i].key \in Keys
         /\ h[i].val \in Values /\ h[i].val \in Nat
  <1>1. DOMAIN h = 1..Len(h) /\ Len(h) \in Nat /\ h[i] \in Entries
    OBVIOUS
  <1>2. QED
    BY <1>1, HeapAssumption DEF Entries

\* What an exchange of two entries leaves as it was.
Swapped(h, i, j) == [h EXCEPT ![i] = h[j], ![j] = h[i]]

LEMMA SwapSeq ==
  ASSUME NEW S, NEW h \in Seq(S), NEW i \in 1..Len(h), NEW j \in 1..Len(h)
  PROVE  /\ Swapped(h, i, j) \in Seq(S)
         /\ DOMAIN Swapped(h, i, j) = 1..Len(h)
         /\ Len(Swapped(h, i, j)) = Len(h)
         /\ Swapped(h, i, j)[i] = h[j]
         /\ Swapped(h, i, j)[j] = h[i]
         /\ \A x \in 1..Len(h) : x # i /\ x # j => Swapped(h, i, j)[x] = h[x]
  BY DEF Swapped

LEMMA SwapEntries ==
  ASSUME NEW h \in Seq(Entries), NEW i \in 1..Len(h), NEW j \in 1..Len(h)
  PROVE  /\ Swapped(h, i, j) \in Seq(Entries)
         /\ DOMAIN Swapped(h, i, j) = 1..Len(h)
         /\ Len(Swapped(h, i, j)) = Len(h)
         /\ Swapped(h, i, j)[i] = h[j]
         /\ Swapped(h, i, j)[j] = h[i]
         /\ \A x \in 1..Len(h) : x # i /\ x # j => Swapped(h, i, j)[x] = h[x]
  BY SwapSeq

\* In a vector with one entry for each key the map has the values of the entries,
\* and it is the only such map.
LEMMA MapOfAt ==
  ASSUME NEW h \in Seq(Entries), Unique(h), NEW i \in DOMAIN h
  PROVE  /\ h[i].key \in KeysOf(h)
         /\ (CHOOSE j \in DOMAIN h : h[j].key = h[i].key) = i
         /\ MapOf(h)[h[i].key] = h[i].val
  <1>1. h[i].key \in KeysOf(h)
    BY DEF KeysOf
  <1>2. \A j \in DOMAIN h : h[j].key = h[i].key <=> j = i
    BY DEF Unique
  <1>3. (CHOOSE j \in DOMAIN h : h[j].key = h[i].key) = i
    BY <1>2
  <1>4. QED
    BY <1>1, <1>3 DEF MapOf

\* The map with another value for a key, which it may not have had.
With(f, k, v) == [x \in DOMAIN f \cup {k} |-> IF x = k THEN v ELSE f[x]]

\* f is such a map.
IsMapOf(f, h) ==
  /\ f = [k \in KeysOf(h) |-> f[k]]
  /\ \A i \in DOMAIN h : f[h[i].key] = h[i].val

LEMMA MapOfOnly ==
  ASSUME NEW h \in Seq(Entries), Unique(h), NEW f, IsMapOf(f, h)
  PROVE  f = MapOf(h)
  <1>1. \A k \in KeysOf(h) : f[k] = MapOf(h)[k]
    <2> TAKE k \in KeysOf(h)
    <2>1. PICK i \in DOMAIN h : k = h[i].key
      BY DEF KeysOf
    <2>2. QED
      BY <2>1, MapOfAt DEF IsMapOf
  <1>2. MapOf(h) = [k \in KeysOf(h) |-> MapOf(h)[k]]
    BY DEF MapOf
  <1>3. f = [k \in KeysOf(h) |-> f[k]]
    BY DEF IsMapOf
  <1>4. QED
    BY <1>1, <1>2, <1>3

LEMMA SwapKeeps ==
  ASSUME NEW h \in Seq(Entries), Unique(h), NEW i \in 1..Len(h), NEW j \in 1..Len(h)
  PROVE  /\ Unique(Swapped(h, i, j))
         /\ KeysOf(Swapped(h, i, j)) = KeysOf(h)
         /\ MapOf(Swapped(h, i, j)) = MapOf(h)
  <1> DEFINE g == Swapped(h, i, j)
  <1>1. /\ g \in Seq(Entries) /\ DOMAIN g = 1..Len(h) /\ DOMAIN h = 1..Len(h)
        /\ g[i] = h[j] /\ g[j] = h[i]
        /\ \A x \in 1..Len(h) : x # i /\ x # j => g[x] = h[x]
    BY SwapEntries
  <1> HIDE DEF g
  <1>2. Unique(g)
    BY <1>1 DEF Unique
  <1>3. KeysOf(g) = KeysOf(h)
    <2>1. ASSUME NEW x \in 1..Len(h)
          PROVE  /\ \E y \in 1..Len(h) : g[x].key = h[y].key
                 /\ \E y \in 1..Len(h) : h[x].key = g[y].key
      BY <1>1
    <2>2. /\ \A k : k \in KeysOf(g) <=> \E x \in 1..Len(h) : k = g[x].key
          /\ \A k : k \in KeysOf(h) <=> \E x \in 1..Len(h) : k = h[x].key
      BY <1>1 DEF KeysOf
    <2>3. ASSUME NEW k  PROVE  k \in KeysOf(g) <=> k \in KeysOf(h)
      <3>1. ASSUME k \in KeysOf(g)  PROVE  k \in KeysOf(h)
        <4>1. PICK x \in 1..Len(h) : k = g[x].key
          BY <2>2, <3>1
        <4>2. QED
          BY <2>1, <2>2, <4>1
      <3>2. ASSUME k \in KeysOf(h)  PROVE  k \in KeysOf(g)
        <4>1. PICK x \in 1..Len(h) : k = h[x].key
          BY <2>2, <3>2
        <4>2. QED
          BY <2>1, <2>2, <4>1
      <3>3. QED
        BY <3>1, <3>2
    <2>4. QED
      BY <2>3
  <1>4. \A x \in DOMAIN g : MapOf(h)[g[x].key] = g[x].val
    BY <1>1, MapOfAt
  <1>5. MapOf(h) = [k \in KeysOf(g) |-> MapOf(h)[k]]
    BY <1>3 DEF MapOf
  <1>6. MapOf(h) = MapOf(g)
    <2>1. IsMapOf(MapOf(h), g)
      BY <1>4, <1>5 DEF IsMapOf
    <2>2. QED
      BY <1>1, <1>2, <2>1, MapOfOnly
  <1>7. QED
    BY <1>2, <1>3, <1>6 DEF g

\* An exchange keeps the iterators exact and the map as it is.
LEMMA ExchangeKeeps ==
  ASSUME HeapTypeOK, Unique(heap), Points, UNCHANGED capacity,
         NEW i \in 1..Len(heap), NEW j \in 1..Len(heap), Exchange(i, j)
  PROVE  /\ heap' = Swapped(heap, i, j) /\ heap' \in Seq(Entries)
         /\ DOMAIN heap' = 1..Len(heap) /\ Len(heap') = Len(heap)
         /\ lookup' \in [KeysOf(heap') -> [pos : Nat, cap : Nat]]
         /\ Unique(heap') /\ Points' /\ AsMap' = AsMap
  <1>1. heap' = Swapped(heap, i, j)
    BY DEF Exchange, Swapped
  <1>2. /\ heap \in Seq(Entries) /\ capacity \in Nat /\ DOMAIN heap = 1..Len(heap)
        /\ lookup \in [KeysOf(heap) -> [pos : Nat, cap : Nat]]
    BY DEF HeapTypeOK
  <1>3. /\ heap' \in Seq(Entries) /\ DOMAIN heap' = 1..Len(heap) /\ Len(heap') = Len(heap)
        /\ heap'[i] = heap[j] /\ heap'[j] = heap[i]
        /\ \A x \in 1..Len(heap) : x # i /\ x # j => heap'[x] = heap[x]
    <2> DEFINE g == Swapped(heap, i, j)
    <2>1. /\ g \in Seq(Entries) /\ DOMAIN g = 1..Len(heap) /\ Len(g) = Len(heap)
          /\ g[i] = heap[j] /\ g[j] = heap[i]
          /\ \A x \in 1..Len(heap) : x # i /\ x # j => g[x] = heap[x]
      BY <1>2, SwapEntries
    <2>2. g = heap'
      BY <1>1
    <2> HIDE DEF g
    <2>3. QED
      BY <2>1, <2>2
  <1>4. Unique(heap') /\ KeysOf(heap') = KeysOf(heap) /\ MapOf(heap') = MapOf(heap)
    BY <1>1, <1>2, SwapKeeps
  <1>5. \A x \in 1..Len(heap) : heap[x].key \in KeysOf(heap)
    BY <1>2 DEF KeysOf
  <1>6. /\ lookup' \in [KeysOf(heap) -> [pos : Nat, cap : Nat]]
        /\ lookup'[heap[j].key] = lookup[heap[i].key]
        /\ lookup'[heap[i].key] = lookup[heap[j].key]
        /\ \A k \in KeysOf(heap) : k # heap[i].key /\ k # heap[j].key => lookup'[k] = lookup[k]
    BY <1>2, <1>5 DEF Exchange
  <1>7. Points'
    <2>1. ASSUME NEW x \in 1..Len(heap)
          PROVE  lookup'[heap'[x].key] = [pos |-> x, cap |-> capacity]
      <3>1. CASE x = i
        BY <1>2, <1>3, <1>6, <3>1 DEF Points
      <3>2. CASE x = j
        BY <1>2, <1>3, <1>6, <3>2 DEF Points
      <3>3. CASE x # i /\ x # j
        <4>1. heap[x].key # heap[i].key /\ heap[x].key # heap[j].key
          BY <1>2, <3>3 DEF Unique
        <4>2. QED
          BY <1>2, <1>3, <1>5, <1>6, <3>3, <4>1 DEF Points
      <3>4. QED
        BY <3>1, <3>2, <3>3
    <2>2. QED
      BY <1>3, <2>1 DEF Points
  <1>8. QED
    BY <1>1, <1>3, <1>4, <1>6, <1>7 DEF AsMap

-----------------------------------------------------------------------------
\* Which child an iteration of down takes.
LEMMA LargestChild ==
  ASSUME HeapTypeOK, iter \in DOMAIN heap
  PROVE  /\ Largest(iter) \in 1..Len(heap)
         /\ Largest(iter) # iter =>
              /\ Largest(iter) > iter /\ Largest(iter) \div 2 = iter
              /\ heap[iter].val <= heap[Largest(iter)].val
              /\ \A i \in 2..Len(heap) :
                   i \div 2 = iter => heap[i].val <= heap[Largest(iter)].val
         /\ Largest(iter) = iter =>
              \A i \in 2..Len(heap) : i \div 2 = iter => heap[i].val <= heap[iter].val
  <1>1. /\ DOMAIN heap = 1..Len(heap) /\ Len(heap) \in Nat
        /\ \A i \in 1..Len(heap) : heap[i].val \in Nat
    BY EntryTypes DEF HeapTypeOK
  <1>2. iter \in Nat /\ iter >= 1 /\ iter <= Len(heap)
    BY <1>1
  <1>3. \A i \in Nat : i \div 2 = iter <=> i = 2 * iter \/ i = 2 * iter + 1
    BY <1>2, Halves
  <1> DEFINE L == Left(iter)
  <1>4. /\ L \in {iter, 2 * iter} /\ L \in 1..Len(heap)
        /\ heap[iter].val <= heap[L].val
        /\ 2 * iter <= Len(heap) => heap[2 * iter].val <= heap[L].val
    BY <1>1, <1>2 DEF Left, Less
  <1>5. Largest(iter) = IF 2 * iter + 1 <= Len(heap) /\ ~(heap[2 * iter + 1].val < heap[L].val)
                        THEN 2 * iter + 1 ELSE L
    BY DEF Largest, Less
  <1> HIDE DEF L
  <1> DEFINE Q == Largest(iter)
  <1>6. /\ Q \in {iter, 2 * iter, 2 * iter + 1} /\ Q \in 1..Len(heap)
        /\ heap[L].val <= heap[Q].val
        /\ 2 * iter + 1 <= Len(heap) => heap[2 * iter + 1].val <= heap[Q].val
    BY <1>1, <1>2, <1>4, <1>5
  <1> HIDE DEF Q
  <1>7. /\ heap[iter].val <= heap[Q].val
        /\ 2 * iter <= Len(heap) => heap[2 * iter].val <= heap[Q].val
    BY <1>1, <1>2, <1>4, <1>6
  <1>8. \A i \in 2..Len(heap) : i \div 2 = iter => heap[i].val <= heap[Q].val
    <2> TAKE i \in 2..Len(heap)
    <2> HAVE i \div 2 = iter
    <2>1. i \in Nat /\ i <= Len(heap)
      BY <1>1
    <2>2. i = 2 * iter \/ i = 2 * iter + 1
      BY <1>3, <2>1
    <2>3. QED
      BY <1>6, <1>7, <2>1, <2>2
  <1>9. Q # iter => Q > iter /\ Q \div 2 = iter
    <2>1. Q \in Nat
      BY <1>1, <1>6
    <2>2. Q # iter => Q \div 2 = iter
      BY <1>3, <1>6, <2>1
    <2>3. Q # iter => Q > iter
      BY <1>2, <1>6
    <2>4. QED
      BY <2>2, <2>3
  <1>10. QED
    BY <1>6, <1>7, <1>8, <1>9 DEF Q

\* An entry goes down to the place of its greatest child.
LEMMA SinksInOrder ==
  ASSUME HeapInv, loop = "down", Exchange(iter, Largest(iter)), Largest(iter) # iter,
         heap' = Swapped(heap, iter, Largest(iter)), Len(heap') = Len(heap),
         iter' = Largest(iter), loop' = loop
  PROVE  OrderBut' /\ OrderAcross'
  <1> DEFINE q == Largest(iter)
  <1>1. /\ heap \in Seq(Entries) /\ DOMAIN heap = 1..Len(heap) /\ Len(heap) \in Nat
        /\ \A i \in 1..Len(heap) : heap[i].val \in Nat
    BY EntryTypes DEF HeapTypeOK, HeapInv
  <1>2. iter \in Nat /\ iter >= 1 /\ iter <= Len(heap)
    BY <1>1 DEF Follows, HeapInv
  <1>3. /\ q \in 1..Len(heap) /\ q > iter /\ q \div 2 = iter
        /\ heap[iter].val <= heap[q].val
        /\ \A i \in 2..Len(heap) : i \div 2 = iter => heap[i].val <= heap[q].val
    BY <1>1, <1>2, LargestChild DEF HeapInv
  <1>4. iter' = q
    OBVIOUS
  <1> HIDE DEF q
  <1>5. /\ heap'[iter] = heap[q] /\ heap'[q] = heap[iter]
        /\ \A x \in 1..Len(heap) : x # iter /\ x # q => heap'[x] = heap[x]
    <2> DEFINE g == Swapped(heap, iter, q)
    <2>1. iter \in 1..Len(heap)
      BY <1>1, <1>2
    <2>2. /\ g[iter] = heap[q] /\ g[q] = heap[iter]
          /\ \A x \in 1..Len(heap) : x # iter /\ x # q => g[x] = heap[x]
      BY <1>1, <1>3, <2>1, SwapEntries
    <2>3. g = heap'
      BY DEF q
    <2> HIDE DEF g
    <2>4. QED
      BY <2>2, <2>3
  <1>6. \A i \in 2..Len(heap) : i \div 2 \in 1..Len(heap) /\ i \div 2 < i
    BY <1>1, Halves
  <1>7. \A i \in 2..Len(heap) : i # iter /\ i \div 2 # iter => heap[i].val <= heap[i \div 2].val
    BY DEF OrderBut, HeapInv
  <1>8. iter > 1 => heap[q].val <= heap[iter \div 2].val
    BY <1>1, <1>2, <1>3 DEF OrderAcross, HeapInv
  <1>9. ASSUME NEW i \in 2..Len(heap), i # q, i \div 2 # q
        PROVE  heap'[i].val <= heap'[i \div 2].val
    <2>1. i \div 2 \in 1..Len(heap) /\ i \div 2 < i /\ i \in 1..Len(heap)
      BY <1>1, <1>6
    <2>2. CASE i = iter
      BY <1>2, <1>3, <1>5, <1>8, <1>9, <2>1, <2>2
    <2>3. CASE i \div 2 = iter
      BY <1>1, <1>2, <1>3, <1>5, <1>9, <2>1, <2>3
    <2>4. CASE i # iter /\ i \div 2 # iter
      BY <1>5, <1>7, <1>9, <2>1, <2>4
    <2>5. QED
      BY <2>2, <2>3, <2>4
  <1>10. ASSUME NEW i \in 2..Len(heap), i \div 2 = q
         PROVE  heap'[i].val <= heap'[q \div 2].val
    <2>1. i \in 1..Len(heap) /\ i > q /\ i # iter
      BY <1>1, <1>2, <1>3, <1>6, <1>10
    <2>2. heap[i].val <= heap[q].val
      BY <1>3, <1>7, <1>10, <2>1
    <2>3. QED
      BY <1>3, <1>5, <2>1, <2>2
  <1>11. QED
    BY <1>4, <1>9, <1>10 DEF OrderBut, OrderAcross

\* An entry goes up to the place of its parent.
LEMMA RisesInOrder ==
  ASSUME HeapInv, loop = "up", Rises,
         heap' = Swapped(heap, iter, iter \div 2), Len(heap') = Len(heap),
         iter' = iter \div 2, loop' = loop
  PROVE  OrderBut' /\ OrderAcross'
  <1> DEFINE r == iter \div 2
  <1>1. /\ heap \in Seq(Entries) /\ DOMAIN heap = 1..Len(heap) /\ Len(heap) \in Nat
        /\ \A i \in 1..Len(heap) : heap[i].val \in Nat
    BY EntryTypes DEF HeapTypeOK, HeapInv
  <1>2. iter \in Nat /\ iter >= 2 /\ iter <= Len(heap) /\ heap[iter \div 2].val < heap[iter].val
    BY <1>1 DEF Follows, HeapInv, Rises, Less
  <1>3. r \in 1..Len(heap) /\ r < iter /\ iter' = r
    BY <1>1, <1>2, Halves
  <1>4. heap[r].val < heap[iter].val
    BY <1>2
  <1>5. /\ heap'[iter] = heap[r] /\ heap'[r] = heap[iter]
        /\ \A x \in 1..Len(heap) : x # iter /\ x # r => heap'[x] = heap[x]
    <2> DEFINE g == Swapped(heap, iter, r)
    <2>1. iter \in 1..Len(heap)
      BY <1>1, <1>2
    <2>2. /\ g[iter] = heap[r] /\ g[r] = heap[iter]
          /\ \A x \in 1..Len(heap) : x # iter /\ x # r => g[x] = heap[x]
      BY <1>1, <1>3, <2>1, SwapEntries
    <2>3. g = heap'
      OBVIOUS
    <2> HIDE DEF g
    <2>4. QED
      BY <2>2, <2>3
  <1>6. \A i \in 2..Len(heap) : i \div 2 \in 1..Len(heap) /\ i \div 2 < i
    BY <1>1, Halves
  <1>7. \A i \in 2..Len(heap) : i # iter => heap[i].val <= heap[i \div 2].val
    BY DEF OrderBut, HeapInv
  <1>8. \A i \in 2..Len(heap) : i \div 2 = iter => heap[i].val <= heap[r].val
    BY <1>2 DEF OrderAcross, HeapInv
  <1>9. iter \div 2 = r
    OBVIOUS
  <1> HIDE DEF r
  <1>10. ASSUME NEW i \in 2..Len(heap), i # r
         PROVE  heap'[i].val <= heap'[i \div 2].val
    <2>1. i \div 2 \in 1..Len(heap) /\ i \div 2 < i /\ i \in 1..Len(heap)
      BY <1>1, <1>6
    <2>2. CASE i = iter
      BY <1>1, <1>2, <1>3, <1>4, <1>5, <1>9, <2>1, <2>2
    <2>3. CASE i \div 2 = iter
      BY <1>5, <1>8, <1>10, <2>1, <2>3
    <2>4. CASE i # iter /\ i \div 2 = r
      <3>1. heap[i].val <= heap[r].val
        BY <1>7, <2>4
      <3>2. heap'[i] = heap[i] /\ heap'[i \div 2] = heap[iter]
        BY <1>5, <1>10, <2>1, <2>4
      <3>3. QED
        BY <1>1, <1>2, <1>3, <1>4, <2>1, <3>1, <3>2
    <2>5. CASE i # iter /\ i \div 2 # iter /\ i \div 2 # r
      BY <1>5, <1>7, <1>10, <2>1, <2>5
    <2>6. QED
      BY <2>2, <2>3, <2>4, <2>5
  <1>11. ASSUME NEW i \in 2..Len(heap), i \div 2 = r, r > 1
         PROVE  heap'[i].val <= heap'[r \div 2].val
    <2>1. /\ r \div 2 \in 1..Len(heap) /\ r \div 2 < r /\ r \in 2..Len(heap)
          /\ i \in 1..Len(heap) /\ r < i
      BY <1>1, <1>3, <1>6, <1>11
    <2>2. heap[r].val <= heap[r \div 2].val /\ heap'[r \div 2] = heap[r \div 2]
      <3>1. r # iter /\ r \div 2 # iter /\ r \div 2 # r
        BY <1>1, <1>2, <1>3, <2>1
      <3>2. heap[r].val <= heap[r \div 2].val
        BY <1>7, <2>1, <3>1
      <3>3. heap'[r \div 2] = heap[r \div 2]
        BY <1>5, <2>1, <3>1
      <3>4. QED
        BY <3>2, <3>3
    <2>3. heap'[i].val <= heap[r].val
      <3>1. CASE i = iter
        BY <1>1, <1>3, <1>5, <3>1
      <3>2. CASE i # iter
        BY <1>5, <1>7, <1>11, <2>1, <3>2
      <3>3. QED
        BY <3>1, <3>2
    <2>4. heap'[i].val \in Nat
      <3>1. CASE i = iter
        BY <1>1, <1>3, <1>5, <3>1
      <3>2. CASE i # iter
        BY <1>1, <1>5, <1>11, <2>1, <3>2
      <3>3. QED
        BY <3>1, <3>2
    <2>5. QED
      BY <1>1, <1>3, <2>1, <2>2, <2>3, <2>4
  <1>12. QED
    BY <1>3, <1>10, <1>11 DEF OrderBut, OrderAcross

-----------------------------------------------------------------------------
LEMMA FrontSeq ==
  ASSUME NEW S, NEW h \in Seq(S), Len(h) >= 1
  PROVE  /\ Front(h) \in Seq(S)
         /\ DOMAIN Front(h) = 1..(Len(h) - 1)
         /\ Len(Front(h)) = Len(h) - 1
         /\ \A x \in 1..(Len(h) - 1) : Front(h)[x] = h[x]
  <1>1. PICK m \in Nat : m = Len(h) - 1
    OBVIOUS
  <1>2. Front(h) = SubSeq(h, 1, m)
    BY <1>1 DEF Front
  <1>3. Len(SubSeq(h, 1, m)) = m
    BY <1>1
  <1>4. \A x \in 1..m : SubSeq(h, 1, m)[x] = h[x]
    BY <1>1
  <1>5. SubSeq(h, 1, m) \in Seq(S)
    BY <1>1
  <1> DEFINE t == SubSeq(h, 1, m)
  <1> HIDE DEF t
  <1>6. t \in Seq(S) /\ Len(t) = m /\ DOMAIN t = 1..m /\ \A x \in 1..m : t[x] = h[x]
    <2>1. t \in Seq(S)
      BY <1>5 DEF t
    <2>2. Len(t) = m
      BY <1>3 DEF t
    <2>3. DOMAIN t = 1..m
      BY <2>1, <2>2
    <2>4. \A x \in 1..m : t[x] = h[x]
      BY <1>4 DEF t
    <2>5. QED
      BY <2>1, <2>2, <2>3, <2>4
  <1>7. Front(h) = t
    BY <1>2 DEF t
  <1>8. QED
    BY <1>1, <1>6, <1>7

\* One entry is left out, and the last one may stand in its place.
LEMMA WithoutEntry ==
  ASSUME NEW h \in Seq(Entries), Unique(h), NEW p \in 1..Len(h),
         NEW g \in Seq(Entries), DOMAIN g = 1..(Len(h) - 1),
         \A x \in 1..(Len(h) - 1) : g[x] = IF x = p THEN h[Len(h)] ELSE h[x]
  PROVE  /\ Unique(g) /\ KeysOf(g) = KeysOf(h) \ {h[p].key}
         /\ MapOf(g) = Restrict(MapOf(h), KeysOf(h) \ {h[p].key})
  <1>1. PICK n \in Nat : n = Len(h)
    OBVIOUS
  <1> DEFINE Old(x) == IF x = p THEN n ELSE x
  <1>2. DOMAIN h = 1..n /\ n \in Nat /\ n >= 1 /\ p \in Nat /\ p >= 1 /\ p <= n
    BY <1>1
  <1>3. DOMAIN g = 1..(n - 1) /\ \A x \in 1..(n - 1) : g[x] = IF x = p THEN h[n] ELSE h[x]
    BY <1>1
  <1>4. \A x \in 1..(n - 1) : Old(x) \in 1..n /\ Old(x) # p /\ g[x] = h[Old(x)]
    <2> TAKE x \in 1..(n - 1)
    <2>1. Old(x) \in 1..n /\ Old(x) # p
      BY <1>2
    <2>2. QED
      BY <1>3, <2>1
  <1>5. \A x, y \in 1..(n - 1) : Old(x) = Old(y) => x = y
    BY <1>2
  <1>6. \A y \in 1..n : y # p => \E x \in 1..(n - 1) : y = Old(x)
    <2> TAKE y \in 1..n
    <2> HAVE y # p
    <2>1. CASE y = n
      <3>1. p \in 1..(n - 1)
        BY <1>2, <2>1
      <3>2. QED
        BY <2>1, <3>1
    <2>2. CASE y # n
      <3>1. y \in 1..(n - 1) /\ y = Old(y)
        BY <1>2, <2>2
      <3>2. QED
        BY <3>1
    <2>3. QED
      BY <2>1, <2>2
  <1> HIDE DEF Old
  <1>7. Unique(g)
    <2> SUFFICES ASSUME NEW x \in 1..(n - 1), NEW y \in 1..(n - 1), g[x].key = g[y].key
                 PROVE  x = y
      BY <1>3 DEF Unique
    <2>1. Old(x) = Old(y)
      BY <1>2, <1>4 DEF Unique
    <2>2. QED
      BY <1>5, <2>1
  <1>8. KeysOf(g) = KeysOf(h) \ {h[p].key}
    <2>1. ASSUME NEW k \in KeysOf(g)  PROVE  k \in KeysOf(h) \ {h[p].key}
      <3>1. PICK x \in 1..(n - 1) : k = g[x].key
        BY <1>3 DEF KeysOf
      <3>2. Old(x) \in 1..n /\ Old(x) # p /\ k = h[Old(x)].key
        BY <1>4, <3>1
      <3>3. QED
        BY <1>2, <3>2 DEF KeysOf, Unique
    <2>2. ASSUME NEW k \in KeysOf(h), k # h[p].key  PROVE  k \in KeysOf(g)
      <3>1. PICK y \in 1..n : k = h[y].key
        BY <1>2 DEF KeysOf
      <3>2. PICK x \in 1..(n - 1) : y = Old(x)
        BY <1>6, <2>2, <3>1
      <3>3. QED
        BY <1>4, <1>3, <3>1, <3>2 DEF KeysOf
    <2>3. QED
      BY <2>1, <2>2
  <1>9. \A x \in DOMAIN g : MapOf(h)[g[x].key] = g[x].val
    <2> SUFFICES ASSUME NEW x \in 1..(n - 1)  PROVE  MapOf(h)[g[x].key] = g[x].val
      BY <1>3
    <2>1. Old(x) \in DOMAIN h /\ g[x] = h[Old(x)]
      BY <1>2, <1>4
    <2>2. MapOf(h)[h[Old(x)].key] = h[Old(x)].val
      BY <2>1, MapOfAt
    <2>3. QED
      BY <2>1, <2>2
  <1> DEFINE f == Restrict(MapOf(h), KeysOf(h) \ {h[p].key})
  <1>10. f = [k \in KeysOf(g) |-> f[k]] /\ \A k \in KeysOf(g) : f[k] = MapOf(h)[k]
    BY <1>8 DEF Restrict
  <1>11. \A x \in DOMAIN g : g[x].key \in KeysOf(g)
    BY DEF KeysOf
  <1> HIDE DEF f
  <1>12. f = MapOf(g)
    <2>1. \A x \in DOMAIN g : f[g[x].key] = g[x].val
      BY <1>9, <1>10, <1>11
    <2>2. QED
      <3>1. IsMapOf(f, g)
        BY <1>10, <2>1 DEF IsMapOf
      <3>2. QED
        BY <1>7, <3>1, MapOfOnly
  <1>13. QED
    BY <1>7, <1>8, <1>12 DEF f

\* An entry with a new key is appended.
LEMMA WithEntry ==
  ASSUME NEW h \in Seq(Entries), Unique(h),
         NEW e \in Entries, e.key \notin KeysOf(h)
  PROVE  /\ Append(h, e) \in Seq(Entries) /\ DOMAIN Append(h, e) = 1..(Len(h) + 1)
         /\ Unique(Append(h, e)) /\ KeysOf(Append(h, e)) = KeysOf(h) \cup {e.key}
         /\ MapOf(Append(h, e)) = With(MapOf(h), e.key, e.val)
  <1> DEFINE g == Append(h, e)
             n == Len(h)
  <1>1. /\ DOMAIN h = 1..n /\ n \in Nat
        /\ g \in Seq(Entries) /\ DOMAIN g = 1..(n + 1) /\ g[n + 1] = e
        /\ \A x \in 1..n : g[x] = h[x]
    OBVIOUS
  <1> HIDE DEF g, n
  <1>2. \A x \in 1..(n + 1) : x \in 1..n \/ x = n + 1
    BY <1>1
  <1>3. 1..n \subseteq 1..(n + 1) /\ n + 1 \in 1..(n + 1)
    BY <1>1
  <1>4. \A x \in 1..n : h[x].key # e.key
    BY <1>1 DEF KeysOf
  <1>5. Unique(g)
    <2> SUFFICES ASSUME NEW x \in 1..(n + 1), NEW y \in 1..(n + 1), g[x].key = g[y].key
                 PROVE  x = y
      BY <1>1 DEF Unique
    <2>1. QED
      BY <1>1, <1>2, <1>4 DEF Unique
  <1>6. KeysOf(g) = KeysOf(h) \cup {e.key}
    <2>1. ASSUME NEW k \in KeysOf(g)  PROVE  k \in KeysOf(h) \cup {e.key}
      <3>1. PICK x \in 1..(n + 1) : k = g[x].key
        BY <1>1 DEF KeysOf
      <3>2. QED
        BY <1>1, <1>2, <3>1 DEF KeysOf
    <2>2. e.key \in KeysOf(g)
      BY <1>1, <1>3 DEF KeysOf
    <2>3. ASSUME NEW k \in KeysOf(h)  PROVE  k \in KeysOf(g)
      <3>1. PICK x \in 1..n : k = h[x].key
        BY <1>1 DEF KeysOf
      <3>2. QED
        BY <1>1, <1>3, <3>1 DEF KeysOf
    <2>4. QED
      BY <2>1, <2>2, <2>3
  <1> DEFINE f == With(MapOf(h), e.key, e.val)
  <1>7. f = [k \in KeysOf(g) |-> f[k]]
    BY <1>6 DEF With, MapOf
  <1>8. f[e.key] = e.val /\ \A k \in KeysOf(h) : f[k] = MapOf(h)[k]
    <2>1. PICK m : m = MapOf(h)
      OBVIOUS
    <2>2. DOMAIN m = KeysOf(h)
      BY <2>1 DEF MapOf
    <2>3. \A k \in KeysOf(h) : k # e.key
      OBVIOUS
    <2>4. /\ With(m, e.key, e.val)[e.key] = e.val
          /\ \A k \in KeysOf(h) : With(m, e.key, e.val)[k] = m[k]
      BY <2>2, <2>3 DEF With
    <2>5. QED
      BY <2>1, <2>4
  <1> HIDE DEF f
  <1>9. \A x \in 1..n : h[x].key \in KeysOf(h)
    BY <1>1 DEF KeysOf
  <1>10. \A x \in DOMAIN g : f[g[x].key] = g[x].val
    BY <1>1, <1>2, <1>8, <1>9, MapOfAt
  <1>11. f = MapOf(g)
    <2>1. IsMapOf(f, g)
      BY <1>7, <1>10 DEF IsMapOf
    <2>2. QED
      BY <1>1, <1>5, <2>1, MapOfOnly
  <1>12. QED
    BY <1>1, <1>5, <1>6, <1>11 DEF f, g, n

\* The value of an entry is changed.
LEMMA ChangedSeq ==
  ASSUME NEW h \in Seq(Entries), NEW p \in 1..Len(h), NEW v \in Values,
         NEW g, g = [h EXCEPT ![p].val = v]
  PROVE  /\ g \in Seq(Entries) /\ DOMAIN g = 1..Len(h) /\ Len(g) = Len(h)
         /\ g[p] = [key |-> h[p].key, val |-> v]
         /\ \A x \in 1..Len(h) : x # p => g[x] = h[x]
  <1>1. /\ DOMAIN h = 1..Len(h) /\ Len(h) \in Nat
        /\ \A x \in 1..Len(h) : h[x] \in Entries
    OBVIOUS
  <1>2. [h[p] EXCEPT !.val = v] = [key |-> h[p].key, val |-> v]
    BY <1>1 DEF Entries
  <1>3. [key |-> h[p].key, val |-> v] \in Entries
    BY <1>1 DEF Entries
  <1>4. g = [h EXCEPT ![p] = [key |-> h[p].key, val |-> v]]
    BY <1>2
  <1>5. QED
    BY <1>3, <1>4

LEMMA WithValue ==
  ASSUME NEW h \in Seq(Entries), Unique(h), NEW p \in 1..Len(h), NEW v \in Values,
         NEW g \in Seq(Entries), DOMAIN g = 1..Len(h),
         g[p].key = h[p].key, g[p].val = v,
         \A x \in 1..Len(h) : x # p => g[x] = h[x]
  PROVE  /\ \A x \in 1..Len(h) : g[x].key = h[x].key
         /\ Unique(g) /\ KeysOf(g) = KeysOf(h)
         /\ MapOf(g) = With(MapOf(h), h[p].key, v)
  <1>1. /\ DOMAIN h = 1..Len(h) /\ Len(h) \in Nat
        /\ \A x \in 1..Len(h) : h[x] \in Entries
    OBVIOUS
  <1>2. /\ DOMAIN g = 1..Len(h) /\ g[p].key = h[p].key /\ g[p].val = v
        /\ \A x \in 1..Len(h) : x # p => g[x] = h[x]
    OBVIOUS
  <1>3. \A x \in 1..Len(h) : g[x].key = h[x].key
    BY <1>2
  <1>4. Unique(g)
    BY <1>1, <1>2, <1>3 DEF Unique
  <1>5. KeysOf(g) = KeysOf(h)
    BY <1>1, <1>2, <1>3 DEF KeysOf
  <1>6. \A x \in 1..Len(h) : h[x].key \in KeysOf(h)
    BY <1>1 DEF KeysOf
  <1> DEFINE f == With(MapOf(h), h[p].key, v)
  <1>7. f = [k \in KeysOf(g) |-> f[k]]
    <2>1. KeysOf(h) \cup {h[p].key} = KeysOf(g)
      BY <1>5, <1>6
    <2>2. QED
      BY <2>1 DEF With, MapOf
  <1>8. f[h[p].key] = v /\ \A k \in KeysOf(h) : k # h[p].key => f[k] = MapOf(h)[k]
    <2>1. PICK m : m = MapOf(h)
      OBVIOUS
    <2>2. DOMAIN m = KeysOf(h)
      BY <2>1 DEF MapOf
    <2>3. PICK q : q = h[p].key
      OBVIOUS
    <2>4. With(m, q, v)[q] = v /\ \A k \in KeysOf(h) : k # q => With(m, q, v)[k] = m[k]
      BY <2>2 DEF With
    <2>5. QED
      BY <2>1, <2>3, <2>4
  <1> HIDE DEF f
  <1>9. \A x \in DOMAIN g : f[g[x].key] = g[x].val
    <2> SUFFICES ASSUME NEW x \in 1..Len(h)  PROVE  f[h[x].key] = g[x].val
      BY <1>2, <1>3
    <2>1. CASE x = p
      BY <1>2, <1>8, <2>1
    <2>2. CASE x # p
      <3>1. h[x].key # h[p].key
        BY <1>1, <2>2 DEF Unique
      <3>2. MapOf(h)[h[x].key] = h[x].val
        BY <1>1, MapOfAt
      <3>3. QED
        BY <1>2, <1>6, <1>8, <2>2, <3>1, <3>2
    <2>3. QED
      BY <2>1, <2>2
  <1>10. f = MapOf(g)
    <2>1. IsMapOf(f, g)
      BY <1>7, <1>9 DEF IsMapOf
    <2>2. QED
      BY <1>4, <2>1, MapOfOnly
  <1>11. QED
    BY <1>2, <1>3, <1>4, <1>5, <1>10 DEF f

-----------------------------------------------------------------------------
\* When all entries are in order the first one is the greatest: an entry greater
\* than it would have a greater parent, and the first such one cannot.
LEMMA HeadIsGreatest ==
  ASSUME NEW h \in Seq(Entries),
         \A i \in 2..Len(h) : h[i].val <= h[i \div 2].val
  PROVE  \A i \in DOMAIN h : h[i].val <= h[1].val
  <1>1. DOMAIN h = 1..Len(h) /\ Len(h) \in Nat /\ \A i \in 1..Len(h) : h[i].val \in Nat
    BY EntryTypes
  <1> DEFINE G == {i \in 1..Len(h) : h[i].val > h[1].val}
  <1> SUFFICES ASSUME G # {}  PROVE  FALSE
    BY <1>1
  <1>2. G \subseteq Nat
    BY <1>1
  <1>3. PICK i \in G : \A j \in G : ~(<<j, i>> \in OpToRel(<, Nat))
    BY <1>2, NatLessThanWellFounded, WFMin
  <1>4. \A j \in G : ~(j < i)
    BY <1>2, <1>3 DEF OpToRel
  <1>5. i \in 2..Len(h) /\ h[i].val > h[1].val
    BY <1>1
  <1>6. i \div 2 \in 1..Len(h) /\ i \div 2 < i
    BY <1>1, <1>5, Halves
  <1>7. h[i \div 2].val > h[1].val
    BY <1>1, <1>5, <1>6
  <1>8. QED
    BY <1>4, <1>6, <1>7

\* There are as many keys as entries.
LEMMA KeysCount ==
  ASSUME NEW h \in Seq(Entries), Unique(h)
  PROVE  Cardinality(KeysOf(h)) = Len(h)
  <1> DEFINE f == [i \in 1..Len(h) |-> h[i].key]
  <1>1. DOMAIN h = 1..Len(h) /\ Len(h) \in Nat
    OBVIOUS
  <1>2. f \in Bijection(1..Len(h), KeysOf(h))
    <2>1. f \in [1..Len(h) -> KeysOf(h)]
      BY <1>1 DEF KeysOf
    <2>2. f \in Injection(1..Len(h), KeysOf(h))
      BY <1>1, <2>1 DEF Unique, Injection, IsInjective
    <2>3. f \in Surjection(1..Len(h), KeysOf(h))
      BY <1>1, <2>1 DEF KeysOf, Surjection
    <2>4. QED
      BY <2>2, <2>3 DEF Bijection
  <1>3. QED
    BY <1>1, <1>2, FS_CountingElements DEF ExistsBijection

-----------------------------------------------------------------------------
\* What the invariant says of the vector and the map.
LEMMA VectorFacts ==
  ASSUME HeapInv
  PROVE  /\ heap \in Seq(Entries) /\ Unique(heap) /\ Points
         /\ DOMAIN heap = 1..Len(heap) /\ Len(heap) \in Nat /\ capacity \in Nat
         /\ lookup \in [KeysOf(heap) -> [pos : Nat, cap : Nat]]
         /\ \A i \in 1..Len(heap) :
              /\ heap[i].key \in KeysOf(heap) /\ heap[i].key \in Keys
              /\ heap[i].val \in Nat /\ heap[i].val \in Values
              /\ lookup[heap[i].key] = [pos |-> i, cap |-> capacity]
         /\ \A k \in KeysOf(heap) :
              lookup[k].pos \in 1..Len(heap) /\ heap[lookup[k].pos].key = k
  <1>1. /\ heap \in Seq(Entries) /\ DOMAIN heap = 1..Len(heap) /\ Len(heap) \in Nat
        /\ lookup \in [KeysOf(heap) -> [pos : Nat, cap : Nat]] /\ capacity \in Nat
        /\ Unique(heap) /\ Points
    BY DEF HeapInv, HeapTypeOK
  <1>2. ASSUME NEW i \in 1..Len(heap)
        PROVE  /\ heap[i].key \in KeysOf(heap) /\ heap[i].key \in Keys
               /\ heap[i].val \in Nat /\ heap[i].val \in Values
               /\ lookup[heap[i].key] = [pos |-> i, cap |-> capacity]
    BY <1>1, EntryTypes DEF KeysOf, Points
  <1>3. ASSUME NEW k \in KeysOf(heap)
        PROVE  lookup[k].pos \in 1..Len(heap) /\ heap[lookup[k].pos].key = k
    <2>1. PICK i \in 1..Len(heap) : k = heap[i].key
      BY <1>1 DEF KeysOf
    <2>2. lookup[k] = [pos |-> i, cap |-> capacity]
      BY <1>2, <2>1
    <2>3. lookup[k].pos = i
      BY <2>2
    <2>4. QED
      BY <2>1, <2>3
  <1>4. QED
    BY <1>1, <1>2, <1>3

\* Between operations all entries are in order.
LEMMA InOrder ==
  ASSUME HeapInv, loop = "none"
  PROVE  \A i \in 2..Len(heap) : heap[i].val <= heap[i \div 2].val
  BY DEF HeapInv, OrderBut

\* remove: the vector and the map are those without the entry, and the one that
\* took its place is followed down.
LEMMA RemovedVector ==
  ASSUME HeapInv, UNCHANGED capacity, NEW k \in KeysOf(heap), Removed(k)
  PROVE  /\ heap' \in Seq(Entries) /\ DOMAIN heap' = 1..(Len(heap) - 1)
         /\ Len(heap') = Len(heap) - 1
         /\ \A x \in 1..(Len(heap) - 1) :
              heap'[x] = IF x = lookup[k].pos THEN heap[Len(heap)] ELSE heap[x]
         /\ IF heap[Len(heap)].key = k THEN lookup[k].pos = Len(heap)
            ELSE lookup[k].pos \in 1..(Len(heap) - 1)
  <1> DEFINE p == lookup[k].pos
  <1>1. PICK n \in Nat : n = Len(heap)
    BY VectorFacts
  <1>2. /\ heap \in Seq(Entries) /\ DOMAIN heap = 1..n /\ Unique(heap)
        /\ p \in 1..n /\ heap[p].key = k
    BY <1>1, VectorFacts
  <1> HIDE DEF p
  <1>3. n >= 1 /\ n \in 1..n /\ p \in Nat
    BY <1>1, <1>2
  <1>4. heap[n].key = k <=> p = n
    BY <1>2, <1>3 DEF Unique
  <1>5. CASE heap[n].key = k
    <2>1. heap' = Front(heap)
      BY <1>1, <1>5 DEF Removed
    <2> DEFINE g == Front(heap)
    <2>2. /\ g \in Seq(Entries) /\ DOMAIN g = 1..(n - 1) /\ Len(g) = n - 1
          /\ \A x \in 1..(n - 1) : g[x] = heap[x]
      BY <1>1, <1>2, <1>3, FrontSeq
    <2> HIDE DEF g
    <2>3. \A x \in 1..(n - 1) : x # p
      BY <1>1, <1>4, <1>5
    <2>4. heap' = g
      BY <2>1 DEF g
    <2>5. QED
      BY <1>1, <1>4, <1>5, <2>2, <2>3, <2>4 DEF p
  <1>6. CASE heap[n].key # k
    <2> DEFINE t == [heap EXCEPT ![p] = heap[n]]
               g == Front(t)
    <2>1. heap' = g
      BY <1>1, <1>6 DEF Removed, p
    <2>2. /\ t \in Seq(Entries) /\ DOMAIN t = 1..n /\ Len(t) = n
          /\ \A x \in 1..n : t[x] = IF x = p THEN heap[n] ELSE heap[x]
      BY <1>1, <1>2, <1>3
    <2> HIDE DEF t
    <2>3. /\ g \in Seq(Entries) /\ DOMAIN g = 1..(n - 1) /\ Len(g) = n - 1
          /\ \A x \in 1..(n - 1) : g[x] = t[x]
      BY <1>3, <2>2, FrontSeq
    <2> HIDE DEF g
    <2>4. \A x \in 1..(n - 1) : x \in 1..n
      BY <1>1
    <2>5. \A x \in 1..(n - 1) : g[x] = IF x = p THEN heap[n] ELSE heap[x]
      BY <2>2, <2>3, <2>4
    <2>6. p \in 1..(n - 1)
      BY <1>1, <1>2, <1>4, <1>6
    <2>7. QED
      BY <1>1, <1>6, <2>1, <2>3, <2>5, <2>6 DEF p
  <1>7. QED
    BY <1>5, <1>6

\* The iterators of the other entries are exact, and the map has lost one key.
LEMMA RemovedLookup ==
  ASSUME HeapInv, UNCHANGED capacity, NEW k \in KeysOf(heap), Removed(k)
  PROVE  /\ Unique(heap') /\ KeysOf(heap') = KeysOf(heap) \ {k}
         /\ AsMap' = Restrict(AsMap, KeysOf(heap) \ {k})
         /\ lookup' \in [KeysOf(heap') -> [pos : Nat, cap : Nat]]
         /\ Points'
  <1>1. PICK n \in Nat : n = Len(heap)
    BY VectorFacts
  <1>2. PICK p : p = lookup[k].pos
    OBVIOUS
  <1>3. /\ heap \in Seq(Entries) /\ DOMAIN heap = 1..n /\ Unique(heap) /\ capacity \in Nat
        /\ p \in 1..n /\ heap[p].key = k /\ n \in 1..n
        /\ lookup \in [KeysOf(heap) -> [pos : Nat, cap : Nat]]
        /\ \A i \in 1..n : /\ heap[i].key \in KeysOf(heap)
                           /\ lookup[heap[i].key] = [pos |-> i, cap |-> capacity]
    BY <1>1, <1>2, VectorFacts
  <1>4. /\ heap' \in Seq(Entries) /\ DOMAIN heap' = 1..(n - 1)
        /\ \A x \in 1..(n - 1) : heap'[x] = IF x = p THEN heap[n] ELSE heap[x]
        /\ heap[n].key = k => p = n
        /\ heap[n].key # k => p \in 1..(n - 1)
    BY <1>1, <1>2, RemovedVector
  <1>5. /\ Unique(heap') /\ KeysOf(heap') = KeysOf(heap) \ {k}
        /\ AsMap' = Restrict(AsMap, KeysOf(heap) \ {k})
    <2>1. PICK g : g = heap'
      OBVIOUS
    <2>2. /\ g \in Seq(Entries) /\ DOMAIN g = 1..(Len(heap) - 1) /\ p \in 1..Len(heap)
          /\ \A x \in 1..(Len(heap) - 1) : g[x] = IF x = p THEN heap[Len(heap)] ELSE heap[x]
      BY <1>1, <1>3, <1>4, <2>1
    <2>3. heap \in Seq(Entries) /\ Unique(heap) /\ heap[p].key = k
      BY <1>3
    <2>4. Unique(g) /\ KeysOf(g) = KeysOf(heap) \ {heap[p].key}
          /\ MapOf(g) = Restrict(MapOf(heap), KeysOf(heap) \ {heap[p].key})
      BY <2>2, <2>3, WithoutEntry
    <2>5. QED
      BY <2>1, <2>3, <2>4 DEF AsMap
  <1>6. \A x \in 1..(n - 1) : x \in 1..n /\ x # n
    BY <1>1
  <1>7. CASE heap[n].key = k
    <2>1. lookup' = [x \in KeysOf(heap') |-> lookup[x]]
      BY <1>1, <1>3, <1>5, <1>7 DEF Removed, Restrict
    <2>2. \A x \in 1..(n - 1) : heap'[x] = heap[x] /\ heap'[x].key \in KeysOf(heap')
      BY <1>4, <1>6, <1>7 DEF KeysOf
    <2>3. \A x \in 1..(n - 1) : lookup'[heap'[x].key] = [pos |-> x, cap |-> capacity]
      BY <1>3, <1>6, <2>1, <2>2
    <2>4. lookup' \in [KeysOf(heap') -> [pos : Nat, cap : Nat]]
      BY <1>3, <1>5, <2>1
    <2>5. QED
      BY <1>4, <1>5, <2>3, <2>4 DEF Points
  <1>8. CASE heap[n].key # k
    <2>1. lookup' = [x \in KeysOf(heap') |-> IF x = heap[n].key THEN lookup[k] ELSE lookup[x]]
      <3>1. lookup' = Restrict([lookup EXCEPT ![heap[n].key] = lookup[k]], KeysOf(heap) \ {k})
        BY <1>1, <1>3, <1>8 DEF Removed
      <3>2. QED
        BY <1>3, <1>5, <3>1 DEF Restrict
    <2>2. \A x \in 1..(n - 1) : heap'[x].key \in KeysOf(heap')
      BY <1>4 DEF KeysOf
    <2>3. lookup[k] = [pos |-> p, cap |-> capacity]
      BY <1>3
    <2>4. ASSUME NEW x \in 1..(n - 1)
          PROVE  lookup'[heap'[x].key] = [pos |-> x, cap |-> capacity]
      <3>1. CASE x = p
        BY <1>4, <2>1, <2>2, <2>3, <3>1
      <3>2. CASE x # p
        <4>1. heap'[x] = heap[x] /\ heap[x].key # heap[n].key
          BY <1>3, <1>4, <1>6, <3>2 DEF Unique
        <4>2. QED
          BY <1>3, <1>6, <2>1, <2>2, <4>1
      <3>3. QED
        BY <3>1, <3>2
    <2>5. lookup' \in [KeysOf(heap') -> [pos : Nat, cap : Nat]]
      BY <1>3, <1>5, <2>1
    <2>6. QED
      BY <1>4, <1>5, <2>4, <2>5 DEF Points
  <1>9. QED
    BY <1>5, <1>7, <1>8

\* The children of the removed entry are in order with its parent.
LEMMA RemovedKeeps ==
  ASSUME HeapInv, Settled, UNCHANGED <<capacity, again>>, NEW k \in KeysOf(heap), Removed(k)
  PROVE  HeapInv' /\ AsMap' = Restrict(AsMap, KeysOf(heap) \ {k})
  <1>1. PICK n \in Nat : n = Len(heap)
    BY VectorFacts
  <1>2. PICK p : p = lookup[k].pos
    OBVIOUS
  <1>3. /\ DOMAIN heap = 1..n /\ p \in 1..n /\ n \in 1..n /\ p \in Nat
        /\ \A i \in 1..n : heap[i].val \in Nat
    <2>1. DOMAIN heap = 1..n /\ (\A i \in 1..n : heap[i].val \in Nat) /\ p \in 1..n
      BY <1>1, <1>2, VectorFacts
    <2>2. QED
      BY <1>1, <2>1
  <1>4. /\ heap' \in Seq(Entries) /\ DOMAIN heap' = 1..(n - 1) /\ Len(heap') = n - 1
        /\ \A x \in 1..(n - 1) : heap'[x] = IF x = p THEN heap[n] ELSE heap[x]
        /\ heap[n].key = k => p = n
        /\ heap[n].key # k => p \in 1..(n - 1)
    BY <1>1, <1>2, RemovedVector
  <1>5. loop = "none" /\ again = 0 /\ again' = 0
    BY DEF Settled
  <1>6. \/ heap[n].key = k /\ loop' = "none" /\ p = n
        \/ /\ p \in 1..(n - 1)
           /\ loop' = "down" /\ iter' = p /\ item' = heap[n].key
    BY <1>1, <1>2, <1>4, <1>5 DEF Removed, Heapify, loopVars
  <1>7. HeapTypeOK'
    <2>1. loop' \in {"none", "down"}
      BY <1>6
    <2>2. lookup' \in [KeysOf(heap') -> [pos : Nat, cap : Nat]]
      BY RemovedLookup
    <2>3. capacity' \in Nat
      BY VectorFacts
    <2>4. QED
      BY <1>4, <1>5, <2>1, <2>2, <2>3 DEF HeapTypeOK
  <1>8. Unique(heap') /\ Points' /\ AsMap' = Restrict(AsMap, KeysOf(heap) \ {k})
    BY RemovedLookup
  <1>9. Follows'
    BY <1>4, <1>6 DEF Follows
  <1>10. \A i \in 2..(n - 1) : i \in 2..n /\ i \in 1..(n - 1) /\ i \div 2 \in 1..(n - 1)
    BY <1>1, Halves
  <1>11. \A i \in 2..n : heap[i].val <= heap[i \div 2].val
    BY <1>1, <1>5, InOrder
  <1>12. \A i \in 2..(n - 1) : i # p /\ i \div 2 # p => heap'[i].val <= heap'[i \div 2].val
    BY <1>4, <1>10, <1>11
  <1>13. OrderBut'
    <2>1. CASE p = n /\ loop' = "none"
      <3>1. \A i \in 2..(n - 1) : i # p /\ i \div 2 # p
        BY <1>1, <1>10, <2>1
      <3>2. QED
        BY <1>4, <1>12, <3>1 DEF OrderBut
    <2>2. CASE loop' = "down" /\ iter' = p
      BY <1>4, <1>12, <2>2 DEF OrderBut
    <2>3. QED
      BY <1>6, <2>1, <2>2
  <1>14. OrderAcross'
    <2> SUFFICES ASSUME p \in 1..(n - 1), iter' = p, p > 1, NEW i \in 2..(n - 1), i \div 2 = p
                 PROVE  heap'[i].val <= heap'[p \div 2].val
      BY <1>4, <1>6 DEF OrderAcross
    <2>1. p \div 2 \in 1..(n - 1) /\ p \div 2 < p /\ i # p /\ p \in 2..n
      BY <1>1, <1>3, <1>10, Halves
    <2>2. heap'[i] = heap[i] /\ heap'[p \div 2] = heap[p \div 2]
      BY <1>3, <1>4, <1>10, <2>1
    <2>3. heap[i].val <= heap[p].val /\ heap[p].val <= heap[p \div 2].val
      BY <1>10, <1>11, <2>1
    <2>4. i \in 1..n /\ p \div 2 \in 1..n
      BY <1>1, <1>10, <2>1
    <2>5. QED
      BY <1>3, <2>2, <2>3, <2>4
  <1>15. QED
    BY <1>7, <1>8, <1>9, <1>13, <1>14 DEF HeapInv

\* insert: the iterators of a vector that grew are those of all its entries.
LEMMA RenewedIterators ==
  ASSUME NEW h \in Seq(Entries), Unique(h), NEW c \in Nat
  PROVE  /\ Iterators(h, c) \in [KeysOf(h) -> [pos : Nat, cap : Nat]]
         /\ \A i \in DOMAIN h : Iterators(h, c)[h[i].key] = [pos |-> i, cap |-> c]
  <1> DEFINE PosOf(k) == CHOOSE i \in DOMAIN h : h[i].key = k
  <1>1. \A i \in DOMAIN h : h[i].key \in KeysOf(h) /\ PosOf(h[i].key) = i
    BY MapOfAt
  <1>2. \A k \in KeysOf(h) : \E i \in DOMAIN h : k = h[i].key
    BY DEF KeysOf
  <1>3. Iterators(h, c) = [k \in KeysOf(h) |-> [pos |-> PosOf(k), cap |-> c]]
    BY DEF Iterators
  <1>4. DOMAIN h \subseteq Nat
    OBVIOUS
  <1> HIDE DEF PosOf
  <1>5. \A k \in KeysOf(h) : PosOf(k) \in Nat
    BY <1>1, <1>2, <1>4
  <1>6. QED
    BY <1>1, <1>3, <1>5

\* A new entry has no children, and only it may be greater than its parent.
LEMMA AddKeeps ==
  ASSUME HeapInv, NEW k \in Keys, NEW v \in Values, AddKey(k, v)
  PROVE  /\ HeapInv'
         /\ AsMap' = With(AsMap, k, v)
  <1>1. PICK n \in Nat : n = Len(heap)
    BY VectorFacts
  <1>2. PICK e : e = [key |-> k, val |-> v]
    OBVIOUS
  <1>3. e \in Entries /\ e.key = k /\ e.val = v
    BY <1>2 DEF Entries
  <1>4. /\ heap \in Seq(Entries) /\ DOMAIN heap = 1..n /\ Unique(heap) /\ capacity \in Nat
        /\ lookup \in [KeysOf(heap) -> [pos : Nat, cap : Nat]]
        /\ \A i \in 1..n : /\ heap[i].key \in KeysOf(heap)
                           /\ lookup[heap[i].key] = [pos |-> i, cap |-> capacity]
    BY <1>1, VectorFacts
  <1>5. loop = "none" /\ again = 0 /\ again' = 0 /\ k \notin KeysOf(heap) /\ Inserted(e)
    BY <1>2, <1>4 DEF AddKey, Settled
  <1>6. heap' = Append(heap, e)
    BY <1>5 DEF Inserted
  <1>7. /\ heap' \in Seq(Entries) /\ DOMAIN heap' = 1..(n + 1) /\ Unique(heap')
        /\ KeysOf(heap') = KeysOf(heap) \cup {k}
        /\ MapOf(heap') = With(MapOf(heap), k, v)
    <2> DEFINE g == Append(heap, e)
    <2>1. /\ g \in Seq(Entries) /\ DOMAIN g = 1..(Len(heap) + 1) /\ Unique(g)
          /\ KeysOf(g) = KeysOf(heap) \cup {e.key}
          /\ MapOf(g) = With(MapOf(heap), e.key, e.val)
      BY <1>3, <1>4, <1>5, WithEntry
    <2> HIDE DEF g
    <2>2. heap' = g
      BY <1>6 DEF g
    <2>3. QED
      BY <1>1, <1>3, <2>1, <2>2
  <1>8. heap'[n + 1] = e /\ \A x \in 1..n : heap'[x] = heap[x]
    BY <1>1, <1>4, <1>6
  <1>9. Len(heap') = n + 1
    BY <1>1, <1>7
  <1>10. /\ loop' = "up" /\ iter' = n + 1 /\ item' = k
         /\ capacity' = IF n = capacity THEN 2 * capacity ELSE capacity
         /\ n = capacity => lookup' = Iterators(heap', 2 * capacity)
         /\ n # capacity =>
              lookup' = [x \in KeysOf(heap) \cup {k} |->
                           IF x = k THEN [pos |-> n + 1, cap |-> capacity] ELSE lookup[x]]
    BY <1>1, <1>3, <1>4, <1>5 DEF Inserted
  <1>11. \A x \in 1..(n + 1) : x \in 1..n \/ x = n + 1
    BY <1>1
  <1>12. /\ capacity' \in Nat /\ lookup' \in [KeysOf(heap') -> [pos : Nat, cap : Nat]]
         /\ \A x \in 1..(n + 1) : lookup'[heap'[x].key] = [pos |-> x, cap |-> capacity']
    <2>1. CASE n = capacity
      <3>1. 2 * capacity \in Nat /\ capacity' = 2 * capacity
        BY <1>4, <1>10, <2>1
      <3>2. lookup' = Iterators(heap', capacity')
        BY <1>10, <2>1, <3>1
      <3>3. capacity' \in Nat
        BY <3>1
      <3>4. /\ Iterators(heap', capacity') \in [KeysOf(heap') -> [pos : Nat, cap : Nat]]
            /\ \A i \in DOMAIN heap' : Iterators(heap', capacity')[heap'[i].key]
                                          = [pos |-> i, cap |-> capacity']
        BY <1>7, <3>3, RenewedIterators
      <3>5. QED
        BY <1>7, <3>2, <3>3, <3>4
    <2>2. CASE n # capacity
      <3>1. capacity' = capacity /\ lookup' = [x \in KeysOf(heap') |->
                           IF x = k THEN [pos |-> n + 1, cap |-> capacity] ELSE lookup[x]]
        BY <1>7, <1>10, <2>2
      <3>2. lookup' \in [KeysOf(heap') -> [pos : Nat, cap : Nat]]
        BY <1>1, <1>4, <1>7, <3>1
      <3>3. /\ k \in KeysOf(heap')
            /\ \A x \in 1..n : heap[x].key \in KeysOf(heap') /\ heap[x].key # k
        BY <1>4, <1>5, <1>7
      <3>4. ASSUME NEW x \in 1..(n + 1)
            PROVE  lookup'[heap'[x].key] = [pos |-> x, cap |-> capacity]
        <4>1. CASE x = n + 1
          BY <1>3, <1>8, <3>1, <3>3, <4>1
        <4>2. CASE x \in 1..n
          BY <1>4, <1>8, <3>1, <3>3, <4>2
        <4>3. QED
          BY <1>11, <4>1, <4>2
      <3>5. QED
        BY <1>4, <3>1, <3>2, <3>4
    <2>3. QED
      BY <2>1, <2>2
  <1>13. HeapTypeOK'
    <2>1. again' \in Nat /\ ~(again' > 0) /\ loop' \in {"none", "down", "up"}
      BY <1>5, <1>10
    <2>2. QED
      BY <1>7, <1>12, <2>1 DEF HeapTypeOK
  <1>14. Points' /\ Unique(heap')
    BY <1>7, <1>12 DEF Points
  <1>15. Follows'
    <2>1. n + 1 \in 1..(n + 1)
      BY <1>1
    <2>2. QED
      BY <1>3, <1>7, <1>8, <1>10, <2>1 DEF Follows
  <1>16. \A i \in 2..(n + 1) : i # n + 1 => i \in 2..n /\ i \in 1..n /\ i \div 2 \in 1..n
    BY <1>1, Halves
  <1>17. OrderBut'
    <2>1. \A i \in 2..n : heap[i].val <= heap[i \div 2].val
      BY <1>1, <1>5, InOrder
    <2>2. \A i \in 2..(n + 1) : i # n + 1 => heap'[i].val <= heap'[i \div 2].val
      BY <1>8, <1>16, <2>1
    <2>3. loop' # "none"
      BY <1>10
    <2>4. QED
      BY <1>9, <1>10, <2>2, <2>3 DEF OrderBut
  <1>18. OrderAcross'
    <2>1. \A i \in 2..(n + 1) : i \div 2 # n + 1
      BY <1>1, Halves
    <2>2. QED
      BY <1>9, <1>10, <2>1 DEF OrderAcross
  <1>19. QED
    BY <1>7, <1>13, <1>14, <1>15, <1>17, <1>18 DEF HeapInv, AsMap

\* A changed value is out of order until heapify is done with it.
LEMMA ChangeKeeps ==
  ASSUME HeapInv, NEW k \in Keys, NEW v \in Values, Change(k, v)
  PROVE  /\ HeapInv' /\ k \in KeysOf(heap)
         /\ AsMap' = With(AsMap, k, v)
  <1>1. PICK n \in Nat : n = Len(heap)
    BY VectorFacts
  <1>2. PICK p : p = lookup[k].pos
    OBVIOUS
  <1>3. k \in KeysOf(heap)
    BY VectorFacts DEF Change
  <1>4. /\ heap \in Seq(Entries) /\ DOMAIN heap = 1..n /\ Unique(heap) /\ capacity \in Nat
        /\ lookup \in [KeysOf(heap) -> [pos : Nat, cap : Nat]]
        /\ p \in 1..n /\ heap[p].key = k
        /\ \A i \in 1..n : /\ heap[i].val \in Nat
                           /\ lookup[heap[i].key] = [pos |-> i, cap |-> capacity]
    BY <1>1, <1>2, <1>3, VectorFacts
  <1>5. /\ loop = "none" /\ again = 0 /\ again' = again
        /\ heap' = [heap EXCEPT ![p].val = v]
        /\ loop' = "down" /\ iter' = p /\ item' = k
        /\ UNCHANGED <<lookup, capacity>>
    BY <1>2 DEF Change, Settled, Heapify
  <1>6. PICK g : g = [heap EXCEPT ![p].val = v]
    OBVIOUS
  <1>7. /\ g \in Seq(Entries) /\ DOMAIN g = 1..n /\ Len(g) = n
        /\ g[p] = [key |-> heap[p].key, val |-> v]
        /\ \A x \in 1..n : x # p => g[x] = heap[x]
    <2>1. p \in 1..Len(heap) /\ heap \in Seq(Entries)
      BY <1>1, <1>4
    <2>2. /\ g \in Seq(Entries) /\ DOMAIN g = 1..Len(heap) /\ Len(g) = Len(heap)
          /\ g[p] = [key |-> heap[p].key, val |-> v]
          /\ \A x \in 1..Len(heap) : x # p => g[x] = heap[x]
      BY <1>6, <2>1, ChangedSeq
    <2>3. QED
      BY <1>1, <2>2
  <1>8. g = heap'
    BY <1>5, <1>6
  <1>9. g[p].key = heap[p].key /\ g[p].val = v
    BY <1>7
  <1>10. /\ \A x \in 1..n : g[x].key = heap[x].key
         /\ Unique(g) /\ KeysOf(g) = KeysOf(heap)
         /\ MapOf(g) = With(MapOf(heap), heap[p].key, v)
    <2>1. /\ DOMAIN g = 1..Len(heap) /\ p \in 1..Len(heap)
          /\ \A x \in 1..Len(heap) : x # p => g[x] = heap[x]
      BY <1>1, <1>4, <1>7
    <2>2. g \in Seq(Entries)
      BY <1>7
    <2>3. heap \in Seq(Entries) /\ Unique(heap)
      BY <1>4
    <2>4. /\ \A x \in 1..Len(heap) : g[x].key = heap[x].key
          /\ Unique(g) /\ KeysOf(g) = KeysOf(heap)
          /\ MapOf(g) = With(MapOf(heap), heap[p].key, v)
      BY <1>9, <2>1, <2>2, <2>3, WithValue
    <2>5. QED
      BY <1>1, <2>4
  <1>11. HeapTypeOK'
    <2>1. again' \in Nat /\ ~(again' > 0) /\ loop' \in {"none", "down", "up"}
      BY <1>5
    <2>2. QED
      BY <1>4, <1>5, <1>7, <1>8, <1>10, <2>1 DEF HeapTypeOK
  <1>12. Unique(heap') /\ Points'
    BY <1>4, <1>5, <1>7, <1>8, <1>10 DEF Points
  <1>13. Follows'
    BY <1>4, <1>5, <1>7, <1>8, <1>9 DEF Follows
  <1>14. \A i \in 2..n : /\ i \in 1..n /\ i \div 2 \in 1..n /\ i \div 2 < i
                         /\ heap[i].val <= heap[i \div 2].val
    <2>1. \A i \in 2..n : i \in 1..n /\ i \div 2 \in 1..n /\ i \div 2 < i
      BY <1>1, Halves
    <2>2. QED
      BY <1>1, <1>5, <2>1, InOrder
  <1>15. OrderBut'
    <2>1. \A i \in 2..n : i # p /\ i \div 2 # p => g[i].val <= g[i \div 2].val
      BY <1>7, <1>14
    <2>2. \A i \in 2..Len(heap') : i # p /\ i \div 2 # p => heap'[i].val <= heap'[i \div 2].val
      BY <1>7, <1>8, <2>1
    <2>3. QED
      BY <1>5, <2>2 DEF OrderBut
  <1>16. OrderAcross'
    <2>1. ASSUME p > 1, NEW i \in 2..n, i \div 2 = p
          PROVE  g[i].val <= g[p \div 2].val
      <3>1. p \in 2..n /\ i # p
        BY <1>1, <1>4, <1>14, <2>1
      <3>2. p \div 2 \in 1..n /\ p \div 2 # p
        BY <1>1, <1>14, <3>1
      <3>3. g[i] = heap[i] /\ g[p \div 2] = heap[p \div 2]
        BY <1>7, <1>14, <3>1, <3>2
      <3>4. heap[i].val <= heap[p].val /\ heap[p].val <= heap[p \div 2].val
        BY <1>14, <2>1, <3>1
      <3>5. heap[i].val \in Nat /\ heap[p].val \in Nat /\ heap[p \div 2].val \in Nat
        BY <1>4, <1>14, <3>2
      <3>6. QED
        BY <3>3, <3>4, <3>5
    <2>2. QED
      BY <1>5, <1>7, <1>8, <2>1 DEF OrderAcross
  <1>17. QED
    BY <1>3, <1>4, <1>8, <1>10, <1>11, <1>12, <1>13, <1>15, <1>16 DEF HeapInv, AsMap

\* build sifts the entry in the middle, which is in order already.
LEMMA BuildKeeps ==
  ASSUME HeapInv, Build \/ BuildAgain
  PROVE  HeapInv' /\ AsMap' = AsMap /\ UNCHANGED popped
  <1>1. PICK n \in Nat : n = Len(heap)
    BY VectorFacts
  <1>2. UNCHANGED <<heap, lookup, capacity, popped>>
    BY DEF Build, BuildAgain
  <1>3. /\ heap \in Seq(Entries) /\ DOMAIN heap = 1..n /\ capacity \in Nat
        /\ \A i \in 1..n : /\ heap[i].val \in Nat
                           /\ lookup[heap[i].key] = [pos |-> i, cap |-> capacity]
    BY <1>1, VectorFacts
  <1>4. loop = "none"
    BY DEF Build, BuildAgain, Settled
  <1>5. CASE Build
    <2>1. HeapTypeOK'
      BY <1>2, <1>5 DEF HeapInv, HeapTypeOK, Build, loopVars
    <2>2. Unique(heap') /\ Points' /\ Follows' /\ OrderBut' /\ OrderAcross'
      BY <1>2, <1>5
         DEF HeapInv, Build, loopVars, Unique, Points, Follows, OrderBut, OrderAcross
    <2>3. QED
      BY <1>2, <2>1, <2>2 DEF HeapInv, AsMap
  <1>6. CASE BuildAgain
    <2> DEFINE p == n \div 2
    <2>1. /\ again \in Nat /\ again > 0 /\ again' = again - 1 /\ n >= 2
      BY <1>1, <1>6 DEF BuildAgain, HeapInv, HeapTypeOK
    <2>2. p \in 1..n
      BY <2>1, Halves
    <2>3. lookup[heap[p].key].pos = p
      <3>1. lookup[heap[p].key] = [pos |-> p, cap |-> capacity]
        BY <1>3, <2>2
      <3>2. QED
        BY <3>1
    <2>4. loop' = "down" /\ iter' = p /\ item' = heap[p].key
      BY <1>1, <1>6, <2>3 DEF BuildAgain, Heapify
    <2> HIDE DEF p
    <2>5. HeapTypeOK'
      <3>1. again' \in Nat /\ loop' \in {"none", "down", "up"}
        BY <2>1, <2>4
      <3>2. QED
        BY <1>1, <1>2, <2>1, <3>1 DEF HeapTypeOK, HeapInv
    <2>6. Unique(heap') /\ Points'
      BY <1>2 DEF HeapInv, Unique, Points
    <2>7. Follows'
      BY <1>2, <1>3, <2>2, <2>4 DEF Follows
    <2>8. \A i \in 2..n : /\ i \in 1..n /\ i \div 2 \in 1..n
                          /\ heap[i].val <= heap[i \div 2].val
      <3>1. \A i \in 2..n : i \in 1..n /\ i \div 2 \in 1..n
        BY <1>1, Halves
      <3>2. QED
        BY <1>1, <1>4, <3>1, InOrder
    <2>9. OrderBut'
      BY <1>1, <1>2, <2>8 DEF OrderBut
    <2>10. OrderAcross'
      <3>1. ASSUME p > 1, NEW i \in 2..n, i \div 2 = p
            PROVE  heap[i].val <= heap[p \div 2].val
        <4>1. p \in 2..n
          BY <2>2, <3>1
        <4>2. heap[i].val <= heap[p].val /\ heap[p].val <= heap[p \div 2].val
          BY <2>8, <3>1, <4>1
        <4>3. p \div 2 \in 1..n /\ i \in 1..n
          BY <2>8, <4>1
        <4>4. heap[i].val \in Nat /\ heap[p].val \in Nat /\ heap[p \div 2].val \in Nat
          BY <1>3, <2>2, <4>3
        <4>5. QED
          BY <4>2, <4>4
      <3>2. QED
        BY <1>1, <1>2, <2>4, <3>1 DEF OrderAcross
    <2>11. QED
      BY <1>2, <2>5, <2>6, <2>7, <2>9, <2>10 DEF HeapInv, AsMap
  <1>7. QED
    BY <1>5, <1>6

\* The iterations of the loops.
LEMMA DownKeeps ==
  ASSUME HeapInv, Down
  PROVE  /\ HeapInv' /\ AsMap' = AsMap /\ UNCHANGED popped
         /\ loop' = "down" => iter' > iter /\ iter' <= Len(heap)
  <1>1. /\ loop = "down" /\ UNCHANGED <<capacity, popped, again>>
        /\ iter \in DOMAIN heap /\ item = heap[iter].key
    BY DEF Down, HeapInv, Follows
  <1>2. DOMAIN heap = 1..Len(heap) /\ Len(heap) \in Nat
    BY VectorFacts
  <1>3. CASE Largest(iter) # iter /\ Exchange(iter, Largest(iter)) /\ iter' = Largest(iter)
             /\ UNCHANGED <<loop, item>>
    <2> DEFINE q == Largest(iter)
    <2>1. q \in 1..Len(heap) /\ q > iter
      BY <1>1, <1>3, LargestChild DEF HeapInv
    <2>2. iter \in 1..Len(heap) /\ Exchange(iter, q) /\ iter' = q /\ UNCHANGED capacity
      BY <1>1, <1>2, <1>3
    <2>3. HeapTypeOK /\ Unique(heap) /\ Points
      BY DEF HeapInv
    <2> HIDE DEF q
    <2>4. /\ heap' = Swapped(heap, iter, q) /\ heap' \in Seq(Entries)
          /\ DOMAIN heap' = 1..Len(heap) /\ Len(heap') = Len(heap)
          /\ lookup' \in [KeysOf(heap') -> [pos : Nat, cap : Nat]]
          /\ Unique(heap') /\ Points' /\ AsMap' = AsMap
      BY <2>1, <2>2, <2>3, ExchangeKeeps
    <2>5. HeapTypeOK'
      BY <1>1, <1>3, <2>3, <2>4 DEF HeapTypeOK
    <2>6. Follows'
      <3>1. heap'[q] = heap[iter]
        BY <2>1, <2>2, <2>3, <2>4, SwapEntries DEF HeapTypeOK
      <3>2. QED
        BY <1>1, <1>3, <2>1, <2>2, <2>4, <3>1 DEF Follows
    <2>7. OrderBut' /\ OrderAcross'
      BY <1>1, <1>3, <2>4, SinksInOrder DEF q
    <2>8. iter' <= Len(heap) /\ iter' > iter
      BY <1>2, <2>1, <2>2
    <2>9. QED
      BY <1>1, <2>4, <2>5, <2>6, <2>7, <2>8 DEF HeapInv
  <1>4. CASE Largest(iter) = iter /\ GoesUp /\ UNCHANGED <<heap, lookup>>
    <2>1. loop' = "up" /\ iter' = iter /\ item' = item
      <3>1. lookup[item] = [pos |-> iter, cap |-> capacity]
        BY <1>1 DEF HeapInv, Points
      <3>2. QED
        BY <1>4, <3>1 DEF GoesUp
    <2>2. HeapTypeOK'
      <3>1. heap' = heap /\ lookup' = lookup
        BY <1>4
      <3>2. QED
        BY <1>1, <2>1, <3>1 DEF HeapInv, HeapTypeOK
    <2>3. Unique(heap') /\ Points' /\ Follows'
      BY <1>1, <1>4, <2>1 DEF HeapInv, Unique, Points, Follows
    <2>4. \A i \in 2..Len(heap) : i \div 2 = iter => heap[i].val <= heap[i \div 2].val
      BY <1>1, <1>4, LargestChild DEF HeapInv
    <2>5. OrderBut' /\ OrderAcross'
      BY <1>1, <1>4, <2>1, <2>4 DEF HeapInv, OrderBut, OrderAcross
    <2>6. QED
      BY <1>1, <1>4, <2>1, <2>2, <2>3, <2>5 DEF HeapInv, AsMap
  <1>5. QED
    BY <1>3, <1>4 DEF Down

LEMMA UpKeeps ==
  ASSUME HeapInv, Up
  PROVE  /\ HeapInv' /\ AsMap' = AsMap /\ UNCHANGED popped
         /\ loop' = "up" => iter' < iter /\ iter' >= 1
         /\ loop' # "down"
  <1>1. /\ loop = "up" /\ UNCHANGED <<capacity, popped, again>>
        /\ iter \in DOMAIN heap /\ item = heap[iter].key
    BY DEF Up, HeapInv, Follows
  <1>2. DOMAIN heap = 1..Len(heap) /\ Len(heap) \in Nat
    BY VectorFacts
  <1>3. CASE /\ Rises /\ Exchange(iter, iter \div 2)
             /\ iter' = iter \div 2 /\ UNCHANGED <<loop, item>>
    <2> DEFINE r == iter \div 2
    <2>1. r \in 1..Len(heap) /\ r < iter
      BY <1>1, <1>2, <1>3, Halves DEF Rises
    <2>2. iter \in 1..Len(heap) /\ Exchange(iter, r) /\ iter' = r /\ UNCHANGED capacity
      BY <1>1, <1>2, <1>3
    <2>3. HeapTypeOK /\ Unique(heap) /\ Points
      BY DEF HeapInv
    <2> HIDE DEF r
    <2>4. /\ heap' = Swapped(heap, iter, r) /\ heap' \in Seq(Entries)
          /\ DOMAIN heap' = 1..Len(heap) /\ Len(heap') = Len(heap)
          /\ lookup' \in [KeysOf(heap') -> [pos : Nat, cap : Nat]]
          /\ Unique(heap') /\ Points' /\ AsMap' = AsMap
      BY <2>1, <2>2, <2>3, ExchangeKeeps
    <2>5. HeapTypeOK'
      BY <1>1, <1>3, <2>3, <2>4 DEF HeapTypeOK
    <2>6. Follows'
      <3>1. heap'[r] = heap[iter]
        BY <2>1, <2>2, <2>3, <2>4, SwapEntries DEF HeapTypeOK
      <3>2. QED
        BY <1>1, <1>3, <2>1, <2>2, <2>4, <3>1 DEF Follows
    <2>7. OrderBut' /\ OrderAcross'
      BY <1>1, <1>3, <2>4, RisesInOrder DEF r
    <2>8. iter' < iter /\ iter' >= 1
      BY <1>2, <2>1, <2>2
    <2>9. QED
      BY <1>1, <1>3, <2>4, <2>5, <2>6, <2>7, <2>8 DEF HeapInv
  <1>4. CASE ~Rises /\ loop' = "none" /\ UNCHANGED <<heap, lookup, iter, item>>
    <2>1. heap' = heap /\ lookup' = lookup
      BY <1>4
    <2>2. HeapTypeOK'
      BY <1>1, <1>4, <2>1 DEF HeapInv, HeapTypeOK
    <2>3. Unique(heap') /\ Points' /\ Follows'
      BY <1>1, <1>4 DEF HeapInv, Unique, Points, Follows
    <2>4. \A i \in 2..Len(heap) : heap[i].val <= heap[i \div 2].val
      <3> SUFFICES ASSUME NEW i \in 2..Len(heap), i = iter
                   PROVE  heap[i].val <= heap[i \div 2].val
        BY <1>1 DEF HeapInv, OrderBut
      <3>1. i > 1 /\ i \in 1..Len(heap) /\ i \div 2 \in 1..Len(heap)
        BY <1>2, Halves
      <3>2. ~(heap[i \div 2].val < heap[i].val)
        BY <1>4, <3>1 DEF Rises, Less
      <3>3. heap[i].val \in Nat /\ heap[i \div 2].val \in Nat
        BY <3>1, VectorFacts
      <3>4. QED
        BY <3>2, <3>3
    <2>5. OrderBut' /\ OrderAcross'
      BY <1>4, <2>4 DEF OrderBut, OrderAcross
    <2>6. QED
      BY <1>1, <1>4, <2>2, <2>3, <2>5 DEF HeapInv, AsMap
  <1>5. QED
    BY <1>3, <1>4 DEF Up

\* pop takes the first entry, and no entry is greater.
LEMMA PopKeeps ==
  ASSUME HeapInv, Pop
  PROVE  HeapInv' /\ \E k \in Keys : PM!Pop(k)
  <1>1. PICK k : k = heap[1].key
    OBVIOUS
  <1>2. 1 \in 1..Len(heap)
    <2>1. heap # <<>> /\ heap \in Seq(Entries)
      BY VectorFacts DEF Pop
    <2>2. QED
      BY <2>1
  <1>3. /\ Head(heap) = heap[1] /\ k \in KeysOf(heap) /\ k \in Keys
        /\ DOMAIN heap = 1..Len(heap) /\ heap \in Seq(Entries) /\ Unique(heap)
    <2>1. heap \in Seq(Entries) /\ Unique(heap) /\ DOMAIN heap = 1..Len(heap)
      BY VectorFacts
    <2>2. heap[1].key \in KeysOf(heap) /\ heap[1].key \in Keys
      BY <1>2, VectorFacts
    <2>3. Head(heap) = heap[1]
      BY <1>2, <2>1
    <2>4. QED
      BY <1>1, <2>1, <2>2, <2>3
  <1>4. /\ loop = "none" /\ popped' = heap[1] /\ Removed(k)
        /\ UNCHANGED <<capacity, again>> /\ Settled
    BY <1>1, <1>3 DEF Pop, Settled
  <1>5. HeapInv' /\ AsMap' = Restrict(AsMap, KeysOf(heap) \ {k})
    BY <1>3, <1>4, RemovedKeeps
  <1>6. DOMAIN AsMap = KeysOf(heap)
    BY DEF AsMap, MapOf
  <1>7. \A i \in DOMAIN heap : AsMap[heap[i].key] = heap[i].val
    BY <1>3, MapOfAt DEF AsMap
  <1>8. \A i \in DOMAIN heap : heap[i].val <= heap[1].val
    BY <1>3, <1>4, InOrder, HeadIsGreatest
  <1>9. \A x \in DOMAIN AsMap : AsMap[x] <= AsMap[k]
    <2> TAKE x \in DOMAIN AsMap
    <2>1. PICK i \in DOMAIN heap : x = heap[i].key
      BY <1>6 DEF KeysOf
    <2>2. AsMap[x] = heap[i].val /\ AsMap[k] = heap[1].val
      BY <1>1, <1>2, <1>3, <1>7, <2>1
    <2>3. QED
      BY <1>8, <2>2
  <1>10. heap[1] = [key |-> k, val |-> AsMap[k]]
    <2>1. heap[1] \in Entries
      BY <1>2, <1>3
    <2>2. AsMap[k] = heap[1].val
      BY <1>1, <1>2, <1>3, <1>7
    <2>3. QED
      BY <1>1, <2>1, <2>2 DEF Entries
  <1>11. PM!Pop(k)
    <2>1. AsMap' = Restrict(AsMap, DOMAIN AsMap \ {k}) /\ k \in DOMAIN AsMap
      BY <1>3, <1>5, <1>6
    <2>2. popped' = [key |-> k, val |-> AsMap[k]]
      BY <1>4, <1>10
    <2>3. QED
      BY <1>9, <2>1, <2>2 DEF PM!Pop, PM!Restrict, Restrict
  <1>12. QED
    BY <1>3, <1>5, <1>11

LEMMA RemoveKeeps ==
  ASSUME HeapInv, NEW k \in Keys, RemoveKey(k)
  PROVE  HeapInv' /\ PM!Drop(k)
  <1>1. k \in KeysOf(heap) /\ Settled /\ Removed(k) /\ UNCHANGED <<capacity, popped, again>>
    BY VectorFacts DEF RemoveKey
  <1>2. HeapInv' /\ AsMap' = Restrict(AsMap, KeysOf(heap) \ {k})
    BY <1>1, RemovedKeeps
  <1>3. DOMAIN AsMap = KeysOf(heap)
    BY DEF AsMap, MapOf
  <1>4. QED
    BY <1>1, <1>2, <1>3 DEF PM!Drop, PM!Restrict, Restrict

-----------------------------------------------------------------------------
\* Initially the heap is empty, and so is the map.
LEMMA HeapInvInit ==
  ASSUME HeapInit
  PROVE  HeapInv /\ PM!Init
  <1>1. heap = <<>> /\ KeysOf(heap) = {}
    BY DEF HeapInit, KeysOf
  <1>2. capacity \in Nat
    BY HeapAssumption DEF HeapInit
  <1>3. HeapTypeOK
    BY <1>1, <1>2 DEF HeapInit, HeapTypeOK
  <1>4. Unique(heap) /\ Points /\ Follows /\ OrderBut /\ OrderAcross
    BY <1>1 DEF HeapInit, Unique, Points, Follows, OrderBut, OrderAcross
  <1>5. AsMap = [k \in {} |-> 0]
    BY <1>1 DEF AsMap, MapOf
  <1>6. popped = NoEntry
    BY DEF HeapInit
  <1>7. QED
    BY <1>3, <1>4, <1>5, <1>6 DEF HeapInv, PM!Init

\* Every step keeps the invariant, is a step of the map or none, and a loop moves.
LEMMA HeapStep ==
  ASSUME HeapInv, [HeapNext]_heapVars
  PROVE  HeapInv' /\ [PM!Next]_PM!pmVars /\ [LoopMoves]_heapVars
  <1>1. ASSUME NEW k \in Keys, NEW v \in Values, AddKey(k, v)
        PROVE  HeapInv' /\ PM!Next /\ LoopMoves
    <2>1. HeapInv' /\ AsMap' = With(AsMap, k, v)
      BY <1>1, AddKeeps
    <2>2. UNCHANGED popped /\ loop = "none"
      BY <1>1 DEF AddKey, Settled
    <2>3. PM!Put(k, v)
      BY <2>1, <2>2 DEF PM!Put, With
    <2>4. QED
      BY <2>1, <2>2, <2>3 DEF PM!Next, LoopMoves
  <1>2. ASSUME NEW k \in Keys, NEW v \in Values, Change(k, v)
        PROVE  HeapInv' /\ PM!Next /\ LoopMoves
    <2>1. HeapInv' /\ AsMap' = With(AsMap, k, v)
      BY <1>2, ChangeKeeps
    <2>2. UNCHANGED popped /\ loop = "none"
      BY <1>2 DEF Change, Settled
    <2>3. PM!Put(k, v)
      BY <2>1, <2>2 DEF PM!Put, With
    <2>4. QED
      BY <2>1, <2>2, <2>3 DEF PM!Next, LoopMoves
  <1>3. ASSUME NEW k \in Keys, RemoveKey(k)
        PROVE  HeapInv' /\ PM!Next /\ LoopMoves
    <2>1. HeapInv' /\ PM!Drop(k)
      BY <1>3, RemoveKeeps
    <2>2. loop = "none"
      BY <1>3 DEF RemoveKey, Settled
    <2>3. QED
      BY <2>1, <2>2 DEF PM!Next, LoopMoves
  <1>4. CASE Pop
    <2>1. HeapInv' /\ \E k \in Keys : PM!Pop(k)
      BY <1>4, PopKeeps
    <2>2. loop = "none"
      BY <1>4 DEF Pop, Settled
    <2>3. QED
      BY <2>1, <2>2 DEF PM!Next, LoopMoves
  <1>5. CASE Build \/ BuildAgain
    <2>1. HeapInv' /\ AsMap' = AsMap /\ UNCHANGED popped
      BY <1>5, BuildKeeps
    <2>2. loop = "none"
      BY <1>5 DEF Build, BuildAgain, Settled
    <2>3. QED
      BY <2>1, <2>2 DEF PM!pmVars, LoopMoves
  <1>6. CASE Down
    <2>1. /\ HeapInv' /\ AsMap' = AsMap /\ UNCHANGED popped
          /\ loop' = "down" => iter' > iter /\ iter' <= Len(heap)
      BY <1>6, DownKeeps
    <2>2. loop = "down"
      BY <1>6 DEF Down
    <2>3. QED
      BY <2>1, <2>2 DEF PM!pmVars, LoopMoves
  <1>7. CASE Up
    <2>1. /\ HeapInv' /\ AsMap' = AsMap /\ UNCHANGED popped
          /\ loop' = "up" => iter' < iter /\ iter' >= 1
      BY <1>7, UpKeeps
    <2>2. loop = "up"
      BY <1>7 DEF Up
    <2>3. QED
      BY <2>1, <2>2 DEF PM!pmVars, LoopMoves
  <1>8. CASE UNCHANGED heapVars
    <2>1. HeapTypeOK'
      BY <1>8 DEF HeapInv, HeapTypeOK, heapVars
    <2>2. Unique(heap') /\ Points' /\ Follows' /\ OrderBut' /\ OrderAcross'
      BY <1>8 DEF HeapInv, heapVars, Unique, Points, Follows, OrderBut, OrderAcross
    <2>3. AsMap' = AsMap /\ UNCHANGED popped
      BY <1>8 DEF AsMap, heapVars
    <2>4. QED
      BY <1>8, <2>1, <2>2, <2>3 DEF HeapInv, PM!pmVars
  <1>9. QED
    BY <1>1, <1>2, <1>3, <1>4, <1>5, <1>6, <1>7, <1>8 DEF HeapNext

\* Between operations the invariant is the order, and always exact iterators.
LEMMA HeapInvImplies ==
  ASSUME HeapInv
  PROVE  HeapOrder /\ LookupExact
  <1>1. HeapOrder
    <2> SUFFICES ASSUME loop = "none", NEW i \in 2..Len(heap)
                 PROVE  ~(heap[i \div 2].val < heap[i].val)
      BY DEF HeapOrder, Less
    <2>1. heap[i].val <= heap[i \div 2].val
      BY InOrder
    <2>2. i \in 1..Len(heap) /\ i \div 2 \in 1..Len(heap)
      BY VectorFacts, Halves
    <2>3. heap[i].val \in Nat /\ heap[i \div 2].val \in Nat
      BY <2>2, VectorFacts
    <2>4. QED
      BY <2>1, <2>3
  <1>2. DOMAIN lookup = KeysOf(heap)
    BY VectorFacts
  <1>3. Cardinality(DOMAIN lookup) = Len(heap)
    BY <1>2, KeysCount, VectorFacts
  <1>4. ASSUME NEW k \in KeysOf(heap)
        PROVE  /\ lookup[k].cap = capacity /\ lookup[k].pos \in DOMAIN heap
               /\ heap[lookup[k].pos].key = k
    <2>1. PICK i \in DOMAIN heap : k = heap[i].key
      BY DEF KeysOf
    <2>2. lookup[k] = [pos |-> i, cap |-> capacity]
      BY <2>1 DEF HeapInv, Points
    <2>3. lookup[k].pos = i /\ lookup[k].cap = capacity
      BY <2>2
    <2>4. QED
      BY <2>1, <2>3
  <1>5. QED
    BY <1>1, <1>2, <1>3, <1>4 DEF LookupExact

\* After any sequence of operations the entries are in order (check_heap) and every
\* iterator is exact, also through the growth of the vector; each iteration of down
\* and up comes nearer to its end; and the heap is a map from which the greatest
\* value is popped (add, push, find, heapify, remove, pop and build).
THEOREM HeapIsCorrect == HeapSpec => HeapCorrect
  <1>1. HeapInit => HeapInv /\ PM!Init
    BY HeapInvInit
  <1>2. HeapInv /\ [HeapNext]_heapVars
          => HeapInv' /\ [PM!Next]_PM!pmVars /\ [LoopMoves]_heapVars
    BY HeapStep
  <1>3. HeapInv => HeapOrder /\ LookupExact
    BY HeapInvImplies
  <1>4. QED
    BY <1>1, <1>2, <1>3, PTL DEF HeapSpec, HeapCorrect, ImplementsPriorityMap, PM!Spec
=============================================================================
