--------------------------- MODULE ThdQueueProofs ---------------------------
(***************************************************************************)
(* Proofs about what hands things from one thread to another: the          *)
(* semaphore, the queue and the deque as MCQueues shares them, and the     *)
(* pool, for any finite set of threads, any items and any limits.          *)
(***************************************************************************)
EXTENDS MCQueues, ThdPool, SequenceTheorems, FiniteSetTheorems, TLAPS

-----------------------------------------------------------------------------
(* Sequences *)

LEMMA ConcatAt ==
  ASSUME NEW S, NEW a \in Seq(S), NEW b \in Seq(S)
  PROVE  /\ a \o b \in Seq(S) /\ Len(a \o b) = Len(a) + Len(b)
         /\ \A i \in 1..Len(a) + Len(b) :
              (a \o b)[i] = IF i <= Len(a) THEN a[i] ELSE b[i - Len(a)]
  OBVIOUS

LEMMA RemoveOnly ==
  ASSUME NEW S, NEW s \in Seq(S), NEW k \in 1..Len(s),
         \A i \in 1..Len(s) : s[i] = s[k] => i = k
  PROVE  LET q == RemoveFirst(s, s[k]) IN
         /\ q \in Seq(S) /\ Len(q) = Len(s) - 1
         /\ \A i \in 1..Len(q) : q[i] = IF i < k THEN s[i] ELSE s[i + 1]
  <1>1. SelectInSeq(s, LAMBDA v : v = s[k]) = k
    <2> DEFINE I == {i \in 1..Len(s) : s[i] = s[k]}
    <2>1. I = {k}
      OBVIOUS
    <2>2. Min(I) = k
      BY <2>1 DEF Min
    <2>3. SelectInSeq(s, LAMBDA v : v = s[k]) = IF I # {} THEN Min(I) ELSE 0
      BY DEF SelectInSeq
    <2>4. QED
      BY <2>1, <2>2, <2>3
  <1>2. RemoveFirst(s, s[k]) = SubSeq(s, 1, k - 1) \o SubSeq(s, k + 1, Len(s))
    BY <1>1 DEF RemoveFirst, RemoveAt
  <1> DEFINE a == SubSeq(s, 1, k - 1)
             b == SubSeq(s, k + 1, Len(s))
  <1>3. /\ a \in Seq(S) /\ Len(a) = k - 1
        /\ \A i \in 1..k - 1 : a[i] = s[i]
    OBVIOUS
  <1>4. /\ b \in Seq(S) /\ Len(b) = Len(s) - k
        /\ \A i \in 1..Len(s) - k : b[i] = s[k + i]
    OBVIOUS
  <1> HIDE DEF a, b
  <1>5. /\ a \o b \in Seq(S) /\ Len(a \o b) = Len(s) - 1
        /\ \A i \in 1..Len(s) - 1 : (a \o b)[i] = IF i < k THEN a[i] ELSE b[i - (k - 1)]
    <2>1. Len(a) + Len(b) = Len(s) - 1
      BY <1>3, <1>4
    <2>2. \A i \in 1..Len(s) - 1 : i < k <=> i <= Len(a)
      BY <1>3
    <2>3. /\ a \o b \in Seq(S) /\ Len(a \o b) = Len(a) + Len(b)
          /\ \A i \in 1..Len(a) + Len(b) :
               (a \o b)[i] = IF i <= Len(a) THEN a[i] ELSE b[i - Len(a)]
      BY <1>3, <1>4, ConcatAt
    <2>4. Len(a) = k - 1
      BY <1>3
    <2>5. QED
      BY <2>1, <2>2, <2>3, <2>4
  <1>6. ASSUME NEW i \in 1..Len(s) - 1
        PROVE  (a \o b)[i] = IF i < k THEN s[i] ELSE s[i + 1]
    <2>1. CASE i < k
      BY <1>3, <1>5, <2>1
    <2>2. CASE ~(i < k)
      <3>1. i - (k - 1) \in 1..Len(s) - k /\ k + (i - (k - 1)) = i + 1
        BY <2>2
      <3>2. QED
        BY <1>4, <1>5, <2>2, <3>1
    <2>3. QED
      BY <2>1, <2>2
  <1>7. QED
    BY <1>2, <1>5, <1>6 DEF a, b

LEMMA Appended ==
  \A S : \A q \in Seq(S) : \A x \in S :
    /\ Append(q, x) \in Seq(S) /\ Len(Append(q, x)) = Len(q) + 1
    /\ Append(q, x)[Len(q) + 1] = x
    /\ \A i \in 1..Len(q) : Append(q, x)[i] = q[i]
  OBVIOUS

LEMMA TailAt ==
  \A S : \A q \in Seq(S) : q # <<>> =>
    /\ Head(q) = q[1] /\ Head(q) \in S /\ Len(q) \in Nat \ {0}
    /\ Tail(q) \in Seq(S) /\ Len(Tail(q)) = Len(q) - 1
    /\ \A i \in 1..Len(q) - 1 : Tail(q)[i] = q[i + 1]
  OBVIOUS

-----------------------------------------------------------------------------
(* ThdSemaphore *)

\* The type invariant is not inductive on its own: that _waiters never goes below
\* zero depends on its being the number of threads in sem_wait.  SemInv is the
\* conjunction of the two.  The lemmas are about single steps, so that the queue
\* can use them for its own steps.
SemInv == SemTypeOK /\ WaitersCounted

InWait == {t \in Threads : InSemWait(t)}

LEMMA InWaitFinite == IsFiniteSet(InWait) /\ Cardinality(InWait) \in Nat
  <1>1. InWait \subseteq Threads
    BY DEF InWait
  <1>2. QED
    BY <1>1, ThreadsAssumption, SemAssumption, FS_Subset, FS_CardinalityType

LEMMA SemInitInv == SemInit => SemInv
  <1> SUFFICES ASSUME SemInit PROVE SemInv
    OBVIOUS
  <1>1. SemTypeOK
    <2>1. semValue \in 0..SemValueMax /\ waiters \in Nat
      BY ThreadsAssumption, SemAssumption DEF SemInit
    <2>2. semPc \in [Threads -> SemPcs] /\ semRes \in [Threads -> SemResults]
      BY DEF SemInit, SemPcs, SemResults
    <2>3. abandoned \in BOOLEAN /\ woke \in [Threads -> BOOLEAN]
      BY Zenon DEF SemInit
    <2>4. QED
      BY <2>1, <2>2, <2>3 DEF SemTypeOK
  <1>2. {t \in Threads : InSemWait(t)} = {}
    BY DEF SemInit, InSemWait
  <1>3. QED
    BY <1>1, <1>2, FS_EmptySet DEF SemInit, SemInv, WaitersCounted

\* A step of the semaphore keeps its types and the count of its waiters.
LEMMA SemStepInv ==
  ASSUME SemInv, NEW t \in Threads, SemCall(t) \/ SemStep(t)
  PROVE  SemInv'
  <1> USE ThreadsAssumption, SemAssumption DEF SemInv, SemTypeOK, SemPcs, SemResults
  <1>1. waiters = Cardinality(InWait)
    BY DEF WaitersCounted, InWait
  <1>2. ASSUME InWait' = InWait, waiters' = waiters
        PROVE  WaitersCounted'
    BY <1>2, <1>1 DEF WaitersCounted, InWait
  <1>3. CASE Increment(t)
    <2>1. SemTypeOK'
      BY <1>3 DEF Increment, Posted
    <2>2. InWait' = InWait
      BY <1>3 DEF Increment, InWait, InSemWait
    <2>3. QED
      BY <1>3, <1>2, <2>1, <2>2 DEF Increment
  <1>4. CASE DecrementRefused(t)
    <2>1. SemTypeOK'
      BY <1>4 DEF DecrementRefused
    <2>2. InWait' = InWait
      BY <1>4 DEF DecrementRefused, InWait, InSemWait
    <2>3. QED
      BY <1>4, <1>2, <2>1, <2>2 DEF DecrementRefused
  <1>5. CASE DecrementEnter(t)
    <2>1. SemTypeOK'
      BY <1>5 DEF DecrementEnter, SemMove
    <2>2. InWait' = InWait
      BY <1>5 DEF DecrementEnter, SemMove, InWait, InSemWait
    <2>3. QED
      BY <1>5, <1>2, <2>1, <2>2 DEF DecrementEnter
  <1>6. CASE AbandonSet(t)
    <2>1. SemTypeOK'
      BY <1>6 DEF AbandonSet, SemMove
    <2>2. InWait' = InWait
      BY <1>6 DEF AbandonSet, SemMove, InWait, InSemWait
    <2>3. QED
      BY <1>6, <1>2, <2>1, <2>2 DEF AbandonSet
  <1>7. CASE DecrementCount(t)
    <2>1. SemTypeOK'
      BY <1>7 DEF DecrementCount, SemMove
    <2>2. InWait' = InWait \cup {t} /\ t \notin InWait
      BY <1>7 DEF DecrementCount, SemMove, InWait, InSemWait
    <2>3. Cardinality(InWait') = Cardinality(InWait) + 1
      BY <2>2, InWaitFinite, FS_AddElement
    <2>4. QED
      BY <1>7, <1>1, <2>1, <2>3 DEF DecrementCount, WaitersCounted, InWait
  <1>8. CASE DecrementWake(t)
    <2>1. SemTypeOK'
      BY <1>8 DEF DecrementWake, SemMove
    <2>2. InWait' = InWait
      BY <1>8 DEF DecrementWake, SemMove, InWait, InSemWait
    <2>3. QED
      BY <1>8, <1>2, <2>1, <2>2 DEF DecrementWake
  <1>9. CASE DecrementInterrupted(t)
    <2>1. SemTypeOK'
      BY <1>9 DEF DecrementInterrupted, SemMove
    <2>2. InWait' = InWait
      BY <1>9 DEF DecrementInterrupted, SemMove, InWait, InSemWait
    <2>3. QED
      BY <1>9, <1>2, <2>1, <2>2 DEF DecrementInterrupted
  <1>10. CASE DecrementUncount(t)
    <2>1. InWait' = InWait \ {t} /\ t \in InWait
      BY <1>10 DEF DecrementUncount, SemMove, InWait, InSemWait
    <2>2. Cardinality(InWait') = Cardinality(InWait) - 1
      BY <2>1, InWaitFinite, FS_RemoveElement
    <2>3. Cardinality(InWait') \in Nat
      BY <2>1, InWaitFinite, FS_RemoveElement, FS_CardinalityType
    <2>4. waiters' = Cardinality(InWait')
      BY <1>10, <1>1, <2>2 DEF DecrementUncount
    <2>5. SemTypeOK'
      BY <1>10, <2>3, <2>4 DEF DecrementUncount, SemMove
    <2>6. QED
      BY <2>4, <2>5 DEF WaitersCounted, InWait
  <1>11. CASE DecrementLeave(t)
    <2>1. SemTypeOK'
      BY <1>11 DEF DecrementLeave, SemMove, LeaveResult
    <2>2. InWait' = InWait
      BY <1>11 DEF DecrementLeave, SemMove, InWait, InSemWait
    <2>3. QED
      BY <1>11, <1>2, <2>1, <2>2 DEF DecrementLeave
  <1>12. CASE AbandonAgain(t)
    <2>1. SemTypeOK'
      BY <1>12 DEF AbandonAgain, SemMove
    <2>2. InWait' = InWait
      BY <1>12 DEF AbandonAgain, SemMove, InWait, InSemWait
    <2>3. QED
      BY <1>12, <1>2, <2>1, <2>2 DEF AbandonAgain
  <1>13. CASE AbandonPost(t)
    <2>1. SemTypeOK'
      BY <1>13 DEF AbandonPost, SemMove, Posted
    <2>2. InWait' = InWait
      BY <1>13 DEF AbandonPost, SemMove, InWait, InSemWait
    <2>3. QED
      BY <1>13, <1>2, <2>1, <2>2 DEF AbandonPost
  <1>14. CASE AbandonDone(t)
    <2>1. SemTypeOK'
      BY <1>14 DEF AbandonDone, SemMove
    <2>2. InWait' = InWait
      BY <1>14 DEF AbandonDone, SemMove, InWait, InSemWait
    <2>3. QED
      BY <1>14, <1>2, <2>1, <2>2 DEF AbandonDone
  <1>15. QED
    BY <1>3, <1>4, <1>5, <1>6, <1>7, <1>8, <1>9, <1>10, <1>11, <1>12, <1>13,
       <1>14 DEF SemCall, SemStep, DecrementInner

LEMMA SemUnchangedInv == SemInv /\ UNCHANGED semVars => SemInv'
  BY DEF SemInv, SemTypeOK, WaitersCounted, InSemWait, semVars

\* The types of the semaphore, for every set of threads and every limit.
THEOREM SemTypeCorrect == SemSpec => [](SemTypeOK /\ WaitersCounted)
  <1>1. SemInit => SemInv
    BY SemInitInv
  <1>2. SemInv /\ [SemNext]_semVars => SemInv'
    BY SemStepInv, SemUnchangedInv DEF SemNext
  <1>3. SemInv => SemTypeOK /\ WaitersCounted
    BY DEF SemInv
  <1>4. QED
    BY <1>1, <1>2, <1>3, PTL DEF SemSpec

\* No decrement returns SYNCOP_SUCCESS from an abandoned semaphore.
THEOREM SemNoSuccessAfterAbandon == SemSpec => NoSuccessAfterAbandon
  <1> DEFINE A == \A t \in Threads :
              abandoned /\ semRes'[t] = "SUCCESS" => semRes[t] = "SUCCESS"
  <1>1. SemInv /\ [SemNext]_semVars => [A]_semVars
    <2> SUFFICES ASSUME SemInv, NEW u \in Threads, SemCall(u) \/ SemStep(u)
                 PROVE  A
      BY DEF SemNext
    <2> USE DEF SemInv, SemTypeOK
    <2>1. CASE UNCHANGED semRes
      BY <2>1
    <2>2. CASE DecrementRefused(u)
      BY <2>2 DEF DecrementRefused
    <2>3. CASE DecrementEnter(u)
      BY <2>3 DEF DecrementEnter
    <2>4. CASE DecrementLeave(u)
      BY <2>4 DEF DecrementLeave, LeaveResult
    <2>5. QED
      BY <2>1, <2>2, <2>3, <2>4
      DEF SemCall, SemStep, DecrementInner, Increment, AbandonSet, DecrementCount,
          DecrementWake, DecrementInterrupted, DecrementUncount, AbandonAgain,
          AbandonPost, AbandonDone
  <1>2. SemInit => SemInv
    BY SemInitInv
  <1>3. SemInv /\ [SemNext]_semVars => SemInv'
    BY SemStepInv, SemUnchangedInv DEF SemNext
  <1>4. QED
    BY <1>1, <1>2, <1>3, PTL DEF SemSpec, NoSuccessAfterAbandon

-----------------------------------------------------------------------------
(* ThdQueue *)

-----------------------------------------------------------------------------
(* The container *)

\* A nonempty priority queue has a greatest item.  The set of the places with
\* a greater item, taken for the place where it is smallest, is empty.
LEMMA GreatestExists ==
  ASSUME NEW q \in Seq(Items), q # <<>>
  PROVE  \E i \in 1..Len(q) : \A j \in 1..Len(q) : q[j] <= q[i]
  <1> DEFINE I == 1..Len(q)
             Above(i) == {j \in I : q[j] > q[i]}
             T == {Above(i) : i \in I}
  <1>1. Len(q) \in Nat /\ Len(q) > 0 /\ \A i \in I : q[i] \in Nat
    <2>1. Len(q) \in Nat /\ Len(q) > 0
      BY LenProperties, EmptySeq
    <2>2. \A i \in I : q[i] \in Items
      BY ElementOfSeq
    <2>3. Items \subseteq Nat
      BY ThdQueueAssumption
    <2>4. QED
      BY <2>1, <2>2, <2>3
  <1>2. IsFiniteSet(I)
    BY <1>1, FS_Interval
  <1>3. IsWellFoundedOn(StrictSubsetOrdering(I), SUBSET I)
    BY <1>2, FS_StrictSubsetOrderingWellFounded, FS_FiniteSubsetsOfFinite
  <1>4. T \subseteq SUBSET I /\ T # {}
    <2>1. 1 \in I
      BY <1>1
    <2>2. QED
      BY <2>1
  <1>5. PICK S \in T : \A U \in T : ~ (<<U, S>> \in StrictSubsetOrdering(I))
    BY <1>3, <1>4, WFMin
  <1>6. PICK i \in I : S = Above(i)
    BY <1>5
  <1>7. Above(i) = {}
    <2> SUFFICES ASSUME NEW j \in Above(i) PROVE FALSE
      OBVIOUS
    <2>1. j \in I /\ q[j] > q[i]
      OBVIOUS
    <2>2. Above(j) \subseteq Above(i)
      BY <1>1, <1>6, <2>1
    <2>3. j \notin Above(j) /\ j \in Above(i)
      BY <1>1, <2>1
    <2>4. Above(j) # S /\ Above(j) \subseteq S
      BY <1>6, <2>2, <2>3
    <2>5. <<Above(j), S>> \in StrictSubsetOrdering(I)
      BY <1>4, <1>5, <2>4, <2>1 DEF StrictSubsetOrdering
    <2>6. Above(j) \in T
      BY <2>1
    <2>7. QED
      BY <1>5, <2>5, <2>6
  <1>8. \A j \in I : q[j] <= q[i]
    BY <1>1, <1>6, <1>7
  <1>9. QED
    BY <1>6, <1>8

\* front() and top() of a nonempty container are one of its items.
LEMMA FrontIndexInRange ==
  ASSUME NEW q \in Seq(Items), q # <<>>
  PROVE  FrontIndex(q) \in 1..Len(q)
  <1>1. Len(q) \in Nat /\ Len(q) > 0
    OBVIOUS
  <1>2. CASE isFifo
    BY <1>1, <1>2 DEF FrontIndex
  <1>3. CASE ~isFifo
    BY <1>3, GreatestExists DEF FrontIndex
  <1>4. QED
    BY <1>2, <1>3

\* pop() leaves a container of items, one shorter.
LEMMA RemoveAtShorter ==
  ASSUME NEW q \in Seq(Items), NEW i \in 1..Len(q)
  PROVE  RemoveAt(q, i) \in Seq(Items) /\ Len(RemoveAt(q, i)) = Len(q) - 1
  <1> DEFINE u == SubSeq(q, 1, i - 1)
             v == SubSeq(q, i + 1, Len(q))
  <1>1. u \in Seq(Items) /\ Len(u) = i - 1
    BY SubSeqProperties
  <1>2. v \in Seq(Items) /\ Len(v) = Len(q) - i
    BY SubSeqProperties
  <1>3. u \o v \in Seq(Items) /\ Len(u \o v) = Len(u) + Len(v)
    BY <1>1, <1>2, ConcatProperties
  <1>4. RemoveAt(q, i) = u \o v
    BY DEF RemoveAt
  <1>5. Len(q) \in Nat /\ i \in Nat
    BY LenProperties
  <1> HIDE DEF u, v
  <1>6. Len(u \o v) = Len(q) - 1
    <2>1. Len(u \o v) = (i - 1) + (Len(q) - i)
      BY <1>1, <1>2, <1>3
    <2>2. QED
      BY <1>5, <2>1
  <1>7. QED
    BY <1>3, <1>4, <1>6

-----------------------------------------------------------------------------
(* The invariant *)

Owing == {t \in Threads : Owes(t)}

LEMMA OwingFinite == IsFiniteSet(Owing) /\ Cardinality(Owing) \in Nat
  <1>1. Owing \subseteq Threads
    BY DEF Owing
  <1>2. QED
    BY <1>1, ThreadsAssumption, SemAssumption, FS_Subset, FS_CardinalityType

LEMMA QueueInitInv == Init => QueueInv
  <1> SUFFICES ASSUME Init PROVE QueueInv
    OBVIOUS
  <1>1. SemTypeOK /\ WaitersCounted
    BY SemInitInv DEF Init, SemInv
  <1>2. TypeOK
    <2>1. queue \in Seq(Items) /\ inserts \in 0..MaxInserts
      BY ThdQueueAssumption, EmptySeq DEF Init
    <2>2. /\ guard \in Threads \cup {NoThread}
          /\ pc \in [Threads -> QueuePcs]
          /\ got \in [Threads -> Items \cup {NoItem}]
              BY DEF Init, QueuePcs
    <2>3. down \in BOOLEAN /\ isFifo \in BOOLEAN
      BY DEF Init
    <2>4. QED
      BY <1>1, <2>1, <2>2, <2>3 DEF TypeOK
  <1>3. PcsAgree /\ GuardHeld
    BY ThdQueueAssumption, ThreadsAssumption DEF Init, SemInit, PcsAgree, GuardHeld
  <1>4. {t \in Threads : Owes(t)} = {}
    BY DEF Init, Owes
  <1>5. TokensMatchItems
    <2>1. Cardinality({t \in Threads : Owes(t)}) = 0
      BY <1>4, FS_EmptySet
    <2>2. semValue = 0 /\ Len(queue) = 0
      BY ThdQueueAssumption DEF Init, SemInit
    <2>3. QED
      BY <2>1, <2>2 DEF TokensMatchItems
  <1>6. (abandoned => down) /\ Len(queue) <= inserts
    BY DEF Init, SemInit
  <1>7. QED
    BY <1>1, <1>2, <1>3, <1>5, <1>6 DEF QueueInv

\* A step of the queue leaves the semaphore alone or is one of its steps.
LEMMA QueueStepSem ==
  ASSUME Next
  PROVE  UNCHANGED semVars \/ \E t \in Threads : SemCall(t) \/ SemStep(t)
  BY DEF Next, ThreadNext, InsertPush, InsertSignal, RemoveRefused, RemoveWait, RemoveInside,
         RemoveGranted, RemoveFailed, RemovePop, RemoveAbort, DownBegin,
         DownAbandon, DownEnd, SemCall, SemStep

\* A thread whose token is granted finds an item: it is one of the threads
\* that owe, so there are more items than tokens.
LEMMA GrantedHasItem ==
  ASSUME QueueInv, NEW t \in Threads, pc[t] = "granted", ~down
  PROVE  queue # <<>>
  <1>1. Cardinality(Owing) # 0
    <2>1. t \in Owing
      BY DEF Owing, Owes
    <2>2. QED
      BY <2>1, OwingFinite, FS_EmptySet
  <1>2. semValue + Cardinality(Owing) = Len(queue)
    BY DEF QueueInv, TokensMatchItems, Owing
  <1>3. semValue \in Nat
    BY DEF QueueInv, TypeOK, SemTypeOK
  <1>4. Len(queue) # 0
    BY <1>1, <1>2, <1>3, OwingFinite
  <1>5. QED
    BY <1>4

-----------------------------------------------------------------------------
(* Types, program counters and the guard: one step per action.            *)

QueueTypes ==
  /\ queue \in Seq(Items) /\ Len(queue) <= inserts
  /\ inserts \in 0..MaxInserts
  /\ guard \in Threads \cup {NoThread}
  /\ pc \in [Threads -> QueuePcs]
  /\ got \in [Threads -> Items \cup {NoItem}]
  /\ down \in BOOLEAN /\ isFifo \in BOOLEAN

LEMMA QueueStepTypes ==
  ASSUME QueueInv, Next
  PROVE  QueueTypes'
  <1> PICK t \in Threads :
        \/ \E x \in Items : InsertPush(t, x)
        \/ InsertSignal(t) \/ RemoveRefused(t) \/ RemoveWait(t)
        \/ RemoveInside(t) \/ RemoveGranted(t) \/ RemoveFailed(t)
        \/ RemovePop(t) \/ RemoveAbort(t) \/ DownBegin(t)
        \/ DownAbandon(t) \/ DownEnd(t)
    BY DEF Next, ThreadNext
  <1> QueueTypes
    BY DEF QueueInv, TypeOK, QueueTypes
  <1> USE DEF QueueTypes, QueuePcs
  <1>1. ASSUME NEW x \in Items, InsertPush(t, x)
       PROVE  QueueTypes'
    <2>1. Append(queue, x) \in Seq(Items) /\ Len(Append(queue, x)) = Len(queue) + 1
      BY AppendProperties
    <2>2. QED
      BY <1>1, <2>1, ThdQueueAssumption DEF InsertPush, Move
  <1>2. CASE InsertSignal(t)
    BY <1>2 DEF InsertSignal, Move
  <1>3. CASE RemoveRefused(t)
    BY <1>3 DEF RemoveRefused, Move
  <1>4. CASE RemoveWait(t)
    BY <1>4 DEF RemoveWait, Move
  <1>5. CASE RemoveInside(t)
    BY <1>5 DEF RemoveInside, Move, queueVars
  <1>6. CASE RemoveGranted(t)
    BY <1>6 DEF RemoveGranted, Move
  <1>7. CASE RemoveFailed(t)
    BY <1>7 DEF RemoveFailed, Move
  <1>8. CASE RemovePop(t)
    <2> DEFINE i == FrontIndex(queue)
    <2>1. queue # <<>>
      BY <1>8, GrantedHasItem DEF RemovePop, Move
    <2>2. i \in 1..Len(queue)
      BY <2>1, FrontIndexInRange
    <2>3. queue[i] \in Items
      BY <2>2, ElementOfSeq
    <2>4. RemoveAt(queue, i) \in Seq(Items) /\ Len(RemoveAt(queue, i)) = Len(queue) - 1
      BY <2>2, RemoveAtShorter
    <2> HIDE DEF i
    <2>5. queue' = RemoveAt(queue, i) /\ got' = [got EXCEPT ![t] = queue[i]]
      BY <1>8 DEF RemovePop, i
    <2>6. QED
      BY <1>8, <2>3, <2>4, <2>5, LenProperties DEF RemovePop, Move
  <1>9. CASE RemoveAbort(t)
    BY <1>9 DEF RemoveAbort, Move
  <1>10. CASE DownBegin(t)
    BY <1>10 DEF DownBegin, Move
  <1>11. CASE DownAbandon(t)
    BY <1>11 DEF DownAbandon, Move, queueVars
  <1>12. CASE DownEnd(t)
    BY <1>12 DEF DownEnd, Move
  <1>13. QED
    BY <1>1, <1>2, <1>3, <1>4, <1>5, <1>6, <1>7, <1>8, <1>9, <1>10, <1>11, <1>12

\* The program counters agree, the guard has one owner, and only down
\* abandons the semaphore.
LEMMA QueueStepControl ==
  ASSUME QueueInv, Next
  PROVE  PcsAgree' /\ GuardHeld' /\ (abandoned' => down')
  <1> PICK t \in Threads :
        \/ \E x \in Items : InsertPush(t, x)
        \/ InsertSignal(t) \/ RemoveRefused(t) \/ RemoveWait(t)
        \/ RemoveInside(t) \/ RemoveGranted(t) \/ RemoveFailed(t)
        \/ RemovePop(t) \/ RemoveAbort(t) \/ DownBegin(t)
        \/ DownAbandon(t) \/ DownEnd(t)
    BY DEF Next, ThreadNext
  <1> /\ pc \in [Threads -> QueuePcs]
      /\ semPc \in [Threads -> SemPcs]
      /\ guard \in Threads \cup {NoThread} /\ NoThread \notin Threads
      /\ PcsAgree /\ GuardHeld /\ (abandoned => down)
    BY ThdQueueAssumption, ThreadsAssumption DEF QueueInv, TypeOK, SemTypeOK
  <1> USE DEF PcsAgree, GuardHeld, QueuePcs, SemPcs
  <1>1. ASSUME NEW x \in Items, InsertPush(t, x)
       PROVE  PcsAgree' /\ GuardHeld' /\ (abandoned' => down')
    BY <1>1 DEF InsertPush, Move, semVars
  <1>2. CASE InsertSignal(t)
    BY <1>2 DEF InsertSignal, Move, Increment
  <1>3. CASE RemoveRefused(t)
    BY <1>3 DEF RemoveRefused, Move, DecrementRefused
  <1>4. CASE RemoveWait(t)
    BY <1>4 DEF RemoveWait, Move, DecrementEnter, SemMove
  <1>5. CASE RemoveInside(t)
    BY <1>5 DEF RemoveInside, Move, queueVars, DecrementInner,
       DecrementCount, DecrementWake, DecrementInterrupted, DecrementUncount,
       SemMove
  <1>6. CASE RemoveGranted(t)
    BY <1>6 DEF RemoveGranted, Move, DecrementLeave, SemMove
  <1>7. CASE RemoveFailed(t)
    BY <1>7 DEF RemoveFailed, Move, DecrementLeave, SemMove, LeaveResult
  <1>8. CASE RemovePop(t)
    BY <1>8 DEF RemovePop, Move, semVars
  <1>9. CASE RemoveAbort(t)
    BY <1>9 DEF RemoveAbort, Move, semVars
  <1>10. CASE DownBegin(t)
    BY <1>10 DEF DownBegin, Move, semVars
  <1>11. CASE DownAbandon(t)
    BY <1>11 DEF DownAbandon, Move, queueVars, AbandonSet, AbandonAgain, AbandonPost,
       SemMove
  <1>12. CASE DownEnd(t)
    BY <1>12 DEF DownEnd, Move, AbandonDone, SemMove
  <1>13. QED
    BY <1>1, <1>2, <1>3, <1>4, <1>5, <1>6, <1>7, <1>8,
       <1>9, <1>10, <1>11, <1>12

-----------------------------------------------------------------------------
(* The tokens: who comes to owe, and who pays, in each action.             *)

\* The three ways in which the balance is kept while the queue is up.
LEMMA TokensBalance ==
  ASSUME QueueInv, ~down, semValue' \in Nat, Len(queue') \in Nat,
         \/ /\ Owing' = Owing
            /\ semValue' = semValue /\ Len(queue') = Len(queue)
         \/ \E t : /\ Owing' = Owing \cup {t} /\ t \notin Owing
                  /\ \/ semValue' = semValue /\ Len(queue') = Len(queue) + 1
                     \/ semValue' = semValue - 1 /\ Len(queue') = Len(queue)
         \/ \E t : /\ Owing' = Owing \ {t} /\ t \in Owing
                  /\ \/ semValue' = semValue /\ Len(queue') = Len(queue) - 1
                     \/ semValue' = semValue + 1 /\ Len(queue') = Len(queue)
  PROVE  TokensMatchItems'
  <1>1. semValue + Cardinality(Owing) = Len(queue)
    BY DEF QueueInv, TokensMatchItems, Owing
  <1>2. semValue \in Nat /\ Len(queue) \in Nat
    BY DEF QueueInv, TypeOK, SemTypeOK
  <1>3. \A t : Cardinality(Owing \cup {t}) =
                IF t \in Owing THEN Cardinality(Owing) ELSE Cardinality(Owing) + 1
    BY OwingFinite, FS_AddElement
  <1>4. \A t : Cardinality(Owing \ {t}) =
                IF t \in Owing THEN Cardinality(Owing) - 1 ELSE Cardinality(Owing)
    BY OwingFinite, FS_RemoveElement
  <1>5. semValue' + Cardinality(Owing') = Len(queue')
    BY <1>1, <1>2, <1>3, <1>4, OwingFinite
  <1>6. QED
    BY <1>5 DEF TokensMatchItems, Owing

LEMMA QueueStepTokens ==
  ASSUME QueueInv, Next
  PROVE  TokensMatchItems'
  <1> SUFFICES ASSUME ~down' PROVE TokensMatchItems'
    BY DEF TokensMatchItems
  <1> PICK t \in Threads :
        \/ \E x \in Items : InsertPush(t, x)
        \/ InsertSignal(t) \/ RemoveRefused(t) \/ RemoveWait(t)
        \/ RemoveInside(t) \/ RemoveGranted(t) \/ RemoveFailed(t)
        \/ RemovePop(t) \/ RemoveAbort(t) \/ DownBegin(t)
        \/ DownAbandon(t) \/ DownEnd(t)
    BY DEF Next, ThreadNext
  <1>1. /\ queue \in Seq(Items) /\ Len(queue) \in Nat /\ semValue \in 0..SemValueMax
        /\ pc \in [Threads -> QueuePcs] /\ semPc \in [Threads -> SemPcs]
        /\ woke \in [Threads -> BOOLEAN]
        /\ PcsAgree /\ (abandoned => down)
    BY DEF QueueInv, TypeOK, SemTypeOK
  <1>2. semValue' \in Nat /\ Len(queue') \in Nat
    <2>1. SemInv
      BY DEF QueueInv, SemInv, TypeOK
    <2>2. SemInv'
      BY <2>1, QueueStepSem, SemStepInv, SemUnchangedInv
    <2>3. semValue' \in 0..SemValueMax
      BY <2>2 DEF SemInv, SemTypeOK
    <2>4. queue' \in Seq(Items)
      BY QueueStepTypes DEF QueueTypes
    <2>5. QED
      BY <2>3, <2>4, ThreadsAssumption, SemAssumption, LenProperties
  <1>3. ASSUME NEW x \in Items, InsertPush(t, x)
        PROVE  TokensMatchItems'
    <2>1. Owing' = Owing \cup {t} /\ t \notin Owing
      BY <1>3, <1>1 DEF InsertPush, Move, semVars, Owing, Owes, QueuePcs
    <2>2. Len(queue') = Len(queue) + 1
      BY <1>3, AppendProperties, <1>1 DEF InsertPush
    <2>3. QED
      BY <1>3, <1>2, <2>1, <2>2, TokensBalance DEF InsertPush, semVars
  <1>4. CASE InsertSignal(t)
    <2>1. Owing' = Owing \ {t} /\ t \in Owing
      BY <1>4, <1>1 DEF InsertSignal, Move, Increment, Owing, Owes, PcsAgree, QueuePcs
    <2>2. ~down
      BY <1>4 DEF InsertSignal
    <2>3. semValue + Cardinality(Owing) = Len(queue) /\ Len(queue) <= SemValueMax
      BY <2>2, <1>1, ThdQueueAssumption, ThreadsAssumption, SemAssumption
      DEF QueueInv, TypeOK, TokensMatchItems, Owing
    <2>4. Cardinality(Owing) # 0
      BY <2>1, OwingFinite, FS_EmptySet
    <2>5. semValue < SemValueMax
      BY <2>3, <2>4, <1>1, OwingFinite, ThreadsAssumption, SemAssumption
    <2>6. semValue' = semValue + 1 /\ queue' = queue
      BY <1>4, <2>5 DEF InsertSignal, Increment, Posted
    <2>7. QED
      BY <1>2, <2>1, <2>2, <2>6, TokensBalance
  <1>5. CASE RemoveRefused(t)
    BY <1>5, <1>1 DEF RemoveRefused, DecrementRefused
  <1>6. CASE RemoveWait(t)
    <2>1. Owing' = Owing
      BY <1>6, <1>1 DEF RemoveWait, Move, DecrementEnter, SemMove, Owing, Owes, QueuePcs
    <2>2. QED
      BY <1>6, <1>2, <2>1, TokensBalance DEF RemoveWait, DecrementEnter
  <1>7. CASE RemoveInside(t)
    <2>1. queue' = queue /\ ~down
      BY <1>7 DEF RemoveInside, queueVars
    <2>2. CASE DecrementCount(t)
      <3>1. Owing' = Owing
        BY <1>7, <2>2, <1>1
        DEF RemoveInside, queueVars, DecrementCount, SemMove, Owing, Owes
      <3>2. QED
        BY <1>2, <2>2, <2>1, <3>1, TokensBalance DEF DecrementCount
    <2>3. CASE DecrementWake(t)
      <3>1. Owing' = Owing \cup {t} /\ t \notin Owing
        BY <1>7, <2>3, <1>1
        DEF RemoveInside, queueVars, DecrementWake, SemMove, Owing, Owes, SemPcs
      <3>2. QED
        BY <1>2, <2>3, <2>1, <3>1, TokensBalance DEF DecrementWake
    <2>4. CASE DecrementInterrupted(t)
      <3>1. Owing' = Owing
        BY <1>7, <2>4, <1>1
        DEF RemoveInside, queueVars, DecrementInterrupted, SemMove, Owing, Owes
      <3>2. QED
        BY <1>2, <2>4, <2>1, <3>1, TokensBalance DEF DecrementInterrupted
    <2>5. CASE DecrementUncount(t)
      <3>1. Owing' = Owing
        BY <1>7, <2>5, <1>1
        DEF RemoveInside, queueVars, DecrementUncount, SemMove, Owing, Owes
      <3>2. QED
        BY <1>2, <2>5, <2>1, <3>1, TokensBalance DEF DecrementUncount
    <2>6. QED
      BY <1>7, <2>2, <2>3, <2>4, <2>5 DEF RemoveInside, DecrementInner
  <1>8. CASE RemoveGranted(t)
    <2>1. Owing' = Owing
      BY <1>8, <1>1
      DEF RemoveGranted, Move, DecrementLeave, SemMove, LeaveResult, Owing, Owes, SemPcs, QueuePcs
    <2>2. QED
      BY <1>8, <1>2, <2>1, TokensBalance DEF RemoveGranted, DecrementLeave
  <1>9. CASE RemoveFailed(t)
    <2>1. ~woke[t]
      BY <1>9, <1>1 DEF RemoveFailed, LeaveResult
    <2>2. Owing' = Owing
      BY <1>9, <2>1, <1>1
      DEF RemoveFailed, Move, DecrementLeave, SemMove, Owing, Owes, SemPcs, QueuePcs
    <2>3. QED
      BY <1>9, <1>2, <2>2, TokensBalance DEF RemoveFailed, DecrementLeave
  <1>10. CASE RemovePop(t)
    <2>1. Owing' = Owing \ {t} /\ t \in Owing
      BY <1>10, <1>1 DEF RemovePop, Move, semVars, Owing, Owes, PcsAgree, QueuePcs
    <2>2. queue # <<>>
      BY <1>10, GrantedHasItem DEF RemovePop, Move
    <2>3. Len(queue') = Len(queue) - 1
      BY <1>10, <2>2, <1>1, FrontIndexInRange, RemoveAtShorter DEF RemovePop
    <2>4. QED
      BY <1>10, <1>2, <2>1, <2>3, TokensBalance DEF RemovePop, semVars
  <1>11. CASE RemoveAbort(t)
    BY <1>11 DEF RemoveAbort
  <1>12. CASE DownBegin(t)
    BY <1>12 DEF DownBegin
  <1>13. CASE DownAbandon(t)
    BY <1>13, <1>1 DEF DownAbandon, queueVars, PcsAgree
  <1>14. CASE DownEnd(t)
    BY <1>14, <1>1 DEF DownEnd, Move, PcsAgree
  <1>15. QED
    BY <1>3, <1>4, <1>5, <1>6, <1>7, <1>8, <1>9, <1>10, <1>11, <1>12, <1>13, <1>14

-----------------------------------------------------------------------------
(* The theorems *)

LEMMA QueueStepInv == QueueInv /\ [Next]_vars => QueueInv'
  <1>1. ASSUME QueueInv, Next PROVE QueueInv'
    <2>1. SemInv
      BY <1>1 DEF QueueInv, SemInv, TypeOK
    <2>2. SemInv'
      BY <1>1, <2>1, QueueStepSem, SemStepInv, SemUnchangedInv
    <2>3. TypeOK' /\ (Len(queue) <= inserts)' /\ WaitersCounted'
      BY <1>1, <2>2, QueueStepTypes DEF QueueTypes, TypeOK, SemInv
    <2>4. QED
      BY <1>1, <2>3, QueueStepControl, QueueStepTokens DEF QueueInv
  <1>2. ASSUME QueueInv, UNCHANGED vars PROVE QueueInv'
    <2>1. SemInv'
      BY <1>2, SemUnchangedInv DEF QueueInv, TypeOK, SemInv, vars
    <2>2. TypeOK'
      BY <1>2, <2>1 DEF QueueInv, TypeOK, SemInv, vars, queueVars
    <2>3. PcsAgree' /\ GuardHeld' /\ (abandoned' => down') /\ (Len(queue) <= inserts)'
      BY <1>2 DEF QueueInv, PcsAgree, GuardHeld, vars, queueVars, semVars
    <2>4. TokensMatchItems'
      BY <1>2 DEF QueueInv, TokensMatchItems, Owes, vars, queueVars, semVars
    <2>5. QED
      BY <2>1, <2>2, <2>3, <2>4 DEF QueueInv, SemInv
  <1>3. QED
    BY <1>1, <1>2

LEMMA QueueInvariant == Spec => []QueueInv
  BY QueueInitInv, QueueStepInv, PTL DEF Spec

\* The types hold in every reachable state.
THEOREM QueueTypeCorrect == Spec => []TypeOK
  <1>1. QueueInv => TypeOK
    BY DEF QueueInv
  <1>2. QED
    BY <1>1, QueueInvariant, PTL

\* While the queue is up, tokens and items match.
THEOREM QueueTokens == Spec => []TokensMatchItems
  <1>1. QueueInv => TokensMatchItems
    BY DEF QueueInv
  <1>2. QED
    BY <1>1, QueueInvariant, PTL

\* front() and pop() are never called on an empty container: the guarantee
\* that remove's comment claims (ThdQueue.h:156).
THEOREM QueuePopHasItem == Spec => []PopHasItem
  <1>1. QueueInv => PopHasItem
    BY GrantedHasItem DEF PopHasItem
  <1>2. QED
    BY <1>1, QueueInvariant, PTL

\* The queue with its semaphore and its guard implements the closable queue.
THEOREM QueueImplements == Spec => ImplementsClosableQueue
  <1>1. Init => CQ!Init
    BY DEF Init, CQ!Init
  <1>2. QueueInv /\ [Next]_vars => [CQ!Next]_(CQ!cqVars)
    <2> SUFFICES ASSUME QueueInv, Next PROVE CQ!Next \/ UNCHANGED CQ!cqVars
      BY DEF vars, queueVars, CQ!cqVars
    <2> PICK t \in Threads :
          \/ \E x \in Items : InsertPush(t, x)
          \/ InsertSignal(t) \/ RemoveRefused(t) \/ RemoveWait(t)
          \/ RemoveInside(t) \/ RemoveGranted(t) \/ RemoveFailed(t)
          \/ RemovePop(t) \/ RemoveAbort(t) \/ DownBegin(t)
          \/ DownAbandon(t) \/ DownEnd(t)
      BY DEF Next, ThreadNext
    <2>1. ASSUME NEW x \in Items, InsertPush(t, x) PROVE CQ!Put(x)
      BY <2>1 DEF InsertPush, CQ!Put
    <2>2. CASE RemovePop(t)
      <3>1. queue # <<>>
        BY <2>2, GrantedHasItem DEF RemovePop, Move
      <3>2. FrontIndex(queue) = CQ!FrontIndex(queue)
        BY DEF FrontIndex, CQ!FrontIndex
      <3>3. CQ!Take(t)
        BY <2>2, <3>1, <3>2 DEF RemovePop, CQ!Take, RemoveAt, CQ!RemoveAt
      <3>4. QED
        BY <3>3 DEF CQ!Next
    <2>3. CASE DownBegin(t)
      BY <2>3 DEF DownBegin, CQ!Close, CQ!Next
    <2>4. CASE \/ InsertSignal(t) \/ RemoveRefused(t) \/ RemoveWait(t)
               \/ RemoveInside(t) \/ RemoveGranted(t) \/ RemoveFailed(t)
               \/ RemoveAbort(t) \/ DownAbandon(t) \/ DownEnd(t)
      BY <2>4 DEF InsertSignal, RemoveRefused, RemoveWait, RemoveInside,
         RemoveGranted, RemoveFailed, RemoveAbort, DownAbandon, DownEnd,
         queueVars, CQ!cqVars
    <2>5. QED
      BY <2>1, <2>2, <2>3, <2>4 DEF CQ!Next
  <1>3. QED
    BY <1>1, <1>2, QueueInvariant, PTL DEF Spec, ImplementsClosableQueue, CQ!Spec

-----------------------------------------------------------------------------
(* ThdDeque *)

\* An item is not inserted yet, or in the deque at one place, or received, or
\* taken back, and never two of these.
DequeInv ==
  /\ dqQueue \in Seq(Items)
  /\ fresh \subseteq Items /\ erased \subseteq Items
  /\ dqGot \in [TwoThreads -> Items \cup {NoItem}]
  /\ fresh \cap erased = {}
  /\ \A t \in TwoThreads : dqGot[t] \notin fresh \cup erased
  /\ \A i \in 1..Len(dqQueue) :
       /\ dqQueue[i] \notin fresh \cup erased
       /\ \A t \in TwoThreads : dqGot[t] # dqQueue[i]
  /\ \A i, j \in 1..Len(dqQueue) : dqQueue[i] = dqQueue[j] => i = j

LEMMA DequeInit == Deque!Init => DequeInv
  <1> SUFFICES ASSUME Deque!Init PROVE DequeInv
    OBVIOUS
  <1>1. 1..Len(dqQueue) = {}
    BY DEF Deque!Init
  <1>2. QED
    BY <1>1, ThdQueueAssumption DEF Deque!Init, DequeInv

LEMMA DequePush ==
  ASSUME DequeInv, NEW t \in TwoThreads, NEW x \in Items, Deque!InsertPush(t, x)
  PROVE  DequeInv'
  <1>1. /\ x \in fresh /\ fresh' = fresh \ {x} /\ UNCHANGED <<dqGot, erased>>
        /\ dqQueue' = Append(dqQueue, x)
    BY DEF Deque!InsertPush
  <1>2. /\ dqQueue' \in Seq(Items) /\ Len(dqQueue') = Len(dqQueue) + 1
        /\ dqQueue'[Len(dqQueue) + 1] = x
        /\ \A i \in 1..Len(dqQueue) : dqQueue'[i] = dqQueue[i]
        /\ Len(dqQueue) \in Nat
    BY <1>1, Appended DEF DequeInv
  <1>3. \A i \in 1..Len(dqQueue') :
          \/ i \in 1..Len(dqQueue) /\ dqQueue'[i] = dqQueue[i]
          \/ i = Len(dqQueue) + 1 /\ dqQueue'[i] = x
    BY <1>2
  <1>4. x \notin erased /\ \A i \in 1..Len(dqQueue) : dqQueue[i] # x
    BY <1>1 DEF DequeInv
  <1>5. \A i, j \in 1..Len(dqQueue') : dqQueue'[i] = dqQueue'[j] => i = j
    BY <1>3, <1>4 DEF DequeInv
  <1>6. \A i \in 1..Len(dqQueue') :
          /\ dqQueue'[i] \notin fresh' \cup erased'
          /\ \A u \in TwoThreads : dqGot'[u] # dqQueue'[i]
    BY <1>1, <1>3, <1>4 DEF DequeInv
  <1>7. QED
    BY <1>1, <1>2, <1>5, <1>6 DEF DequeInv

LEMMA DequeErase ==
  ASSUME DequeInv, NEW t \in TwoThreads, NEW x \in Items, Deque!RemoveItem(t, x)
  PROVE  DequeInv'
  <1>1. Deque!RemoveFirst(dqQueue, x) = RemoveFirst(dqQueue, x)
    BY DEF Deque!RemoveFirst, RemoveFirst, Deque!RemoveAt, RemoveAt,
           Deque!SelectInSeq, SelectInSeq, Deque!Min, Min
  <1>2. /\ x \in ToSet(dqQueue) /\ dqQueue' = RemoveFirst(dqQueue, x)
        /\ erased' = erased \cup {x} /\ UNCHANGED <<dqGot, fresh>>
    BY <1>1 DEF Deque!RemoveItem, Deque!ToSet, ToSet
  <1>3. PICK n \in 1..Len(dqQueue) : dqQueue[n] = x
    BY <1>2 DEF ToSet, DequeInv
  <1>4. /\ dqQueue' \in Seq(Items) /\ Len(dqQueue') = Len(dqQueue) - 1
        /\ \A i \in 1..Len(dqQueue') :
             dqQueue'[i] = IF i < n THEN dqQueue[i] ELSE dqQueue[i + 1]
    BY <1>2, <1>3, RemoveOnly DEF DequeInv
  <1>5. \A i \in 1..Len(dqQueue') :
          /\ (IF i < n THEN i ELSE i + 1) \in 1..Len(dqQueue) \ {n}
          /\ dqQueue'[i] = dqQueue[IF i < n THEN i ELSE i + 1]
    BY <1>4 DEF DequeInv
  <1>6. \A i, j \in 1..Len(dqQueue') : dqQueue'[i] = dqQueue'[j] => i = j
    <2> SUFFICES ASSUME NEW i \in 1..Len(dqQueue'), NEW j \in 1..Len(dqQueue'),
                        dqQueue'[i] = dqQueue'[j]
                 PROVE  i = j
      OBVIOUS
    <2>1. (IF i < n THEN i ELSE i + 1) = (IF j < n THEN j ELSE j + 1)
      BY <1>5 DEF DequeInv
    <2>2. QED
      BY <2>1
  <1>7. \A i \in 1..Len(dqQueue') :
          /\ dqQueue'[i] \notin fresh' \cup erased'
          /\ \A u \in TwoThreads : dqGot'[u] # dqQueue'[i]
    <2> SUFFICES ASSUME NEW i \in 1..Len(dqQueue')
                 PROVE  /\ dqQueue'[i] \notin fresh' \cup erased'
                        /\ \A u \in TwoThreads : dqGot'[u] # dqQueue'[i]
      OBVIOUS
    <2>1. PICK j \in 1..Len(dqQueue) : j # n /\ dqQueue'[i] = dqQueue[j]
      BY <1>5
    <2>2. dqQueue[j] # x
      BY <1>3, <2>1 DEF DequeInv
    <2>3. QED
      BY <1>2, <2>1, <2>2 DEF DequeInv
  <1>8. x \notin fresh /\ \A u \in TwoThreads : dqGot[u] # x
    BY <1>3 DEF DequeInv
  <1>9. QED
    BY <1>2, <1>4, <1>6, <1>7, <1>8 DEF DequeInv

LEMMA DequePop ==
  ASSUME DequeInv, NEW t \in TwoThreads, Deque!RemovePop(t)
  PROVE  DequeInv'
  <1>1. /\ dqQueue # <<>> /\ dqQueue' = Tail(dqQueue)
        /\ dqGot' = [dqGot EXCEPT ![t] = Head(dqQueue)] /\ UNCHANGED <<fresh, erased>>
    BY DEF Deque!RemovePop
  <1>2. /\ Head(dqQueue) = dqQueue[1] /\ dqQueue[1] \in Items
        /\ dqQueue' \in Seq(Items) /\ Len(dqQueue') = Len(dqQueue) - 1
        /\ \A i \in 1..Len(dqQueue) - 1 : dqQueue'[i] = dqQueue[i + 1]
        /\ Len(dqQueue) \in Nat \ {0}
    BY <1>1, TailAt DEF DequeInv
  <1>3. \A i \in 1..Len(dqQueue') :
          /\ i + 1 \in 1..Len(dqQueue) /\ i + 1 # 1 /\ dqQueue'[i] = dqQueue[i + 1]
    BY <1>2
  <1>4. 1 \in 1..Len(dqQueue)
    BY <1>2
  <1>5. \A u \in TwoThreads : dqGot'[u] = IF u = t THEN dqQueue[1] ELSE dqGot[u]
    BY <1>1, <1>2 DEF DequeInv
  <1>6. dqGot' \in [TwoThreads -> Items \cup {NoItem}]
    BY <1>1, <1>2 DEF DequeInv
  <1>7. \A i, j \in 1..Len(dqQueue') : dqQueue'[i] = dqQueue'[j] => i = j
    <2> SUFFICES ASSUME NEW i \in 1..Len(dqQueue'), NEW j \in 1..Len(dqQueue'),
                        dqQueue'[i] = dqQueue'[j]
                 PROVE  i = j
      OBVIOUS
    <2>1. i + 1 = j + 1
      BY <1>3 DEF DequeInv
    <2>2. QED
      BY <2>1
  <1>8. \A i \in 1..Len(dqQueue') :
          /\ dqQueue'[i] \notin fresh' \cup erased'
          /\ \A u \in TwoThreads : dqGot'[u] # dqQueue'[i]
    <2> SUFFICES ASSUME NEW i \in 1..Len(dqQueue')
                 PROVE  /\ dqQueue'[i] \notin fresh' \cup erased'
                        /\ \A u \in TwoThreads : dqGot'[u] # dqQueue'[i]
      OBVIOUS
    <2>1. dqQueue[i + 1] # dqQueue[1]
      BY <1>3, <1>4 DEF DequeInv
    <2>2. QED
      BY <1>1, <1>3, <1>5, <2>1 DEF DequeInv
  <1>9. \A u \in TwoThreads : dqGot'[u] \notin fresh' \cup erased'
    BY <1>1, <1>4, <1>5 DEF DequeInv
  <1>10. QED
    BY <1>1, <1>2, <1>6, <1>7, <1>8, <1>9 DEF DequeInv

\* Whatever is inserted, erased and popped in a ThdDeque, by any threads: an item
\* that erase has taken back is never given to a remover. (ThdDeque.h:92-130)
THEOREM ErasedIsNeverReceived == Deque!Spec => []ErasedNeverReceived
  <1>1. DequeInv /\ [Deque!Next]_Deque!vars => DequeInv'
    <2> SUFFICES ASSUME DequeInv, [Deque!Next]_Deque!vars
                 PROVE  DequeInv'
      OBVIOUS
    <2>1. ASSUME NEW t \in TwoThreads, NEW x \in Items, Deque!InsertPush(t, x)
          PROVE  DequeInv'
      BY <2>1, DequePush
    <2>2. ASSUME NEW t \in TwoThreads, NEW x \in Items, Deque!RemoveItem(t, x)
          PROVE  DequeInv'
      BY <2>2, DequeErase
    <2>3. ASSUME NEW t \in TwoThreads, Deque!RemovePop(t)
          PROVE  DequeInv'
      BY <2>3, DequePop
    <2>4. CASE UNCHANGED <<dqQueue, dqGot, fresh, erased>>
      BY <2>4 DEF DequeInv
    <2>5. ASSUME NEW t \in TwoThreads,
                 \/ Deque!InsertSignal(t)
                 \/ Deque!RemoveRefused(t)
                 \/ Deque!RemoveWait(t)
                 \/ Deque!RemoveWaitAgain(t)
                 \/ Deque!RemoveRefusedAgain(t)
                 \/ Deque!RemoveInside(t)
                 \/ Deque!RemoveGranted(t)
                 \/ Deque!RemoveFailed(t)
                 \/ Deque!RemoveEmpty(t)
                 \/ Deque!RemoveAbort(t)
                 \/ Deque!DownBegin(t)
                 \/ Deque!DownAbandon(t)
                 \/ Deque!DownEnd(t)
          PROVE  UNCHANGED <<dqQueue, dqGot, fresh, erased>>
      BY <2>5 DEF Deque!InsertSignal, Deque!RemoveRefused, Deque!RemoveWait,
                  Deque!RemoveWaitAgain, Deque!RemoveRefusedAgain, Deque!RemoveInside,
                  Deque!RemoveGranted, Deque!RemoveFailed, Deque!RemoveEmpty,
                  Deque!RemoveAbort, Deque!DownBegin, Deque!DownAbandon, Deque!DownEnd,
                  Deque!dequeVars
    <2>6. CASE UNCHANGED Deque!vars
      BY <2>4, <2>6 DEF Deque!vars, Deque!dequeVars
    <2>7. QED
      BY <2>1, <2>2, <2>3, <2>4, <2>5, <2>6 DEF Deque!Next
  <1>2. DequeInv => ErasedNeverReceived
    BY DEF DequeInv, ErasedNeverReceived, Deque!ErasedNeverReceived
  <1>3. QED
    BY <1>1, <1>2, DequeInit, PTL DEF Deque!Spec

-----------------------------------------------------------------------------
(* ThdPool *)

ArgTypeOK == arg \in [PoolUsers -> [pool : Pools, runner : Runners \cup {NoRunner}]]

\* What a user, a queue, a worker or dequeue has, nobody else has.
QueuedOnce ==
  \A k, l \in Pools : \A i \in 1..Len(poolQ[k]), j \in 1..Len(poolQ[l]) :
    poolQ[k][i] = poolQ[l][j] => k = l /\ i = j

QueuedNotElsewhere ==
  \A k \in Pools : \A i \in 1..Len(poolQ[k]) :
    /\ poolQ[k][i] \notin taken
    /\ \A l \in Pools, s \in Slots : job[l][s] # poolQ[k][i]
    /\ \A u \in PoolUsers : arg[u].runner # poolQ[k][i]

BroughtOnce ==
  \A u \in PoolUsers :
    /\ user[u] # "idle" => arg[u].runner # NoRunner
    /\ arg[u].runner \notin taken
    /\ \A v \in PoolUsers : arg[u].runner = arg[v].runner => u = v \/ arg[u].runner = NoRunner
    /\ \A k \in Pools, s \in Slots : job[k][s] = arg[u].runner => job[k][s] = NoRunner

RunnerInv ==
  PoolTypeOK /\ ArgTypeOK /\ QueuedOnce /\ QueuedNotElsewhere /\ BroughtOnce /\ TakenNeverRuns

LEMMA HandedOut ==
  ASSUME PoolTypeOK, NEW r, r \notin Handed
  PROVE  /\ \A u \in PoolUsers : arg[u].runner # r
         /\ r \notin taken
         /\ \A k \in Pools : \A i \in 1..Len(poolQ[k]) : poolQ[k][i] # r
         /\ \A k \in Pools, s \in Slots : job[k][s] # r
  <1>1. /\ \A u \in PoolUsers : arg[u].runner # r
        /\ r \notin taken
    BY DEF Handed
  <1>2. ASSUME NEW k \in Pools, NEW s \in Slots
        PROVE  job[k][s] # r
    BY DEF Handed
  <1>3. ASSUME NEW k \in Pools, NEW i \in 1..Len(poolQ[k])
        PROVE  poolQ[k][i] # r
    <2>1. poolQ[k] \in Seq(Runners)
      BY DEF PoolTypeOK
    <2>2. DOMAIN poolQ[k] = 1..Len(poolQ[k])
      BY <2>1
    <2>3. poolQ[k][i] \in ToSet(poolQ[k])
      BY <2>2 DEF ToSet
    <2>4. QED
      BY <2>3 DEF Handed
  <1>4. QED
    BY <1>1, <1>2, <1>3

LEMMA RunnerInvInit == PoolInit => RunnerInv
  <1> SUFFICES ASSUME PoolInit PROVE RunnerInv
    OBVIOUS
  <1> USE ThdPoolAssumption DEF PoolInit, Pools, NoArg
  <1>1. PoolTypeOK
    BY DEF PoolTypeOK, WorkerPlaces, UserPlaces
  <1>2. ArgTypeOK /\ BroughtOnce /\ TakenNeverRuns
    BY DEF ArgTypeOK, BroughtOnce, TakenNeverRuns
  <1>3. \A k \in Pools : 1..Len(poolQ[k]) = {}
    OBVIOUS
  <1>4. QueuedOnce /\ QueuedNotElsewhere
    BY <1>3 DEF QueuedOnce, QueuedNotElsewhere
  <1>5. QED
    BY <1>1, <1>2, <1>4 DEF RunnerInv

LEMMA RunKeepsRunners ==
  ASSUME RunnerInv, NEW u \in PoolUsers, NEW k \in Pools, NEW r \in Runners, Run(u, k, r)
  PROVE  RunnerInv'
  <1> USE ThdPoolAssumption DEF RunnerInv, Run
  <1>1. PoolTypeOK'
    BY DEF PoolTypeOK, UserPlaces, WorkerPlaces
  <1>2. ArgTypeOK'
    BY DEF ArgTypeOK
  <1>3. /\ \A v \in PoolUsers : arg[v].runner # r
        /\ r \notin taken
        /\ \A l \in Pools : \A i \in 1..Len(poolQ[l]) : poolQ[l][i] # r
        /\ \A l \in Pools, s \in Slots : job[l][s] # r
    BY HandedOut
  <1>4. /\ arg'[u].runner = r /\ user'[u] # "idle"
        /\ \A v \in PoolUsers \ {u} : arg'[v] = arg[v] /\ user'[v] = user[v]
    BY DEF ArgTypeOK, PoolTypeOK
  <1>5. QueuedOnce' /\ TakenNeverRuns'
    BY DEF QueuedOnce, TakenNeverRuns
  <1>6. QueuedNotElsewhere'
    BY <1>3, <1>4 DEF QueuedNotElsewhere
  <1>7. BroughtOnce'
    BY <1>3, <1>4 DEF BroughtOnce
  <1>8. QED
    BY <1>1, <1>2, <1>5, <1>6, <1>7

LEMMA InsertKeepsRunners ==
  ASSUME RunnerInv, NEW u \in PoolUsers, InsertRunner(u)
  PROVE  RunnerInv'
  <1> USE ThdPoolAssumption DEF RunnerInv, InsertRunner, PoolMove
  <1> DEFINE k == arg[u].pool
             r == arg[u].runner
             q == poolQ[k]
  <1>1. k \in Pools /\ r \in Runners /\ q \in Seq(Runners)
    BY DEF ArgTypeOK, PoolTypeOK, BroughtOnce
  <1>2. /\ poolQ'[k] = Append(q, r) /\ \A l \in Pools \ {k} : poolQ'[l] = poolQ[l]
        /\ poolQ' = [poolQ EXCEPT ![k] = Append(q, r)]
        /\ arg'[u].runner = NoRunner /\ \A v \in PoolUsers \ {u} : arg'[v] = arg[v]
    BY <1>1 DEF ArgTypeOK, PoolTypeOK, NoArg
  <1>3. /\ Append(q, r) \in Seq(Runners) /\ Len(poolQ'[k]) = Len(q) + 1
        /\ poolQ'[k][Len(q) + 1] = r
        /\ \A i \in 1..Len(q) : poolQ'[k][i] = q[i]
        /\ Len(q) \in Nat
    BY <1>1, <1>2, Appended
  <1>4. /\ r \notin taken
        /\ \A l \in Pools : \A i \in 1..Len(poolQ[l]) : poolQ[l][i] # r
        /\ \A l \in Pools, s \in Slots : job[l][s] # r
        /\ \A v \in PoolUsers \ {u} : arg[v].runner # r
    BY <1>1 DEF QueuedNotElsewhere, BroughtOnce
  <1>5. PoolTypeOK' /\ ArgTypeOK'
    <2>1. poolQ' \in [Pools -> Seq(Runners)]
      BY <1>1, <1>2, <1>3 DEF PoolTypeOK
    <2>2. arg' \in [PoolUsers -> [pool : Pools, runner : Runners \cup {NoRunner}]]
      BY DEF ArgTypeOK, NoArg, Pools
    <2>3. QED
      BY <2>1, <2>2 DEF PoolTypeOK, ArgTypeOK, UserPlaces
  <1> HIDE DEF k, r, q
  <1>6. \A l \in Pools, i \in Nat : i \in 1..Len(poolQ'[l]) =>
          \/ i \in 1..Len(poolQ[l]) /\ poolQ'[l][i] = poolQ[l][i]
          \/ l = k /\ i = Len(q) + 1 /\ poolQ'[l][i] = r
    BY <1>1, <1>2, <1>3 DEF q
  <1>7. QueuedOnce'
    <2> SUFFICES ASSUME NEW l \in Pools, NEW m \in Pools, NEW i \in 1..Len(poolQ'[l]),
                        NEW j \in 1..Len(poolQ'[m]), poolQ'[l][i] = poolQ'[m][j]
                 PROVE  l = m /\ i = j
      BY DEF QueuedOnce
    <2>1. \/ i \in 1..Len(poolQ[l]) /\ poolQ'[l][i] = poolQ[l][i]
          \/ l = k /\ i = Len(q) + 1 /\ poolQ'[l][i] = r
      BY <1>6
    <2>2. \/ j \in 1..Len(poolQ[m]) /\ poolQ'[m][j] = poolQ[m][j]
          \/ m = k /\ j = Len(q) + 1 /\ poolQ'[m][j] = r
      BY <1>6
    <2>3. \A o \in Pools : \A n \in 1..Len(poolQ[o]) : poolQ[o][n] # r
      BY <1>4
    <2>4. QED
      BY <2>1, <2>2, <2>3 DEF QueuedOnce
  <1>8. QueuedNotElsewhere'
    <2> SUFFICES ASSUME NEW l \in Pools, NEW i \in 1..Len(poolQ'[l])
                 PROVE  /\ poolQ'[l][i] \notin taken
                        /\ \A j \in Pools, s \in Slots : job[j][s] # poolQ'[l][i]
                        /\ \A v \in PoolUsers : arg'[v].runner # poolQ'[l][i]
      BY DEF QueuedNotElsewhere
    <2>1. poolQ'[l][i] \in Runners
      BY <1>5 DEF PoolTypeOK
    <2>2. CASE i \in 1..Len(poolQ[l]) /\ poolQ'[l][i] = poolQ[l][i]
      BY <1>2, <2>1, <2>2 DEF QueuedNotElsewhere
    <2>3. CASE poolQ'[l][i] = r
      BY <1>1, <1>2, <1>4, <2>3
    <2>4. QED
      BY <1>6, <2>2, <2>3
  <1>9. BroughtOnce' /\ TakenNeverRuns'
    BY <1>2 DEF BroughtOnce, TakenNeverRuns, PoolTypeOK
  <1>10. QED
    BY <1>5, <1>7, <1>8, <1>9

\* A queue that lost an item, or none, keeps the others in their order.
QueuesShrink ==
  \A k \in Pools : \E from \in [1..Len(poolQ'[k]) -> 1..Len(poolQ[k])] :
    /\ \A i \in 1..Len(poolQ'[k]) : poolQ'[k][i] = poolQ[k][from[i]]
    /\ \A i, j \in 1..Len(poolQ'[k]) : from[i] = from[j] => i = j

LEMMA ShrunkQueuedOnce ==
  ASSUME QueuedOnce, QueuesShrink
  PROVE  QueuedOnce'
  <1> SUFFICES ASSUME NEW k \in Pools, NEW l \in Pools,
                      NEW i \in 1..Len(poolQ'[k]), NEW j \in 1..Len(poolQ'[l]),
                      poolQ'[k][i] = poolQ'[l][j]
               PROVE  k = l /\ i = j
    BY DEF QueuedOnce
  <1>1. PICK f \in [1..Len(poolQ'[k]) -> 1..Len(poolQ[k])] :
          /\ \A x \in 1..Len(poolQ'[k]) : poolQ'[k][x] = poolQ[k][f[x]]
          /\ \A x, y \in 1..Len(poolQ'[k]) : f[x] = f[y] => x = y
    BY DEF QueuesShrink
  <1>2. PICK g \in [1..Len(poolQ'[l]) -> 1..Len(poolQ[l])] :
          /\ \A x \in 1..Len(poolQ'[l]) : poolQ'[l][x] = poolQ[l][g[x]]
          /\ \A x, y \in 1..Len(poolQ'[l]) : g[x] = g[y] => x = y
    BY DEF QueuesShrink
  <1>3. k = l /\ f[i] = g[j]
    <2>1. f[i] \in 1..Len(poolQ[k]) /\ g[j] \in 1..Len(poolQ[l])
      BY <1>1, <1>2
    <2>2. poolQ[k][f[i]] = poolQ[l][g[j]]
      BY <1>1, <1>2
    <2>3. QED
      BY <2>1, <2>2 DEF QueuedOnce
  <1>4. f[j] = g[j]
    <2>1. f[j] \in 1..Len(poolQ[k]) /\ g[j] \in 1..Len(poolQ[k])
      BY <1>1, <1>2, <1>3
    <2>2. poolQ[k][f[j]] = poolQ[k][g[j]]
      BY <1>1, <1>2, <1>3
    <2>3. QED
      BY <2>1, <2>2 DEF QueuedOnce
  <1>5. QED
    BY <1>1, <1>3, <1>4

LEMMA ShrunkFrom ==
  ASSUME QueuesShrink, NEW k \in Pools, NEW i \in 1..Len(poolQ'[k])
  PROVE  \E j \in 1..Len(poolQ[k]) : poolQ'[k][i] = poolQ[k][j]
  BY DEF QueuesShrink

LEMMA TakeKeepsRunners ==
  ASSUME RunnerInv, NEW k \in Pools, NEW s \in Slots, WorkerTakes(k, s)
  PROVE  RunnerInv'
  <1> USE ThdPoolAssumption DEF RunnerInv, WorkerTakes, Placed
  <1> DEFINE q == poolQ[k]
             r == Head(q)
  <1>1. q \in Seq(Runners) /\ q # <<>>
    BY DEF PoolTypeOK
  <1>2. /\ r = q[1] /\ r \in Runners /\ Len(q) \in Nat \ {0}
        /\ Tail(q) \in Seq(Runners) /\ Len(Tail(q)) = Len(q) - 1
        /\ \A i \in 1..Len(q) - 1 : Tail(q)[i] = q[i + 1]
    BY <1>1, TailAt
  <1>3. /\ poolQ' = [poolQ EXCEPT ![k] = Tail(q)]
        /\ poolQ'[k] = Tail(q) /\ \A l \in Pools \ {k} : poolQ'[l] = poolQ[l]
    BY DEF PoolTypeOK
  <1>4. \A l \in Pools, p \in Slots : job'[l][p] = IF l = k /\ p = s THEN r ELSE job[l][p]
    BY DEF PoolTypeOK
  <1> HIDE DEF q, r
  <1>5. QueuesShrink
    <2> SUFFICES ASSUME NEW l \in Pools
                 PROVE  \E from \in [1..Len(poolQ'[l]) -> 1..Len(poolQ[l])] :
                          /\ \A i \in 1..Len(poolQ'[l]) : poolQ'[l][i] = poolQ[l][from[i]]
                          /\ \A i, j \in 1..Len(poolQ'[l]) : from[i] = from[j] => i = j
      BY DEF QueuesShrink
    <2>1. CASE l = k
      <3> DEFINE from == [i \in 1..Len(q) - 1 |-> i + 1]
      <3>1. /\ Len(poolQ'[l]) = Len(q) - 1 /\ Len(poolQ[l]) = Len(q)
            /\ \A i \in 1..Len(q) - 1 : poolQ'[l][i] = poolQ[l][i + 1]
        BY <1>2, <1>3, <2>1 DEF q
      <3>2. Len(q) \in Nat
        BY <1>2
      <3>3. from \in [1..Len(q) - 1 -> 1..Len(q)]
        BY <3>2
      <3>4. \A i, j \in 1..Len(q) - 1 : from[i] = from[j] => i = j
        BY <3>2
      <3>5. \A i \in 1..Len(q) - 1 : poolQ'[l][i] = poolQ[l][from[i]]
        BY <3>1
      <3> HIDE DEF from
      <3>6. /\ from \in [1..Len(poolQ'[l]) -> 1..Len(poolQ[l])]
            /\ \A i \in 1..Len(poolQ'[l]) : poolQ'[l][i] = poolQ[l][from[i]]
            /\ \A i, j \in 1..Len(poolQ'[l]) : from[i] = from[j] => i = j
        BY <3>1, <3>3, <3>4, <3>5
      <3>7. QED
        BY <3>6
    <2>2. CASE l # k
      <3> DEFINE from == [i \in 1..Len(poolQ[l]) |-> i]
      <3>1. from \in [1..Len(poolQ'[l]) -> 1..Len(poolQ[l])] /\ poolQ'[l] = poolQ[l]
        BY <1>3, <2>2
      <3>2. QED
        BY <3>1
    <2>3. QED
      BY <2>1, <2>2
  <1>6. PoolTypeOK' /\ ArgTypeOK'
    <2>1. poolQ' \in [Pools -> Seq(Runners)]
      BY <1>2, <1>3 DEF PoolTypeOK
    <2>2. QED
      BY <1>1, <1>2, <2>1 DEF PoolTypeOK, ArgTypeOK, WorkerPlaces, r, q
  <1>7. QueuedOnce'
    BY <1>5, ShrunkQueuedOnce
  <1>8. \A l \in Pools : \A i \in 1..Len(poolQ'[l]) : poolQ'[l][i] # r
    <2> SUFFICES ASSUME NEW l \in Pools, NEW i \in 1..Len(poolQ'[l]), poolQ'[l][i] = q[1]
                 PROVE  FALSE
      BY <1>2
    <2>1. CASE l = k
      <3>1. Len(poolQ'[l]) = Len(q) - 1 /\ poolQ'[l][i] = q[i + 1]
        BY <1>2, <1>3, <2>1
      <3>2. i \in 1..Len(q) - 1 /\ Len(q) \in Nat \ {0} /\ q[i + 1] = q[1]
        BY <1>2, <3>1
      <3>3. i + 1 \in 1..Len(q) /\ 1 \in 1..Len(q) /\ i + 1 # 1
        BY <3>2
      <3>4. poolQ[k][i + 1] = poolQ[k][1] /\ i + 1 \in 1..Len(poolQ[k]) /\ 1 \in 1..Len(poolQ[k])
        BY <3>2, <3>3 DEF q
      <3>5. QED
        BY <3>3, <3>4 DEF QueuedOnce
    <2>2. CASE l # k
      BY <1>2, <1>3, <2>2 DEF QueuedOnce, q
    <2>3. QED
      BY <2>1, <2>2
  <1>9. QueuedNotElsewhere'
    <2> SUFFICES ASSUME NEW l \in Pools, NEW i \in 1..Len(poolQ'[l])
                 PROVE  /\ poolQ'[l][i] \notin taken'
                        /\ \A m \in Pools, z \in Slots : job'[m][z] # poolQ'[l][i]
                        /\ \A u \in PoolUsers : arg'[u].runner # poolQ'[l][i]
      BY DEF QueuedNotElsewhere
    <2>1. PICK j \in 1..Len(poolQ[l]) : poolQ'[l][i] = poolQ[l][j]
      BY <1>5, ShrunkFrom
    <2>2. /\ poolQ[l][j] \notin taken
          /\ \A m \in Pools, z \in Slots : job[m][z] # poolQ[l][j]
          /\ \A u \in PoolUsers : arg[u].runner # poolQ[l][j]
      BY DEF QueuedNotElsewhere
    <2>3. poolQ[l][j] # r
      BY <1>8, <2>1
    <2>4. QED
      BY <1>4, <2>1, <2>2, <2>3
  <1>10. r \notin taken /\ \A u \in PoolUsers : arg[u].runner # r
    BY <1>1, <1>2 DEF QueuedNotElsewhere, q
  <1>11. BroughtOnce' /\ TakenNeverRuns'
    BY <1>4, <1>10 DEF BroughtOnce, TakenNeverRuns
  <1>12. QED
    BY <1>6, <1>7, <1>9, <1>11

LEMMA DequeueKeepsRunners ==
  ASSUME RunnerInv, NEW u \in PoolUsers, NEW r \in Runners, Dequeue(u, r)
  PROVE  RunnerInv'
  <1> USE ThdPoolAssumption DEF RunnerInv, Dequeue
  <1> DEFINE q == poolQ["deque"]
  <1>1. q \in Seq(Runners) /\ "deque" \in Pools
    BY DEF PoolTypeOK, Pools
  <1>2. PICK n \in 1..Len(q) : q[n] = r
    BY DEF Contains
  <1>3. \A i \in 1..Len(q) : q[i] = q[n] => i = n
    BY <1>1 DEF QueuedOnce
  <1>4. /\ poolQ'["deque"] \in Seq(Runners) /\ Len(poolQ'["deque"]) = Len(q) - 1
        /\ \A i \in 1..Len(poolQ'["deque"]) :
             poolQ'["deque"][i] = IF i < n THEN q[i] ELSE q[i + 1]
    <2>1. poolQ'["deque"] = RemoveFirst(q, q[n])
      BY <1>1, <1>2 DEF PoolTypeOK
    <2> HIDE DEF q
    <2>2. QED
      BY <1>1, <1>3, <2>1, RemoveOnly
  <1>5. \A k \in Pools \ {"deque"} : poolQ'[k] = poolQ[k]
    BY DEF PoolTypeOK
  <1>6. Len(q) \in Nat
    BY <1>1
  <1>7. QueuesShrink
    <2> SUFFICES ASSUME NEW l \in Pools
                 PROVE  \E from \in [1..Len(poolQ'[l]) -> 1..Len(poolQ[l])] :
                          /\ \A i \in 1..Len(poolQ'[l]) : poolQ'[l][i] = poolQ[l][from[i]]
                          /\ \A i, j \in 1..Len(poolQ'[l]) : from[i] = from[j] => i = j
      BY DEF QueuesShrink
    <2>1. CASE l = "deque"
      <3> DEFINE from == [i \in 1..Len(q) - 1 |-> IF i < n THEN i ELSE i + 1]
      <3>1. Len(poolQ'[l]) = Len(q) - 1 /\ poolQ[l] = q
        BY <1>4, <2>1
      <3> HIDE DEF q
      <3>2. from \in [1..Len(q) - 1 -> 1..Len(q)]
        BY <1>6
      <3>3. \A i, j \in 1..Len(q) - 1 : from[i] = from[j] => i = j
        BY <1>6
      <3>4. \A i \in 1..Len(q) - 1 : poolQ'[l][i] = poolQ[l][from[i]]
        BY <1>4, <2>1, <3>1
      <3> HIDE DEF from
      <3>5. /\ from \in [1..Len(poolQ'[l]) -> 1..Len(poolQ[l])]
            /\ \A i \in 1..Len(poolQ'[l]) : poolQ'[l][i] = poolQ[l][from[i]]
            /\ \A i, j \in 1..Len(poolQ'[l]) : from[i] = from[j] => i = j
        BY <3>1, <3>2, <3>3, <3>4
      <3>6. QED
        BY <3>5
    <2>2. CASE l # "deque"
      <3> DEFINE from == [i \in 1..Len(poolQ[l]) |-> i]
      <3>1. from \in [1..Len(poolQ'[l]) -> 1..Len(poolQ[l])] /\ poolQ'[l] = poolQ[l]
        BY <1>5, <2>2
      <3>2. QED
        BY <3>1
    <2>3. QED
      BY <2>1, <2>2
  <1>8. PoolTypeOK' /\ ArgTypeOK'
    <2>1. poolQ' \in [Pools -> Seq(Runners)]
      BY <1>1, <1>4, <1>5 DEF PoolTypeOK
    <2>2. QED
      BY <2>1 DEF PoolTypeOK, ArgTypeOK
  <1>9. QueuedOnce'
    BY <1>7, ShrunkQueuedOnce
  <1>10. \A l \in Pools : \A i \in 1..Len(poolQ'[l]) : poolQ'[l][i] # r
    <2> SUFFICES ASSUME NEW l \in Pools, NEW i \in 1..Len(poolQ'[l]), poolQ'[l][i] = r
                 PROVE  FALSE
      OBVIOUS
    <2>1. CASE l = "deque"
      <3>1. i \in 1..Len(q) - 1 /\ q[IF i < n THEN i ELSE i + 1] = r
        BY <1>4, <2>1
      <3>2. /\ (IF i < n THEN i ELSE i + 1) \in 1..Len(q)
            /\ (IF i < n THEN i ELSE i + 1) # n
        BY <1>6, <3>1
      <3>3. QED
        BY <1>2, <1>3, <3>1, <3>2
    <2>2. CASE l # "deque"
      BY <1>1, <1>2, <1>5, <2>2 DEF QueuedOnce
    <2>3. QED
      BY <2>1, <2>2
  <1>11. /\ \A k \in Pools, s \in Slots : job[k][s] # r
         /\ \A v \in PoolUsers : arg[v].runner # r
    BY <1>1, <1>2 DEF QueuedNotElsewhere
  <1>12. QueuedNotElsewhere'
    <2> SUFFICES ASSUME NEW l \in Pools, NEW i \in 1..Len(poolQ'[l])
                 PROVE  /\ poolQ'[l][i] \notin taken'
                        /\ \A m \in Pools, s \in Slots : job[m][s] # poolQ'[l][i]
                        /\ \A v \in PoolUsers : arg[v].runner # poolQ'[l][i]
      BY DEF QueuedNotElsewhere
    <2>1. PICK j \in 1..Len(poolQ[l]) : poolQ'[l][i] = poolQ[l][j]
      BY <1>7, ShrunkFrom
    <2>2. poolQ'[l][i] # r
      BY <1>10
    <2>3. QED
      BY <2>1, <2>2 DEF QueuedNotElsewhere
  <1>13. BroughtOnce' /\ TakenNeverRuns'
    BY <1>11 DEF BroughtOnce, TakenNeverRuns
  <1>14. QED
    BY <1>8, <1>9, <1>12, <1>13

LEMMA PlacedKeepsRunners ==
  ASSUME RunnerInv, NEW k \in Pools, NEW s \in Slots, NEW place \in WorkerPlaces,
         Placed(k, s, place, NoRunner),
         UNCHANGED <<maxSize, made, poolGuard, poolQ, poolDown, user, arg, taken>>
  PROVE  RunnerInv'
  <1> USE ThdPoolAssumption DEF RunnerInv, Placed
  <1>1. /\ PoolTypeOK' /\ ArgTypeOK'
    BY DEF PoolTypeOK, ArgTypeOK
  <1>2. \A l \in Pools, p \in Slots : job'[l][p] = job[l][p] \/ job'[l][p] = NoRunner
    BY DEF PoolTypeOK
  <1>3. NoRunner \notin taken
    BY DEF PoolTypeOK
  <1>4. QueuedOnce'
    BY DEF QueuedOnce
  <1>5. \A l \in Pools : \A i \in 1..Len(poolQ[l]) : poolQ[l][i] # NoRunner
    BY DEF PoolTypeOK
  <1>6. QueuedNotElsewhere'
    BY <1>2, <1>5 DEF QueuedNotElsewhere
  <1>7. BroughtOnce' /\ TakenNeverRuns'
    BY <1>2, <1>3 DEF BroughtOnce, TakenNeverRuns
  <1>8. QED
    BY <1>1, <1>4, <1>6, <1>7

LEMMA OthersKeepRunners ==
  ASSUME RunnerInv, PoolTypeOK', UNCHANGED <<poolQ, job, arg, taken>>,
         \A u \in PoolUsers : user'[u] # "idle" => user[u] # "idle"
  PROVE  RunnerInv'
  BY DEF RunnerInv, ArgTypeOK, QueuedOnce, QueuedNotElsewhere, BroughtOnce, TakenNeverRuns

LEMMA CountOfPrefix ==
  ASSUME NEW W \in [Slots -> WorkerPlaces], NEW n \in 0..MaxPoolSize,
         \A s \in Slots : W[s] # "none" <=> s <= n
  PROVE  Cardinality({s \in Slots : W[s] # "none"}) = n
  <1> USE ThdPoolAssumption
  <1>1. {s \in Slots : W[s] # "none"} = 1..n
    BY DEF Slots
  <1>2. Cardinality(1..n) = n
    BY FS_Interval
  <1>3. QED
    BY <1>1, <1>2

\* The entries of a pool are the first ones.
EntriesFirst ==
  \A k \in Pools :
    /\ Entries(k) \in 0..MaxPoolSize
    /\ \A s \in Slots : workers[k][s] # "none" <=> s <= Entries(k)

\* Who makes a pool has its guard, and who has none finds it complete.
GuardedMaking ==
  /\ \A u \in PoolUsers : user[u] = "making" =>
       poolGuard[arg[u].pool] = u /\ made[arg[u].pool]
  /\ \A k \in Pools : poolGuard[k] # NoRunner => made[k]
  /\ \A k \in Pools : made[k] /\ poolGuard[k] = NoRunner => Entries(k) = Size(k)

MadeInv == PoolTypeOK /\ ArgTypeOK /\ EntriesFirst /\ GuardedMaking /\ PoolMadeOnce

LEMMA SizeBounded ==
  ASSUME PoolTypeOK, NEW k \in Pools
  PROVE  Size(k) \in 0..MaxPoolSize
  BY ThdPoolAssumption DEF Size, PoolTypeOK

LEMMA MadeInvInit == PoolInit => MadeInv
  <1> SUFFICES ASSUME PoolInit PROVE MadeInv
    OBVIOUS
  <1> USE ThdPoolAssumption
  <1>1. PoolTypeOK /\ ArgTypeOK
    BY RunnerInvInit DEF RunnerInv
  <1>2. \A k \in Pools : Entries(k) = 0
    <2> SUFFICES ASSUME NEW k \in Pools PROVE Entries(k) = 0
      OBVIOUS
    <2>1. workers[k] \in [Slots -> WorkerPlaces] /\ \A s \in Slots : workers[k][s] = "none"
      BY DEF PoolInit, WorkerPlaces
    <2>2. 0 \in 0..MaxPoolSize /\ \A s \in Slots : workers[k][s] # "none" <=> s <= 0
      BY <2>1 DEF Slots
    <2>3. QED
      BY <2>1, <2>2, CountOfPrefix DEF Entries
  <1>3. \A k \in Pools : Size(k) \in 0..MaxPoolSize
    BY <1>1, SizeBounded
  <1>4. EntriesFirst
    BY <1>2 DEF EntriesFirst, PoolInit, Slots
  <1>5. GuardedMaking /\ PoolMadeOnce
    BY <1>2, <1>3 DEF GuardedMaking, PoolMadeOnce, PoolInit
  <1>6. QED
    BY <1>1, <1>4, <1>5 DEF MadeInv

LEMMA SameEntries ==
  ASSUME PoolTypeOK, PoolTypeOK', maxSize' = maxSize, EntriesFirst,
         NEW k \in Pools,
         \A s \in Slots : workers'[k][s] = "none" <=> workers[k][s] = "none"
  PROVE  /\ Entries(k)' = Entries(k) /\ Size(k)' = Size(k)
         /\ Entries(k)' \in 0..MaxPoolSize
         /\ \A s \in Slots : workers'[k][s] # "none" <=> s <= Entries(k)'
  <1>1. Entries(k)' = Entries(k)
    BY DEF Entries
  <1>2. Size(k)' = Size(k)
    BY DEF Size
  <1>3. QED
    BY <1>1, <1>2 DEF EntriesFirst

LEMMA OthersKeepMade ==
  ASSUME MadeInv, PoolTypeOK', ArgTypeOK',
         UNCHANGED <<maxSize, made, poolGuard>>,
         \A k \in Pools, s \in Slots : workers'[k][s] = "none" <=> workers[k][s] = "none",
         \A u \in PoolUsers : user'[u] = "idle" \/ (user'[u] = user[u] /\ arg'[u] = arg[u])
  PROVE  MadeInv'
  <1>1. \A k \in Pools :
          /\ Entries(k)' = Entries(k) /\ Size(k)' = Size(k)
          /\ Entries(k)' \in 0..MaxPoolSize
          /\ \A s \in Slots : workers'[k][s] # "none" <=> s <= Entries(k)'
    BY SameEntries DEF MadeInv
  <1>2. EntriesFirst'
    BY <1>1 DEF EntriesFirst
  <1>3. GuardedMaking'
    BY <1>1 DEF GuardedMaking, MadeInv
  <1>4. PoolMadeOnce'
    <2> SUFFICES ASSUME NEW k \in Pools
                 PROVE  /\ Entries(k)' <= Size(k)'
                        /\ Entries(k)' > 0 => made'[k]
                        /\ \A u \in PoolUsers :
                             user'[u] = "inserting" /\ arg'[u].pool = k /\ k # "immediate"
                               => made'[k] /\ Entries(k)' = Size(k)'
      BY DEF PoolMadeOnce
    <2>1. QED
      BY <1>1 DEF PoolMadeOnce, MadeInv
  <1>5. QED
    BY <1>2, <1>3, <1>4 DEF MadeInv

LEMMA RunKeepsMade ==
  ASSUME MadeInv, PoolTypeOK', ArgTypeOK',
         NEW u \in PoolUsers, NEW k \in Pools, NEW r \in Runners, Run(u, k, r)
  PROVE  MadeInv'
  <1> USE ThdPoolAssumption DEF MadeInv, Run
  <1>1. \A l \in Pools :
          /\ Entries(l)' = Entries(l) /\ Size(l)' = Size(l)
          /\ Entries(l)' \in 0..MaxPoolSize
          /\ \A s \in Slots : workers'[l][s] # "none" <=> s <= Entries(l)'
    BY SameEntries
  <1>2. EntriesFirst'
    BY <1>1 DEF EntriesFirst
  <1>3. /\ arg'[u].pool = k
        /\ \A v \in PoolUsers \ {u} : arg'[v] = arg[v] /\ user'[v] = user[v]
    BY DEF ArgTypeOK, PoolTypeOK
  <1>4. CASE made[k]
    <2>1. user'[u] = "inserting" /\ UNCHANGED <<made, poolGuard>>
      BY <1>4 DEF PoolTypeOK
    <2>2. GuardedMaking'
      BY <1>1, <1>3, <2>1 DEF GuardedMaking
    <2>3. Entries(k) = Size(k)
      BY <1>4 DEF GuardedMaking
    <2>4. PoolMadeOnce'
      BY <1>1, <1>3, <1>4, <2>1, <2>3 DEF PoolMadeOnce
    <2>5. QED
      BY <1>2, <2>2, <2>4
  <1>5. CASE ~made[k]
    <2>1. /\ user'[u] = "making" /\ made'[k] /\ poolGuard'[k] = u
          /\ \A l \in Pools \ {k} : made'[l] = made[l] /\ poolGuard'[l] = poolGuard[l]
      BY <1>5 DEF PoolTypeOK
    <2>2. \A v \in PoolUsers \ {u} : user[v] = "making" => arg[v].pool # k
      BY <1>5 DEF GuardedMaking
    <2>3. GuardedMaking'
      <3>1. \A v \in PoolUsers : user'[v] = "making" =>
              poolGuard'[arg'[v].pool] = v /\ made'[arg'[v].pool]
        <4> SUFFICES ASSUME NEW v \in PoolUsers, user'[v] = "making"
                     PROVE  poolGuard'[arg'[v].pool] = v /\ made'[arg'[v].pool]
          OBVIOUS
        <4>1. CASE v = u
          BY <1>3, <2>1, <4>1
        <4>2. CASE v # u
          <5>1. arg'[v].pool \in Pools \ {k} /\ arg'[v] = arg[v] /\ user[v] = "making"
            BY <1>3, <2>2, <4>2 DEF ArgTypeOK
          <5>2. poolGuard[arg[v].pool] = v /\ made[arg[v].pool]
            BY <5>1 DEF GuardedMaking
          <5>3. QED
            BY <2>1, <5>1, <5>2
        <4>3. QED
          BY <4>1, <4>2
      <3>2. \A l \in Pools : poolGuard'[l] # NoRunner => made'[l]
        BY <2>1 DEF GuardedMaking
      <3>3. \A l \in Pools : made'[l] /\ poolGuard'[l] = NoRunner =>
              Entries(l)' = Size(l)'
        BY <1>1, <2>1 DEF GuardedMaking
      <3>4. QED
        BY <3>1, <3>2, <3>3 DEF GuardedMaking
    <2>4. PoolMadeOnce'
      BY <1>1, <1>3, <1>5, <2>1 DEF PoolMadeOnce
    <2>5. QED
      BY <1>2, <2>3, <2>4
  <1>6. QED
    BY <1>4, <1>5

LEMMA EntryKeepsMade ==
  ASSUME MadeInv, PoolTypeOK', ArgTypeOK', NEW u \in PoolUsers, MakeEntry(u)
  PROVE  MadeInv'
  <1> USE ThdPoolAssumption DEF MadeInv, MakeEntry
  <1>1. PICK k \in Pools : k = arg[u].pool
    BY DEF ArgTypeOK
  <1>2. PICK n : n = Entries(k)
    OBVIOUS
  <1>3. k \in Pools /\ n \in 0..MaxPoolSize /\ n < Size(k) /\ Size(k) \in 0..MaxPoolSize
    BY <1>1, <1>2, SizeBounded DEF EntriesFirst
  <1>4. n + 1 \in Slots
    BY <1>3 DEF Slots
  <1>5. \A s \in Slots : workers[k][s] # "none" <=> s <= n
    BY <1>2 DEF EntriesFirst
  <1>6. PICK place \in {"waiting", "null"} : workers' = [workers EXCEPT ![k][n + 1] = place]
    BY <1>1, <1>2
  <1>7. /\ workers'[k] = [workers[k] EXCEPT ![n + 1] = place]
        /\ \A l \in Pools \ {k} : workers'[l] = workers[l]
    BY <1>3, <1>6 DEF PoolTypeOK
  <1>8. Entries(k)' = n + 1 /\ \A s \in Slots : workers'[k][s] # "none" <=> s <= n + 1
    <2>1. \A s \in Slots : workers'[k][s] = IF s = n + 1 THEN place ELSE workers[k][s]
      BY <1>3, <1>4, <1>7 DEF PoolTypeOK
    <2>2. \A s \in Slots : workers'[k][s] # "none" <=> s <= n + 1
      BY <1>3, <1>5, <2>1 DEF Slots
    <2>3. workers'[k] \in [Slots -> WorkerPlaces] /\ n + 1 \in 0..MaxPoolSize
      BY <1>3, <1>4 DEF PoolTypeOK, Slots
    <2>4. Cardinality({s \in Slots : workers'[k][s] # "none"}) = n + 1
      BY <2>2, <2>3, CountOfPrefix
    <2>5. QED
      BY <2>2, <2>4 DEF Entries
  <1>9. \A l \in Pools \ {k} : Entries(l)' = Entries(l)
    BY <1>7 DEF Entries
  <1>10. \A l \in Pools : Size(l)' = Size(l)
    BY DEF Size
  <1>11. EntriesFirst'
    BY <1>3, <1>7, <1>8, <1>9 DEF EntriesFirst
  <1>12. made[k] /\ poolGuard[k] = u
    BY <1>1 DEF GuardedMaking, PoolMove
  <1>13. GuardedMaking'
    BY <1>8, <1>9, <1>10, <1>12 DEF GuardedMaking
  <1>14. PoolMadeOnce'
    <2> SUFFICES ASSUME NEW l \in Pools
                 PROVE  /\ Entries(l)' <= Size(l)'
                        /\ Entries(l)' > 0 => made'[l]
                        /\ \A v \in PoolUsers :
                             user'[v] = "inserting" /\ arg'[v].pool = l /\ l # "immediate"
                               => made'[l] /\ Entries(l)' = Size(l)'
      BY DEF PoolMadeOnce
    <2>1. CASE l = k
      <3>1. \A v \in PoolUsers :
              ~(user[v] = "inserting" /\ arg[v].pool = l /\ l # "immediate")
        BY <1>3, <2>1, <1>2 DEF PoolMadeOnce
      <3>2. Entries(l)' = n + 1 /\ Size(l)' = Size(k) /\ made'[l]
        BY <1>8, <1>10, <1>12, <2>1
      <3>3. QED
        BY <1>3, <3>1, <3>2
    <2>2. CASE l # k
      BY <1>9, <1>10, <2>2 DEF PoolMadeOnce
    <2>3. QED
      BY <2>1, <2>2
  <1>15. QED
    BY <1>11, <1>13, <1>14

LEMMA MadeKeepsMade ==
  ASSUME MadeInv, PoolTypeOK', ArgTypeOK', NEW u \in PoolUsers, MadePool(u)
  PROVE  MadeInv'
  <1> USE ThdPoolAssumption DEF MadeInv
  <1>1. PICK k \in Pools : k = arg[u].pool
    BY DEF ArgTypeOK
  <1> DEFINE lost == k = "immediate" /\ workers[k][1] = "null"
  <1>2. k \in Pools /\ Entries(k) \in 0..MaxPoolSize /\ Entries(k) = Size(k)
    <2>1. k \in Pools /\ Entries(k) \in 0..MaxPoolSize /\ Size(k) \in 0..MaxPoolSize
      BY SizeBounded DEF EntriesFirst
    <2>2. Entries(k) <= Size(k) /\ Entries(k) >= Size(k)
      BY <1>1, <2>1 DEF MadePool, PoolMadeOnce
    <2>3. QED
      BY <2>1, <2>2
  <1>3. /\ user[u] = "making" /\ user'[u] = "inserting"
        /\ \A v \in PoolUsers \ {u} : user'[v] = user[v]
        /\ UNCHANGED <<maxSize, arg>>
        /\ poolGuard'[k] = NoRunner
        /\ \A l \in Pools \ {k} : poolGuard'[l] = poolGuard[l] /\ made'[l] = made[l]
    BY <1>1, <1>2 DEF MadePool, PoolMove, PoolTypeOK
  <1>4. made'[k] <=> ~lost
    BY <1>1, <1>2 DEF MadePool, PoolTypeOK
  <1>5. workers' = IF lost THEN [workers EXCEPT ![k][1] = "none"] ELSE workers
    BY <1>1 DEF MadePool
  <1>6. \A l \in Pools \ {k} : workers'[l] = workers[l]
    BY <1>5 DEF PoolTypeOK
  <1>7. \A s \in Slots : workers[k][s] # "none" <=> s <= Entries(k)
    BY <1>2 DEF EntriesFirst
  <1>8. \A l \in Pools : Size(l)' = Size(l)
    BY <1>3 DEF Size
  <1>9. \A l \in Pools \ {k} : Entries(l)' = Entries(l)
    BY <1>6 DEF Entries
  <1>10. \A v \in PoolUsers \ {u} : user[v] = "making" => arg[v].pool # k
    BY <1>1, <1>2, <1>3 DEF GuardedMaking
  <1>11. CASE lost
    <2>1. Entries(k) = 1 /\ 1 \in Slots
      BY <1>2, <1>11 DEF Size, Slots
    <2>2. \A s \in Slots : workers'[k][s] = IF s = 1 THEN "none" ELSE workers[k][s]
      BY <1>2, <1>5, <1>11, <2>1 DEF PoolTypeOK
    <2>3. \A s \in Slots : workers'[k][s] # "none" <=> s <= 0
      BY <1>7, <2>1, <2>2 DEF Slots
    <2>4. workers'[k] \in [Slots -> WorkerPlaces] /\ 0 \in 0..MaxPoolSize
      BY <1>2 DEF PoolTypeOK
    <2>5. Cardinality({s \in Slots : workers'[k][s] # "none"}) = 0
      BY <2>3, <2>4, CountOfPrefix
    <2>6. Entries(k)' = 0
      BY <2>5 DEF Entries
    <2> HIDE DEF lost
    <2>7. EntriesFirst'
      BY <1>6, <1>9, <2>3, <2>4, <2>6 DEF EntriesFirst
    <2>8. GuardedMaking'
      <3>1. \A v \in PoolUsers : user'[v] = "making" =>
              poolGuard'[arg'[v].pool] = v /\ made'[arg'[v].pool]
        BY <1>3, <1>10 DEF GuardedMaking, ArgTypeOK
      <3>2. \A l \in Pools : poolGuard'[l] # NoRunner => made'[l]
        BY <1>3 DEF GuardedMaking
      <3>3. \A l \in Pools : made'[l] /\ poolGuard'[l] = NoRunner =>
              Entries(l)' = Size(l)'
        BY <1>3, <1>4, <1>8, <1>9, <1>11 DEF GuardedMaking
      <3>4. QED
        BY <3>1, <3>2, <3>3 DEF GuardedMaking
    <2>9. k = "immediate" /\ Size(k)' = 1
      BY <1>11 DEF lost, Size
    <2>10. PoolMadeOnce'
      <3> SUFFICES ASSUME NEW l \in Pools
                   PROVE  /\ Entries(l)' <= Size(l)'
                          /\ Entries(l)' > 0 => made'[l]
                          /\ \A v \in PoolUsers :
                               user'[v] = "inserting" /\ arg'[v].pool = l /\ l # "immediate"
                                 => made'[l] /\ Entries(l)' = Size(l)'
        BY DEF PoolMadeOnce
      <3>1. CASE l = k
        BY <2>6, <2>9, <3>1
      <3>2. CASE l # k
        BY <1>1, <1>3, <1>8, <1>9, <3>2 DEF PoolMadeOnce
      <3>3. QED
        BY <3>1, <3>2
    <2>11. QED
      BY <2>7, <2>8, <2>10
  <1>12. CASE ~lost
    <2>1. workers' = workers /\ made'[k]
      BY <1>4, <1>5, <1>12
    <2>2. Entries(k)' = Entries(k)
      BY <2>1 DEF Entries
    <2> HIDE DEF lost
    <2>3. EntriesFirst'
      BY <1>9, <2>1, <2>2 DEF EntriesFirst
    <2>4. GuardedMaking'
      <3>1. \A v \in PoolUsers : user'[v] = "making" =>
              poolGuard'[arg'[v].pool] = v /\ made'[arg'[v].pool]
        BY <1>3, <1>10 DEF GuardedMaking, ArgTypeOK
      <3>2. \A l \in Pools : poolGuard'[l] # NoRunner => made'[l]
        BY <1>3 DEF GuardedMaking
      <3>3. \A l \in Pools : made'[l] /\ poolGuard'[l] = NoRunner =>
              Entries(l)' = Size(l)'
        BY <1>2, <1>3, <1>8, <1>9, <2>2 DEF GuardedMaking
      <3>4. QED
        BY <3>1, <3>2, <3>3 DEF GuardedMaking
    <2>5. PoolMadeOnce'
      <3> SUFFICES ASSUME NEW l \in Pools
                   PROVE  /\ Entries(l)' <= Size(l)'
                          /\ Entries(l)' > 0 => made'[l]
                          /\ \A v \in PoolUsers :
                               user'[v] = "inserting" /\ arg'[v].pool = l /\ l # "immediate"
                                 => made'[l] /\ Entries(l)' = Size(l)'
        BY DEF PoolMadeOnce
      <3>1. CASE l = k
        BY <1>2, <1>8, <2>1, <2>2, <3>1
      <3>2. CASE l # k
        BY <1>1, <1>3, <1>8, <1>9, <3>2 DEF PoolMadeOnce
      <3>3. QED
        BY <3>1, <3>2
    <2>6. QED
      BY <2>3, <2>4, <2>5
  <1>13. QED
    BY <1>11, <1>12

\* ~ThdPool takes the queues down one after the other.
DownInOrder ==
  /\ destructor = "none" => poolDown = {}
  /\ destructor = "downing" => poolDown \in {{}, {"immediate"}, {"immediate", "once"}}

LEMMA NextDown ==
  ASSUME DownInOrder, DestructorDowns
  PROVE  DownInOrder' /\ poolDown' \subseteq Pools
  <1>1. /\ Cardinality({}) = 0
        /\ Cardinality({"immediate"}) = 1
        /\ Cardinality({"immediate", "once"}) = 2
    <2>1. /\ Cardinality({}) = 0 /\ Cardinality({"immediate"}) = 1
          /\ IsFiniteSet({"immediate"})
      BY FS_EmptySet, FS_Singleton
    <2>2. Cardinality({"immediate"} \cup {"once"}) = 1 + 1
      BY <2>1, FS_AddElement
    <2>3. {"immediate"} \cup {"once"} = {"immediate", "once"}
      OBVIOUS
    <2>4. QED
      BY <2>1, <2>2, <2>3
  <1>2. destructor = "downing" /\ poolDown \in {{}, {"immediate"}, {"immediate", "once"}}
    BY DEF DestructorDowns, DownInOrder
  <1>3. Downs[1] = "immediate" /\ Downs[2] = "once" /\ Downs[3] = "deque"
    BY DEF Downs
  <1>4. poolDown' \in {{"immediate"}, {"immediate", "once"}, Pools}
    BY <1>1, <1>2, <1>3 DEF DestructorDowns, Pools
  <1>5. destructor' = IF poolDown' = Pools THEN "done" ELSE "downing"
    BY <1>2 DEF DestructorDowns
  <1>6. QED
    BY <1>4, <1>5 DEF DownInOrder, Pools

LEMMA RunnersKept ==
  ASSUME RunnerInv, DownInOrder, [PoolNext]_poolVars
  PROVE  RunnerInv'
  <1> USE ThdPoolAssumption
  <1>1. PoolTypeOK /\ ArgTypeOK
    BY DEF RunnerInv
  <1>2. ASSUME NEW u \in PoolUsers, NEW k \in Pools, NEW r \in Runners, Run(u, k, r)
        PROVE  RunnerInv'
    BY <1>2, RunKeepsRunners
  <1>3. ASSUME NEW u \in PoolUsers, MakeEntry(u)
        PROVE  RunnerInv'
    <2>1. PICK k \in Pools, place \in {"waiting", "null"} :
            workers' = [workers EXCEPT ![k][Entries(k) + 1] = place]
      BY <1>1, <1>3 DEF MakeEntry, ArgTypeOK
    <2>2. PoolTypeOK'
      BY <1>1, <1>3, <2>1 DEF MakeEntry, PoolTypeOK, WorkerPlaces
    <2>3. QED
      BY <1>3, <2>2, OthersKeepRunners DEF MakeEntry
  <1>4. ASSUME NEW u \in PoolUsers, MadePool(u)
        PROVE  RunnerInv'
    <2>1. PICK k \in Pools : k = arg[u].pool
      BY <1>1 DEF ArgTypeOK
    <2>2. made' \in [Pools -> BOOLEAN]
      BY <1>1, <1>4, <2>1 DEF MadePool, PoolTypeOK
    <2>3. workers' \in [Pools -> [Slots -> WorkerPlaces]]
      BY <1>1, <1>4, <2>1 DEF MadePool, PoolTypeOK, WorkerPlaces
    <2>4. PoolTypeOK'
      BY <1>1, <1>4, <2>2, <2>3 DEF MadePool, PoolMove, PoolTypeOK, UserPlaces
    <2>5. \A v \in PoolUsers : user'[v] # "idle" => user[v] # "idle"
      BY <1>1, <1>4 DEF MadePool, PoolMove, PoolTypeOK
    <2>6. QED
      BY <1>4, <2>4, <2>5, OthersKeepRunners DEF MadePool
  <1>5. ASSUME NEW u \in PoolUsers, InsertRunner(u)
        PROVE  RunnerInv'
    BY <1>5, InsertKeepsRunners
  <1>6. ASSUME NEW u \in PoolUsers, NEW r \in Runners, Dequeue(u, r)
        PROVE  RunnerInv'
    BY <1>6, DequeueKeepsRunners
  <1>7. ASSUME NEW u \in PoolUsers, Add(u)
        PROVE  RunnerInv'
    <2>1. UNCHANGED <<maxSize, made, poolGuard, poolQ, poolDown, workers, job, user,
                      arg, taken>>
      BY <1>7 DEF Add
    <2>2. PoolTypeOK'
      BY <1>1, <2>1 DEF PoolTypeOK
    <2>3. QED
      BY <2>1, <2>2, OthersKeepRunners
  <1>8. ASSUME NEW k \in Pools, NEW s \in Slots, WorkerTakes(k, s)
        PROVE  RunnerInv'
    BY <1>8, TakeKeepsRunners
  <1>9. ASSUME NEW k \in Pools, NEW s \in Slots, WorkerRan(k, s) \/ RunnerLeaves(k, s)
        PROVE  RunnerInv'
    BY <1>9, PlacedKeepsRunners DEF WorkerRan, RunnerLeaves, WorkerPlaces
  <1>10. ASSUME NEW i \in 1..MaxPermanent, PermanentEnds(i)
        PROVE  RunnerInv'
    <2>1. UNCHANGED <<maxSize, made, poolGuard, poolQ, poolDown, workers, job, user,
                      arg, taken>>
      BY <1>10 DEF PermanentEnds
    <2>2. PoolTypeOK'
      BY <1>1, <2>1 DEF PoolTypeOK
    <2>3. QED
      BY <2>1, <2>2, OthersKeepRunners
  <1>11. ASSUME Destructs \/ UNCHANGED poolVars
         PROVE  RunnerInv'
    <2>1. UNCHANGED <<maxSize, made, poolGuard, poolQ, poolDown, workers, job, user,
                      arg, taken>>
      BY <1>11 DEF Destructs, poolVars
    <2>2. PoolTypeOK'
      BY <1>1, <2>1 DEF PoolTypeOK
    <2>3. QED
      BY <2>1, <2>2, OthersKeepRunners
  <1>12. ASSUME DestructorDowns
         PROVE  RunnerInv'
    <2>1. UNCHANGED <<maxSize, made, poolGuard, poolQ, workers, job, user, arg, taken>>
      BY <1>12 DEF DestructorDowns
    <2>2. poolDown' \subseteq Pools
      BY <1>12, NextDown
    <2>3. PoolTypeOK'
      BY <1>1, <2>1, <2>2 DEF PoolTypeOK
    <2>4. QED
      BY <2>1, <2>3, OthersKeepRunners
  <1>13. QED
    BY <1>2, <1>3, <1>4, <1>5, <1>6, <1>7, <1>8, <1>9, <1>10, <1>11, <1>12
    DEF PoolNext

LEMMA MadeKept ==
  ASSUME MadeInv, RunnerInv', [PoolNext]_poolVars
  PROVE  MadeInv'
  <1> USE ThdPoolAssumption
  <1>1. PoolTypeOK /\ ArgTypeOK /\ PoolTypeOK' /\ ArgTypeOK'
    BY DEF MadeInv, RunnerInv
  <1>2. ASSUME NEW u \in PoolUsers, NEW k \in Pools, NEW r \in Runners, Run(u, k, r)
        PROVE  MadeInv'
    BY <1>1, <1>2, RunKeepsMade
  <1>3. ASSUME NEW u \in PoolUsers, MakeEntry(u)
        PROVE  MadeInv'
    BY <1>1, <1>3, EntryKeepsMade
  <1>4. ASSUME NEW u \in PoolUsers, MadePool(u)
        PROVE  MadeInv'
    BY <1>1, <1>4, MadeKeepsMade
  <1>5. ASSUME NEW u \in PoolUsers, InsertRunner(u)
        PROVE  MadeInv'
    <2>1. \A v \in PoolUsers : user'[v] = "idle" \/ (user'[v] = user[v] /\ arg'[v] = arg[v])
      <3>1. /\ user' = [user EXCEPT ![u] = "idle"] /\ arg' = [arg EXCEPT ![u] = NoArg]
        BY <1>5 DEF InsertRunner, PoolMove
      <3>2. user'[u] = "idle"
        BY <1>1, <3>1 DEF PoolTypeOK
      <3>3. \A v \in PoolUsers \ {u} : user'[v] = user[v] /\ arg'[v] = arg[v]
        BY <1>1, <3>1 DEF PoolTypeOK, ArgTypeOK
      <3>4. QED
        BY <3>2, <3>3
    <2>2. UNCHANGED <<maxSize, made, poolGuard, workers>>
      BY <1>5 DEF InsertRunner
    <2>3. QED
      BY <1>1, <2>1, <2>2, OthersKeepMade
  <1>6. ASSUME NEW k \in Pools, NEW s \in Slots,
               WorkerTakes(k, s) \/ WorkerRan(k, s) \/ RunnerLeaves(k, s)
        PROVE  MadeInv'
    <2>1. PICK place \in WorkerPlaces \ {"none"} :
            workers' = [workers EXCEPT ![k][s] = place]
      BY <1>6 DEF WorkerTakes, WorkerRan, RunnerLeaves, Placed, WorkerPlaces
    <2>2. workers[k][s] # "none"
      BY <1>6 DEF WorkerTakes, WorkerRan, RunnerLeaves
    <2>3. \A l \in Pools, p \in Slots : workers'[l][p] = "none" <=> workers[l][p] = "none"
      BY <1>1, <2>1, <2>2 DEF PoolTypeOK
    <2>4. UNCHANGED <<maxSize, made, poolGuard, user, arg>>
      BY <1>6 DEF WorkerTakes, WorkerRan, RunnerLeaves
    <2>5. QED
      BY <1>1, <2>3, <2>4, OthersKeepMade
  <1>7. ASSUME \/ \E u \in PoolUsers, r \in Runners : Dequeue(u, r)
               \/ \E u \in PoolUsers : Add(u)
               \/ \E i \in 1..MaxPermanent : PermanentEnds(i)
               \/ Destructs
               \/ DestructorDowns
               \/ UNCHANGED poolVars
        PROVE  MadeInv'
    <2>1. UNCHANGED <<maxSize, made, poolGuard, workers, user, arg>>
      BY <1>7 DEF Dequeue, Add, PermanentEnds, Destructs, DestructorDowns, poolVars
    <2>2. QED
      BY <1>1, <2>1, OthersKeepMade
  <1>8. QED
    BY <1>2, <1>3, <1>4, <1>5, <1>6, <1>7 DEF PoolNext

LEMMA DownKept ==
  ASSUME DownInOrder, [PoolNext]_poolVars
  PROVE  DownInOrder'
  <1>1. CASE DestructorDowns
    BY <1>1, NextDown
  <1>2. CASE Destructs
    BY <1>2 DEF Destructs, DownInOrder
  <1>3. CASE UNCHANGED <<poolDown, destructor>>
    BY <1>3 DEF DownInOrder
  <1>4. DestructorDowns \/ Destructs \/ UNCHANGED <<poolDown, destructor>>
    BY DEF PoolNext, poolVars, Run, MakeEntry, MadePool, InsertRunner, Dequeue, Add,
           WorkerTakes, WorkerRan, RunnerLeaves, PermanentEnds
  <1>5. QED
    BY <1>1, <1>2, <1>3, <1>4

\* For any runners, users and sizes of a pool, and whatever they do at once: a
\* permanent thread is made once for each place of its pool, and a runner that
\* was taken back never runs. (ThdPool.cpp:70-240)
THEOREM PoolIsSafe == PoolSpec => []PoolSafe
  <1> DEFINE Inv == RunnerInv /\ MadeInv /\ DownInOrder
  <1>1. PoolInit => Inv
    BY RunnerInvInit, MadeInvInit DEF DownInOrder, PoolInit
  <1>2. Inv /\ [PoolNext]_poolVars => Inv'
    BY RunnersKept, MadeKept, DownKept
  <1>3. Inv => PoolSafe
    BY DEF RunnerInv, MadeInv, PoolSafe
  <1>4. QED
    BY <1>1, <1>2, <1>3, PTL DEF PoolSpec

=============================================================================
