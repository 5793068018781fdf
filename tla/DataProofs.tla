----------------------------- MODULE DataProofs -----------------------------
(***************************************************************************)
(* Proofs about the sequential parts, for the properties that need no      *)
(* induction over data: reference counts, listeners, loaded libraries and  *)
(* names of semaphores (Sharing), the order in which components are brought*)
(* up and closed, paths and counters (Components), the loops of the        *)
(* tokenizer and of the mapping's parser (StringText, Mapping), deadlines  *)
(* and instants (Dates), the rotation of log files (LogFiles).  Those about*)
(* objects make the run's ObjectsExact, the last one is its LogsExact.     *)
(***************************************************************************)
EXTENDS MCData, FiniteSetTheorems, SequenceTheorems, WellFoundedInduction, TLAPS

-----------------------------------------------------------------------------
(* Numbers and sequences *)

LEMMA MinOfNats ==
  ASSUME NEW S \in SUBSET Nat, S # {}
  PROVE  Min(S) \in S /\ \A y \in S : Min(S) <= y
  <1>1. \E x \in S : \A y \in S : ~(<<y, x>> \in OpToRel(<, Nat))
    BY NatLessThanWellFounded, WFMin
  <1>2. \A x, y \in Nat : <<y, x>> \in OpToRel(<, Nat) <=> y < x
    BY DEF OpToRel
  <1>3. PICK x \in S : \A y \in S : ~(<<y, x>> \in OpToRel(<, Nat))
    BY <1>1
  <1>4. \A y \in S : x <= y
    <2> TAKE y \in S
    <2>1. x \in Nat /\ y \in Nat /\ ~(y < x)
      BY <1>2, <1>3
    <2>2. QED
      BY <2>1
  <1>5. QED
    BY <1>4 DEF Min

LEMMA BoundedIsSeq ==
  ASSUME NEW A, NEW n \in Nat, NEW s \in BoundedSeq(A, n)
  PROVE  s \in Seq(A)
  BY SeqDef DEF BoundedSeq, SeqOf

-----------------------------------------------------------------------------
(* Sharing: reference counts *)

Releases ==
  [at : {"idle", "releasing", "deciding", "acquiring"}, slot : Slots, from : Sources,
   object : 0..2, last : BOOLEAN]

RefTypeOK ==
  /\ pointers \in [Sharers -> [Slots -> 0..2]]
  /\ alive \subseteq SharedObjects
  /\ deletions \in [SharedObjects -> Nat]
  /\ releasing \in [Sharers -> Releases]
  /\ misused \in BOOLEAN

\* Who found that the count of an object came down to 0, and deletes it.
DeletesLast(t, o) ==
  releasing[t].at = "deciding" /\ releasing[t].object = o /\ releasing[t].last

\* Who deleted object 1, and lets go of its member.
LeavesMember(t) ==
  releasing[t].at = "releasing" /\ releasing[t].object = 2
    /\ pointers[t][releasing[t].slot] = 1

ReleasePlace(t) ==
  /\ releasing[t].at \in {"releasing", "deciding"} => releasing[t].object # 0
  /\ releasing[t].at = "releasing" =>
       pointers[t][releasing[t].slot] = releasing[t].object \/ LeavesMember(t)
  /\ releasing[t].at = "deciding" /\ releasing[t].object = 1 =>
       pointers[t][releasing[t].slot] = 1

\* The member of object 1 is a pointer to object 2.
MemberCounts == 1 \in alive \/ \E t \in Sharers : LeavesMember(t)

Lives(o) ==
  /\ o \in alive <=> refCount[o] > 0 \/ \E t \in Sharers : DeletesLast(t, o)
  /\ refCount[o] > 0 => \A t \in Sharers : ~DeletesLast(t, o)
  /\ \A t, u \in Sharers : DeletesLast(t, o) /\ DeletesLast(u, o) => t = u
  /\ deletions[o] = IF o \in alive THEN 0 ELSE 1

CountsHolders ==
  /\ refCount \in [SharedObjects -> Nat]
  /\ refCount[1] = Cardinality(Holders(1))
  /\ refCount[2] = Cardinality(Holders(2)) + IF MemberCounts THEN 1 ELSE 0

RefInv ==
  /\ RefTypeOK
  /\ ~misused =>
       /\ CountsHolders
       /\ \A o \in SharedObjects : Lives(o)
       /\ \A t \in Sharers : ReleasePlace(t)
       /\ 1 \in alive => \A t \in Sharers : ~LeavesMember(t)
       /\ \A t, u \in Sharers : LeavesMember(t) /\ LeavesMember(u) => t = u

LEMMA NoReleaseType == NoRelease \in Releases
  BY DEF NoRelease, Releases, Sources, Slots

LEMMA EditedRelease ==
  ASSUME NEW r \in Releases
  PROVE  /\ [r EXCEPT !.at = "acquiring"] \in Releases
         /\ \A b \in BOOLEAN : [r EXCEPT !.at = "deciding", !.last = b] \in Releases
         /\ [r EXCEPT !.at = "releasing", !.object = 2] \in Releases
  <1> USE DEF Releases
  <1>1. [r EXCEPT !.at = "acquiring"] \in Releases
    OBVIOUS
  <1>2. \A b \in BOOLEAN : [r EXCEPT !.at = "deciding", !.last = b] \in Releases
    OBVIOUS
  <1>3. [r EXCEPT !.at = "releasing", !.object = 2] \in Releases
    <2>1. \A o \in 0..2 : [r EXCEPT !.at = "releasing", !.object = o] \in Releases
      OBVIOUS
    <2>2. 2 \in 0..2
      OBVIOUS
    <2>3. QED
      BY <2>1, <2>2
  <1>4. QED
    BY <1>1, <1>2, <1>3

LEMMA DeletedOnceMore ==
  ASSUME NEW f \in [SharedObjects -> Nat], NEW o
  PROVE  [f EXCEPT ![o] = @ + 1] \in [SharedObjects -> Nat]
  <1>1. CASE o \in SharedObjects
    BY <1>1
  <1>2. CASE o \notin SharedObjects
    BY <1>2
  <1>3. QED
    BY <1>1, <1>2

\* The types in a step of a thread that lets go of an object.
LEMMA ReleaseTypes ==
  ASSUME RefTypeOK, NEW t \in Sharers, DecrementCount(t) \/ DeletesObject(t)
  PROVE  RefTypeOK'
  <1>1. releasing[t] \in Releases /\ UNCHANGED <<pointers, misused>>
    BY DEF RefTypeOK, DecrementCount, DeletesObject
  <1>2. CASE DecrementCount(t)
    <2>1. PICK b \in BOOLEAN : b <=> (refCount[releasing[t].object] = 1)
      OBVIOUS
    <2>2. PICK q : q = [releasing[t] EXCEPT !.at = "deciding", !.last = b]
      OBVIOUS
    <2>3. releasing' = [releasing EXCEPT ![t] = q]
      BY <1>2, <2>1, <2>2 DEF DecrementCount
    <2>4. q \in Releases
      BY <1>1, <2>2, EditedRelease
    <2>5. QED
      BY <1>1, <1>2, <2>3, <2>4 DEF DecrementCount, RefTypeOK
  <1>3. CASE DeletesObject(t)
    <2>1. PICK q \in Releases : releasing' = [releasing EXCEPT ![t] = q]
      <3>1. CASE ~IsLast(t)
        <4>1. releasing' = [releasing EXCEPT ![t] = [releasing[t] EXCEPT !.at = "acquiring"]]
          BY <1>3, <3>1 DEF DeletesObject
        <4>2. [releasing[t] EXCEPT !.at = "acquiring"] \in Releases
          BY <1>1, EditedRelease
        <4>3. QED
          BY <4>1, <4>2
      <3>2. CASE IsLast(t) /\ releasing[t].object = 1
        <4>1. releasing' = [releasing EXCEPT ![t] =
                [releasing[t] EXCEPT !.at = "releasing", !.object = 2]]
          BY <1>3, <3>2 DEF DeletesObject
        <4>2. [releasing[t] EXCEPT !.at = "releasing", !.object = 2] \in Releases
          BY <1>1, EditedRelease
        <4>3. QED
          BY <4>1, <4>2
      <3>3. CASE IsLast(t) /\ releasing[t].object # 1
        <4>1. releasing' = [releasing EXCEPT ![t] = [releasing[t] EXCEPT !.at = "acquiring"]]
          BY <1>3, <3>3 DEF DeletesObject
        <4>2. [releasing[t] EXCEPT !.at = "acquiring"] \in Releases
          BY <1>1, EditedRelease
        <4>3. QED
          BY <4>1, <4>2
      <3>4. QED
        BY <3>1, <3>2, <3>3
    <2>2. alive' \subseteq SharedObjects
      BY <1>3 DEF DeletesObject, RefTypeOK
    <2>3. deletions' \in [SharedObjects -> Nat]
      <3>1. CASE ~IsLast(t)
        BY <1>3, <3>1 DEF DeletesObject, RefTypeOK
      <3>2. CASE IsLast(t)
        <4>1. PICK o : deletions' = [deletions EXCEPT ![o] = @ + 1]
          BY <1>3, <3>2 DEF DeletesObject
        <4>2. QED
          BY <4>1, DeletedOnceMore DEF RefTypeOK
      <3>3. QED
        BY <3>1, <3>2
    <2>4. QED
      BY <1>1, <2>1, <2>2, <2>3 DEF RefTypeOK
  <1>4. QED
    BY <1>2, <1>3

LEMMA HoldersFinite ==
  ASSUME NEW o
  PROVE  IsFiniteSet(Holders(o)) /\ Cardinality(Holders(o)) \in Nat
  <1>1. IsFiniteSet(Slots)
    <2>1. IsFiniteSet({1}) /\ IsFiniteSet({2})
      BY FS_Singleton
    <2>2. {1} \cup {2} = Slots
      BY DEF Slots
    <2>3. QED
      BY <2>1, <2>2, FS_Union
  <1>2. IsFiniteSet(Sharers \X Slots)
    BY <1>1, SharingAssumption, FS_Product
  <1>3. Holders(o) \in SUBSET (Sharers \X Slots)
    BY DEF Holders
  <1>4. QED
    BY <1>2, <1>3, FS_Subset, FS_CardinalityType

\* Sets that differ in one element at most.
LEMMA OneElement ==
  ASSUME NEW S, NEW T, NEW U, NEW x \in U, IsFiniteSet(S), S \subseteq U, T \subseteq U,
         \A y \in U : y # x => (y \in T <=> y \in S)
  PROVE  /\ x \in T /\ x \notin S => Cardinality(T) = Cardinality(S) + 1
         /\ x \notin T /\ x \in S =>
              Cardinality(T) = Cardinality(S) - 1 /\ Cardinality(S) > 0
         /\ (x \in T <=> x \in S) => Cardinality(T) = Cardinality(S)
  <1>1. Cardinality(S) \in Nat
    BY FS_CardinalityType
  <1>2. CASE x \in T /\ x \notin S
    <2>1. T = S \cup {x}
      BY <1>2
    <2>2. QED
      BY <1>2, <2>1, FS_AddElement
  <1>3. CASE x \notin T /\ x \in S
    <2>1. T = S \ {x}
      BY <1>3
    <2>2. Cardinality(S) # 0
      BY <1>3, FS_EmptySet
    <2>3. Cardinality(S \ {x}) = Cardinality(S) - 1
      BY <1>3, FS_RemoveElement
    <2>4. QED
      BY <1>1, <1>3, <2>1, <2>2, <2>3
  <1>4. CASE x \in T <=> x \in S
    <2>1. T = S
      BY <1>4
    <2>2. QED
      BY <1>4, <2>1
  <1>5. QED
    BY <1>2, <1>3, <1>4

\* A step that changes one pointer changes the holders by one at most.
LEMMA OneSlot ==
  ASSUME NEW t \in Sharers, NEW s \in Slots, NEW o,
         \A u \in Sharers, r \in Slots : u # t \/ r # s => (Keeps(u, r, o)' <=> Keeps(u, r, o))
  PROVE  /\ Keeps(t, s, o)' /\ ~Keeps(t, s, o) =>
              Cardinality(Holders(o)') = Cardinality(Holders(o)) + 1
         /\ ~Keeps(t, s, o)' /\ Keeps(t, s, o) =>
              /\ Cardinality(Holders(o)') = Cardinality(Holders(o)) - 1
              /\ Cardinality(Holders(o)) > 0
         /\ (Keeps(t, s, o)' <=> Keeps(t, s, o)) =>
              Cardinality(Holders(o)') = Cardinality(Holders(o))
  <1>1. IsFiniteSet(Holders(o)) /\ Cardinality(Holders(o)) \in Nat
    BY HoldersFinite
  <1>2. \A h \in Sharers \X Slots : h # <<t, s>> => (h[1] # t \/ h[2] # s)
    OBVIOUS
  <1>3. \A h \in Sharers \X Slots :
          h # <<t, s>> => (h \in Holders(o)' <=> h \in Holders(o))
    BY <1>2 DEF Holders
  <1>4. <<t, s>> \in Sharers \X Slots /\ <<t, s>>[1] = t /\ <<t, s>>[2] = s
    OBVIOUS
  <1>5. /\ <<t, s>> \in Holders(o) <=> Keeps(t, s, o)
        /\ <<t, s>> \in Holders(o)' <=> Keeps(t, s, o)'
    BY <1>4 DEF Holders
  <1>6. Holders(o) \subseteq Sharers \X Slots /\ Holders(o)' \subseteq Sharers \X Slots
    BY DEF Holders
  <1>7. QED
    BY <1>1, <1>3, <1>5, <1>6, OneElement

\* Who has a pointer to an object keeps its count above 0.
LEMMA HolderCounts ==
  ASSUME NEW t \in Sharers, NEW s \in Slots, NEW o, Keeps(t, s, o)
  PROVE  Cardinality(Holders(o)) > 0
  <1>1. <<t, s>> \in Holders(o)
    BY DEF Holders
  <1>2. QED
    BY <1>1, HoldersFinite, FS_EmptySet

\* What a thread that changes nothing of its own has is as it was.
SameThread(u) ==
  pointers'[u] = pointers[u] /\ releasing'[u] = releasing[u]

LEMMA SameThreads ==
  ASSUME NEW u \in Sharers, SameThread(u)
  PROVE  /\ \A r \in Slots, o \in SharedObjects : Keeps(u, r, o)' <=> Keeps(u, r, o)
         /\ \A o \in SharedObjects : DeletesLast(u, o)' <=> DeletesLast(u, o)
         /\ LeavesMember(u)' <=> LeavesMember(u)
         /\ ReleasePlace(u) => ReleasePlace(u)'
  BY DEF SameThread, Keeps, DeletesLast, LeavesMember, ReleasePlace

LEMMA RefInvInit == RefInit => RefInv
  <1> SUFFICES ASSUME RefInit PROVE RefInv
    OBVIOUS
  <1> USE DEF RefInit, NoRelease, SharedObjects, Slots
  <1>1. RefTypeOK
    <2>1. pointers \in [Sharers -> [Slots -> 0..2]]
      OBVIOUS
    <2>2. NoRelease \in Releases
      BY NoReleaseType
    <2>3. QED
      BY <2>1, <2>2 DEF RefTypeOK
  <1>2. \A t \in Sharers :
          Keeps(t, 1, 1) /\ ~Keeps(t, 2, 1) /\ ~Keeps(t, 1, 2) /\ ~Keeps(t, 2, 2)
    BY DEF Keeps
  <1>3. Holders(2) = {}
    BY <1>2 DEF Holders
  <1>4. Cardinality(Holders(1)) = Cardinality(Sharers)
    <2> DEFINE f == [t \in Sharers |-> <<t, 1>>]
    <2>1. Holders(1) = {h \in Sharers \X {1, 2} : h[2] = 1}
      BY <1>2 DEF Holders
    <2>2. \A h \in Holders(1) : h[1] \in Sharers /\ f[h[1]] = h
      BY <2>1
    <2>3. f \in [Sharers -> Holders(1)]
      BY <2>1
    <2>4. f \in Bijection(Sharers, Holders(1))
      <3>1. \A a, b \in Sharers : f[a] = f[b] => a = b
        OBVIOUS
      <3>2. \A h \in Holders(1) : \E a \in Sharers : f[a] = h
        BY <2>2
      <3> HIDE DEF f
      <3>3. QED
        BY <2>3, <3>1, <3>2 DEF Bijection, Injection, Surjection, IsInjective
    <2>5. ExistsBijection(Sharers, Holders(1))
      BY <2>4 DEF ExistsBijection
    <2>6. QED
      BY <2>5, SharingAssumption, FS_Bijection
  <1>5. Cardinality(Sharers) \in Nat /\ Cardinality(Sharers) # 0 /\ Cardinality({}) = 0
    BY SharingAssumption, FS_CardinalityType, FS_EmptySet
  <1>6. CountsHolders
    <2>1. /\ refCount[1] = Cardinality(Sharers) /\ refCount[2] = 1
          /\ refCount \in [SharedObjects -> Nat]
      BY <1>5
    <2>2. MemberCounts
      BY DEF MemberCounts
    <2>3. Cardinality(Holders(2)) = 0
      BY <1>3, <1>5
    <2>4. refCount[2] = Cardinality(Holders(2)) + IF MemberCounts THEN 1 ELSE 0
      BY <2>1, <2>2, <2>3
    <2>5. refCount[1] = Cardinality(Holders(1))
      BY <1>4, <2>1
    <2>6. QED
      BY <2>1, <2>4, <2>5 DEF CountsHolders
  <1>7. \A o \in SharedObjects : Lives(o)
    BY <1>5 DEF Lives, DeletesLast
  <1>8. \A t \in Sharers : ReleasePlace(t) /\ ~LeavesMember(t)
    BY DEF ReleasePlace, LeavesMember
  <1>9. QED
    BY <1>1, <1>6, <1>7, <1>8 DEF RefInv

LEMMA AssignKeepsRef ==
  ASSUME RefInv, NEW t \in Sharers, NEW s \in Slots, NEW from \in Sources, Assign(t, s, from)
  PROVE  RefInv'
  <1> USE DEF SharedObjects, Slots
  <1>1. /\ RefTypeOK
        /\ releasing[t].at = "idle"
        /\ releasing' = [releasing EXCEPT ![t] =
             [at |-> IF pointers[t][s] = 0 THEN "acquiring" ELSE "releasing", slot |-> s,
              from |-> from, object |-> pointers[t][s], last |-> FALSE]]
        /\ UNCHANGED <<pointers, refCount, alive, deletions, misused>>
    BY DEF Assign, RefInv
  <1>2. RefTypeOK'
    BY <1>1 DEF RefTypeOK, Releases
  <1>3. releasing'[t] =
          [at |-> IF pointers[t][s] = 0 THEN "acquiring" ELSE "releasing", slot |-> s,
           from |-> from, object |-> pointers[t][s], last |-> FALSE]
    BY <1>1 DEF RefTypeOK
  <1>4. /\ \A u \in Sharers : u # t => SameThread(u)
        /\ pointers[t][s] \in 0..2
    BY <1>1 DEF RefTypeOK, SameThread
  <1>5. ASSUME ~misused PROVE CountsHolders' /\ \A o \in SharedObjects : Lives(o)'
    <2>1. /\ \A u \in Sharers, r \in Slots, o \in SharedObjects :
               Keeps(u, r, o)' <=> Keeps(u, r, o)
          /\ ~LeavesMember(t) /\ ~LeavesMember(t)'
          /\ \A o \in SharedObjects : ~DeletesLast(t, o) /\ ~DeletesLast(t, o)'
      BY <1>1, <1>3, <1>4, SameThreads DEF Keeps, LeavesMember, DeletesLast
    <2>2. \A o \in SharedObjects : Cardinality(Holders(o)') = Cardinality(Holders(o))
      BY <2>1, OneSlot
    <2>3. MemberCounts' <=> MemberCounts
      BY <1>1, <1>4, <2>1, SameThreads DEF MemberCounts
    <2>4. CountsHolders'
      BY <1>1, <1>5, <2>2, <2>3 DEF CountsHolders, RefInv
    <2>5. \A u \in Sharers, o \in SharedObjects : DeletesLast(u, o)' <=> DeletesLast(u, o)
      BY <1>4, <2>1, SameThreads
    <2>6. \A o \in SharedObjects : Lives(o)'
      BY <1>1, <1>5, <2>5 DEF Lives, RefInv
    <2>7. QED
      BY <2>4, <2>6
  <1>6. ASSUME ~misused
        PROVE  \A u \in Sharers : ReleasePlace(u)' /\ (LeavesMember(u)' => LeavesMember(u))
    <2>1. ReleasePlace(t)' /\ ~LeavesMember(t)'
      BY <1>1, <1>3, <1>4 DEF ReleasePlace, LeavesMember
    <2>2. QED
      BY <1>4, <1>6, <2>1, SameThreads DEF RefInv
  <1>7. QED
    BY <1>1, <1>2, <1>5, <1>6 DEF RefInv

LEMMA DecrementKeepsRef ==
  ASSUME RefInv, ~misused, NEW t \in Sharers, DecrementCount(t)
  PROVE  RefInv'
  <1> USE DEF SharedObjects, Slots
  <1>1. PICK o \in SharedObjects, s \in Slots : o = releasing[t].object /\ s = releasing[t].slot
    BY DEF RefInv, RefTypeOK, Releases, ReleasePlace, DecrementCount
  <1>2. /\ RefTypeOK /\ CountsHolders /\ Lives(1) /\ Lives(2) /\ ReleasePlace(t)
        /\ releasing[t].at = "releasing"
        /\ refCount' = [refCount EXCEPT ![o] = @ - 1]
        /\ releasing' = [releasing EXCEPT ![t].at = "deciding", ![t].last = refCount[o] = 1]
        /\ UNCHANGED <<pointers, alive, deletions, misused>>
    BY <1>1 DEF DecrementCount, RefInv
  <1>3. /\ releasing'[t].at = "deciding" /\ releasing'[t].object = o /\ releasing'[t].slot = s
        /\ releasing'[t].last <=> refCount[o] = 1
    BY <1>1, <1>2 DEF RefTypeOK, Releases
  <1>4. RefTypeOK'
    BY <1>2, ReleaseTypes
  <1>5. \A u \in Sharers : u # t => SameThread(u)
    BY <1>2 DEF RefTypeOK, SameThread
  <1>6. /\ \A r \in Slots, p \in SharedObjects :
             r # s => (Keeps(t, r, p)' <=> Keeps(t, r, p))
        /\ \A p \in SharedObjects : ~Keeps(t, s, p)'
        /\ \A p \in SharedObjects : Keeps(t, s, p) <=> p = o /\ pointers[t][s] = o
        /\ ~LeavesMember(t)' /\ (LeavesMember(t) <=> o = 2 /\ pointers[t][s] = 1)
    BY <1>1, <1>2, <1>3 DEF Keeps, LeavesMember
  <1>7. pointers[t][s] = o \/ LeavesMember(t)
    BY <1>1, <1>2 DEF ReleasePlace
  <1>8. \A u \in Sharers, r \in Slots, p \in SharedObjects :
          u # t \/ r # s => (Keeps(u, r, p)' <=> Keeps(u, r, p))
    BY <1>5, <1>6, SameThreads
  <1>9. \A p \in SharedObjects :
          IF p = o /\ pointers[t][s] = o
          THEN /\ Cardinality(Holders(p)') = Cardinality(Holders(p)) - 1
               /\ Cardinality(Holders(p)) > 0
          ELSE Cardinality(Holders(p)') = Cardinality(Holders(p))
    BY <1>6, <1>8, OneSlot
  <1>10. \A p \in SharedObjects : Cardinality(Holders(p)) \in Nat
    BY HoldersFinite
  <1>11. refCount[o] > 0 /\ CountsHolders'
    <2>1. CASE pointers[t][s] = o
      <3>1. ~LeavesMember(t)
        BY <1>6, <2>1
      <3>2. MemberCounts' <=> MemberCounts
        BY <1>2, <1>5, <1>6, <3>1, SameThreads DEF MemberCounts
      <3>3. CASE o = 1
        BY <1>2, <1>9, <1>10, <2>1, <3>2, <3>3 DEF CountsHolders
      <3>4. CASE o = 2
        BY <1>2, <1>9, <1>10, <2>1, <3>2, <3>4 DEF CountsHolders
      <3>5. QED
        BY <3>3, <3>4
    <2>2. CASE pointers[t][s] # o
      <3>1. LeavesMember(t) /\ o = 2
        BY <1>6, <1>7, <2>2
      <3>2. MemberCounts /\ ~MemberCounts'
        BY <1>2, <1>5, <1>6, <3>1, SameThreads DEF MemberCounts, RefInv
      <3>3. QED
        BY <1>2, <1>9, <1>10, <2>2, <3>1, <3>2 DEF CountsHolders
    <2>3. QED
      BY <2>1, <2>2
  <1>12. \A p \in SharedObjects : Lives(p)'
    <2>1. /\ \A u \in Sharers, p \in SharedObjects :
               u # t => (DeletesLast(u, p)' <=> DeletesLast(u, p))
          /\ \A p \in SharedObjects : ~DeletesLast(t, p)
          /\ \A p \in SharedObjects : DeletesLast(t, p)' <=> p = o /\ refCount[o] = 1
      BY <1>2, <1>3, <1>5, SameThreads DEF DeletesLast
    <2>2. /\ refCount'[o] = refCount[o] - 1
          /\ \A p \in SharedObjects : p # o => refCount'[p] = refCount[p]
      BY <1>2 DEF CountsHolders
    <2>3. \A p \in SharedObjects : p # o => Lives(p)'
      BY <1>2, <2>1, <2>2 DEF Lives
    <2>4. o \in alive /\ \A u \in Sharers : ~DeletesLast(u, o)
      BY <1>2, <1>11 DEF Lives
    <2>5. refCount[o] \in Nat
      BY <1>2 DEF CountsHolders
    <2>6. Lives(o)
      BY <1>2
    <2>7. Lives(o)'
      BY <1>2, <1>11, <2>1, <2>2, <2>4, <2>5, <2>6 DEF Lives
    <2>8. QED
      BY <2>3, <2>7
  <1>13. \A u \in Sharers : ReleasePlace(u)' /\ (LeavesMember(u)' => LeavesMember(u))
    <2>1. ReleasePlace(t)'
      BY <1>1, <1>2, <1>3, <1>6, <1>7 DEF ReleasePlace
    <2>2. QED
      BY <1>5, <1>6, <2>1, SameThreads DEF RefInv
  <1>14. QED
    BY <1>2, <1>4, <1>11, <1>12, <1>13 DEF RefInv

LEMMA DeleteKeepsRef ==
  ASSUME RefInv, ~misused, NEW t \in Sharers, DeletesObject(t)
  PROVE  RefInv'
  <1> USE DEF SharedObjects, Slots
  <1>1. PICK o \in SharedObjects, s \in Slots : o = releasing[t].object /\ s = releasing[t].slot
    BY DEF RefInv, RefTypeOK, Releases, ReleasePlace, DeletesObject
  <1>2. /\ RefTypeOK /\ CountsHolders /\ Lives(1) /\ Lives(2) /\ ReleasePlace(t)
        /\ releasing[t].at = "deciding"
        /\ UNCHANGED <<pointers, refCount, misused>>
        /\ o = 1 => pointers[t][s] = 1
    BY <1>1 DEF DeletesObject, RefInv, ReleasePlace
  <1>3. CASE ~releasing[t].last
    <2>1. /\ releasing' = [releasing EXCEPT ![t].at = "acquiring"]
          /\ UNCHANGED <<alive, deletions>>
      BY <1>3 DEF DeletesObject, IsLast
    <2>2. RefTypeOK' /\ releasing'[t].at = "acquiring" /\ releasing'[t].slot = s
      BY <1>1, <1>2, <2>1, ReleaseTypes DEF RefTypeOK, Releases
    <2>3. \A u \in Sharers : u # t => SameThread(u)
      BY <1>2, <2>1 DEF RefTypeOK, SameThread
    <2>4. /\ \A r \in Slots, p \in SharedObjects : Keeps(t, r, p)' <=> Keeps(t, r, p)
          /\ ~LeavesMember(t) /\ ~LeavesMember(t)' /\ ReleasePlace(t)'
          /\ \A p \in SharedObjects : ~DeletesLast(t, p) /\ ~DeletesLast(t, p)'
      BY <1>1, <1>2, <1>3, <2>2 DEF Keeps, LeavesMember, ReleasePlace, DeletesLast
    <2>5. \A u \in Sharers, r \in Slots, p \in SharedObjects :
            Keeps(u, r, p)' <=> Keeps(u, r, p)
      BY <2>3, <2>4, SameThreads
    <2>6. \A p \in SharedObjects : Cardinality(Holders(p)') = Cardinality(Holders(p))
      BY <2>5, OneSlot
    <2>7. \A u \in Sharers : LeavesMember(u)' <=> LeavesMember(u)
      BY <2>3, <2>4, SameThreads
    <2>8. CountsHolders'
      BY <1>2, <2>1, <2>6, <2>7 DEF CountsHolders, MemberCounts
    <2>9. \A u \in Sharers, p \in SharedObjects : DeletesLast(u, p)' <=> DeletesLast(u, p)
      BY <2>3, <2>4, SameThreads
    <2>10. \A p \in SharedObjects : Lives(p)'
      BY <1>2, <2>1, <2>9 DEF Lives
    <2>11. \A u \in Sharers : ReleasePlace(u)'
      BY <2>3, <2>4, SameThreads DEF RefInv
    <2>12. QED
      BY <1>2, <2>1, <2>2, <2>7, <2>8, <2>10, <2>11 DEF RefInv
  <1>4. CASE releasing[t].last
    <2>1. /\ alive' = alive \ {o}
          /\ deletions' = [deletions EXCEPT ![o] = @ + 1]
          /\ releasing' =
               [releasing EXCEPT ![t] = IF o = 1 THEN [@ EXCEPT !.at = "releasing", !.object = 2]
                                                 ELSE [@ EXCEPT !.at = "acquiring"]]
      BY <1>1, <1>4 DEF DeletesObject, IsLast
    <2>2. RefTypeOK'
      BY <1>2, ReleaseTypes
    <2>3. /\ releasing'[t].slot = s
          /\ o = 1 => releasing'[t].at = "releasing" /\ releasing'[t].object = 2
          /\ o = 2 => releasing'[t].at = "acquiring"
      BY <1>1, <1>2, <2>1 DEF RefTypeOK
    <2>4. \A u \in Sharers : u # t => SameThread(u)
      BY <1>2, <2>1 DEF RefTypeOK, SameThread
    <2>5. /\ \A r \in Slots, p \in SharedObjects : Keeps(t, r, p)' <=> Keeps(t, r, p)
          /\ ~LeavesMember(t) /\ (LeavesMember(t)' <=> o = 1) /\ ReleasePlace(t)'
          /\ \A p \in SharedObjects : ~DeletesLast(t, p)' /\ (DeletesLast(t, p) <=> p = o)
      BY <1>1, <1>2, <1>4, <2>3 DEF Keeps, LeavesMember, ReleasePlace, DeletesLast
    <2>6. \A u \in Sharers, r \in Slots, p \in SharedObjects :
            Keeps(u, r, p)' <=> Keeps(u, r, p)
      BY <2>4, <2>5, SameThreads
    <2>7. \A p \in SharedObjects : Cardinality(Holders(p)') = Cardinality(Holders(p))
      BY <2>6, OneSlot
    <2>8. \A u \in Sharers : u # t => (LeavesMember(u)' <=> LeavesMember(u))
      BY <2>4, SameThreads
    <2>9. o \in alive /\ deletions[o] = 0 /\ refCount[o] = 0
      BY <1>2, <2>5 DEF Lives, CountsHolders
    <2>10. MemberCounts' <=> MemberCounts
      <3>1. CASE o = 1
        BY <2>5, <2>9, <3>1 DEF MemberCounts
      <3>2. CASE o = 2
        BY <2>1, <2>5, <2>8, <3>2 DEF MemberCounts
      <3>3. QED
        BY <3>1, <3>2
    <2>11. CountsHolders'
      BY <1>2, <2>7, <2>10 DEF CountsHolders
    <2>12. \A p \in SharedObjects : Lives(p)'
      <3>1. \A u \in Sharers, p \in SharedObjects :
              u # t => (DeletesLast(u, p)' <=> DeletesLast(u, p))
        BY <2>4, SameThreads
      <3>2. \A u \in Sharers : ~DeletesLast(u, o)'
        BY <1>2, <2>5, <3>1 DEF Lives
      <3>3. deletions'[o] = 1 /\ o \notin alive'
        BY <1>2, <2>1, <2>9 DEF RefTypeOK
      <3>4. Lives(o)'
        BY <1>2, <2>9, <3>2, <3>3 DEF Lives
      <3>5. ASSUME NEW p \in SharedObjects, p # o PROVE Lives(p)'
        <4>1. deletions'[p] = deletions[p] /\ (p \in alive' <=> p \in alive)
          BY <1>2, <2>1, <3>5 DEF RefTypeOK
        <4>2. \A u \in Sharers : DeletesLast(u, p)' <=> DeletesLast(u, p)
          BY <2>5, <3>1, <3>5
        <4>3. Lives(p)
          BY <1>2
        <4>4. QED
          BY <1>2, <4>1, <4>2, <4>3 DEF Lives
      <3>6. QED
        BY <3>4, <3>5
    <2>13. \A u \in Sharers : ReleasePlace(u)'
      BY <2>4, <2>5, SameThreads DEF RefInv
    <2>14. /\ 1 \in alive' => \A u \in Sharers : ~LeavesMember(u)'
           /\ \A u, v \in Sharers : LeavesMember(u)' /\ LeavesMember(v)' => u = v
      <3>1. CASE o = 1
        <4>1. \A u \in Sharers : ~LeavesMember(u)
          BY <2>9, <3>1 DEF RefInv
        <4>2. QED
          BY <2>1, <2>8, <3>1, <4>1
      <3>2. CASE o = 2
        <4>1. \A u \in Sharers : LeavesMember(u)' <=> LeavesMember(u)
          BY <2>5, <2>8, <3>2
        <4>2. QED
          BY <2>1, <3>2, <4>1 DEF RefInv
      <3>3. QED
        BY <3>1, <3>2
    <2>15. QED
      BY <2>2, <2>11, <2>12, <2>13, <2>14 DEF RefInv
  <1>5. QED
    BY <1>3, <1>4

LEMMA AcquireKeepsRef ==
  ASSUME RefInv, ~misused, NEW t \in Sharers, Acquire(t)
  PROVE  RefInv'
  <1> USE DEF SharedObjects, Slots
  <1> DEFINE lost == releasing[t].from = "member" /\ 1 \notin alive
  <1>a. PICK s \in Slots : s = releasing[t].slot
    BY DEF Acquire, RefInv, RefTypeOK, Releases
  <1>b. PICK o : o = SourceObject(t, s, releasing[t].from)
    OBVIOUS
  <1>1. /\ RefTypeOK /\ CountsHolders /\ Lives(1) /\ Lives(2)
        /\ releasing[t].at = "acquiring" /\ s \in Slots /\ 3 - s \in Slots /\ 3 - s # s
    BY <1>a DEF Acquire, RefInv, RefTypeOK, Releases
  <1>2. /\ misused' = (misused \/ lost)
        /\ pointers' = [pointers EXCEPT ![t][s] = o]
        /\ refCount' = IF o = 0 \/ lost THEN refCount ELSE [refCount EXCEPT ![o] = @ + 1]
        /\ releasing' = [releasing EXCEPT ![t] = NoRelease]
        /\ UNCHANGED <<kind, alive, deletions, assigns>>
    BY <1>a, <1>b DEF Acquire
  <1>3. o \in 0..2
    BY <1>1, <1>b DEF SourceObject, RefTypeOK
  <1>4. o # 0 => \/ o = pointers[t][3 - s]
                 \/ releasing[t].from = "member" /\ o = 2
    BY <1>b DEF SourceObject
  <1>5. NoRelease \in Releases
    BY NoReleaseType
  <1>6. RefTypeOK'
    <2>1. pointers' \in [Sharers -> [Slots -> 0..2]]
      BY <1>1, <1>2, <1>3 DEF RefTypeOK
    <2>2. misused' \in BOOLEAN
      BY <1>2
    <2>3. QED
      BY <1>1, <1>2, <1>5, <2>1, <2>2 DEF RefTypeOK
  <1>7. SUFFICES ASSUME ~lost PROVE RefInv'
    BY <1>2, <1>6 DEF RefInv
  <1> HIDE DEF lost
  <1>8. ~misused' /\ refCount' = IF o = 0 THEN refCount ELSE [refCount EXCEPT ![o] = @ + 1]
    BY <1>2, <1>7
  <1>9. /\ pointers'[t][s] = o /\ releasing'[t].at = "idle"
        /\ \A r \in Slots : r # s => pointers'[t][r] = pointers[t][r]
        /\ \A u \in Sharers : u # t => SameThread(u)
    BY <1>1, <1>2 DEF RefTypeOK, SameThread, NoRelease
  <1>10. /\ \A r \in Slots, p \in SharedObjects : r # s => (Keeps(t, r, p)' <=> Keeps(t, r, p))
         /\ \A p \in SharedObjects : ~Keeps(t, s, p) /\ (Keeps(t, s, p)' <=> p = o)
    BY <1>1, <1>9, <1>a DEF Keeps
  <1>11. /\ ~LeavesMember(t) /\ ~LeavesMember(t)' /\ ReleasePlace(t)'
         /\ \A p \in SharedObjects : ~DeletesLast(t, p) /\ ~DeletesLast(t, p)'
    BY <1>1, <1>9 DEF LeavesMember, ReleasePlace, DeletesLast
  <1>12. \A u \in Sharers, r \in Slots, p \in SharedObjects :
           u # t \/ r # s => (Keeps(u, r, p)' <=> Keeps(u, r, p))
    BY <1>9, <1>10, SameThreads
  <1>13. \A p \in SharedObjects :
           Cardinality(Holders(p)') = Cardinality(Holders(p)) + IF p = o THEN 1 ELSE 0
    <2>1. \A p \in SharedObjects : Cardinality(Holders(p)) \in Nat
      BY HoldersFinite
    <2>2. TAKE p \in SharedObjects
    <2>3. ~Keeps(t, s, p) /\ (Keeps(t, s, p)' <=> p = o) /\ s \in Slots
      BY <1>1, <1>10
    <2>4. \A u \in Sharers, r \in Slots : u # t \/ r # s => (Keeps(u, r, p)' <=> Keeps(u, r, p))
      BY <1>12
    <2>5. CASE p = o
      <3>1. Cardinality(Holders(p)') = Cardinality(Holders(p)) + 1
        BY <2>3, <2>4, <2>5, OneSlot
      <3>2. QED
        BY <2>5, <3>1
    <2>6. CASE p # o
      <3>1. Cardinality(Holders(p)') = Cardinality(Holders(p))
        BY <2>3, <2>4, <2>6, OneSlot
      <3>2. QED
        BY <2>1, <2>6, <3>1
    <2>7. QED
      BY <2>5, <2>6
  <1>14. \A u \in Sharers : LeavesMember(u)' <=> LeavesMember(u)
    BY <1>9, <1>11, SameThreads
  <1>15. MemberCounts' <=> MemberCounts
    BY <1>2, <1>14 DEF MemberCounts
  <1>16. \A p \in SharedObjects : Cardinality(Holders(p)) \in Nat
    BY HoldersFinite
  <1>17. refCount' \in [SharedObjects -> Nat]
         /\ \A p \in SharedObjects : refCount'[p] = refCount[p] + IF p = o THEN 1 ELSE 0
    BY <1>1, <1>3, <1>8 DEF CountsHolders
  <1>18. CountsHolders'
    BY <1>1, <1>13, <1>15, <1>16, <1>17 DEF CountsHolders
  <1>19. o # 0 => refCount[o] > 0
    <2>1. CASE o # 0 /\ o = pointers[t][3 - s]
      <3>1. PICK r \in Slots : r = 3 - s /\ r # s
        BY <1>1
      <3>2. Keeps(t, r, o)
        BY <1>1, <1>a, <2>1, <3>1 DEF Keeps
      <3>3. Cardinality(Holders(o)) > 0
        BY <3>2, HolderCounts
      <3>4. o = 1 \/ o = 2
        BY <1>3, <2>1
      <3>5. QED
        BY <1>1, <1>16, <3>3, <3>4 DEF CountsHolders
    <2>2. CASE releasing[t].from = "member" /\ o = 2
      <3>1. MemberCounts
        BY <1>7, <2>2 DEF MemberCounts, lost
      <3>2. QED
        BY <1>1, <1>16, <2>2, <3>1 DEF CountsHolders
    <2>3. QED
      BY <1>4, <2>1, <2>2
  <1>20. \A p \in SharedObjects : Lives(p)'
    <2>1. \A u \in Sharers, p \in SharedObjects : DeletesLast(u, p)' <=> DeletesLast(u, p)
      BY <1>9, <1>11, SameThreads
    <2>2. \A p \in SharedObjects : refCount'[p] > 0 <=> refCount[p] > 0
      BY <1>1, <1>17, <1>19 DEF CountsHolders
    <2>3. QED
      BY <1>1, <1>2, <2>1, <2>2 DEF Lives
  <1>21. \A u \in Sharers : ReleasePlace(u)'
    BY <1>9, <1>11, SameThreads DEF RefInv
  <1>22. QED
    BY <1>2, <1>6, <1>14, <1>18, <1>20, <1>21 DEF RefInv

LEMMA MisusedTypes ==
  ASSUME RefTypeOK, misused, misused', NEW t \in Sharers,
         DecrementCount(t) \/ DeletesObject(t) \/ Acquire(t)
  PROVE  RefTypeOK'
  <1> USE DEF SharedObjects, Slots
  <1>1. CASE DecrementCount(t) \/ DeletesObject(t)
    BY <1>1, ReleaseTypes
  <1>3. CASE Acquire(t)
    <2> DEFINE s == releasing[t].slot
               o == SourceObject(t, s, releasing[t].from)
    <2>1. o \in 0..2
      BY DEF SourceObject, RefTypeOK, Releases
    <2>2. /\ pointers' = [pointers EXCEPT ![t][s] = o]
          /\ releasing' = [releasing EXCEPT ![t] = NoRelease]
          /\ UNCHANGED <<alive, deletions>>
      BY <1>3 DEF Acquire
    <2>3. NoRelease \in Releases
      BY NoReleaseType
    <2> HIDE DEF o
    <2>4. QED
      BY <2>1, <2>2, <2>3 DEF RefTypeOK
  <1>4. QED
    BY <1>1, <1>3

LEMMA RefStep == RefInv /\ [RefNext]_refVars => RefInv'
  <1> SUFFICES ASSUME RefInv, [RefNext]_refVars PROVE RefInv'
    OBVIOUS
  <1>1. ASSUME NEW t \in Sharers, NEW s \in Slots, NEW from \in Sources, Assign(t, s, from)
        PROVE  RefInv'
    BY <1>1, AssignKeepsRef
  <1>2. ASSUME NEW t \in Sharers, DecrementCount(t) \/ DeletesObject(t) \/ Acquire(t)
        PROVE  RefInv'
    <2>1. CASE ~misused
      BY <1>2, <2>1, DecrementKeepsRef, DeleteKeepsRef, AcquireKeepsRef
    <2>2. CASE misused
      <3>1. DecrementCount(t) => misused'
        BY <2>2 DEF DecrementCount
      <3>2. DeletesObject(t) => misused'
        BY <2>2 DEF DeletesObject
      <3>3. Acquire(t) => misused'
        BY <2>2 DEF Acquire
      <3>4. misused'
        BY <1>2, <3>1, <3>2, <3>3
      <3>5. RefTypeOK'
        BY <1>2, <2>2, <3>4, MisusedTypes DEF RefInv
      <3>6. QED
        BY <3>4, <3>5 DEF RefInv
    <2>3. QED
      BY <2>1, <2>2
  <1>3. CASE UNCHANGED refVars
    <2>1. /\ RefTypeOK'
          /\ UNCHANGED <<pointers, refCount, alive, deletions, releasing, misused>>
      BY <1>3 DEF refVars, RefInv, RefTypeOK
    <2>2. \A u \in Sharers : SameThread(u)
      BY <2>1 DEF SameThread
    <2>3. \A p \in SharedObjects : Cardinality(Holders(p)') = Cardinality(Holders(p))
      BY <2>1 DEF Holders, Keeps
    <2>4. QED
      BY <2>1, <2>2, <2>3, SameThreads
         DEF RefInv, CountsHolders, MemberCounts, Lives, SharedObjects
  <1>4. QED
    BY <1>1, <1>2, <1>3 DEF RefNext

\* An object is deleted once and not while a pointer points to it, unless a
\* pointer was assigned from a member of the object it let go of.
THEOREM RefIsSafe == RefSpec => []DeletedWhenFree
  <1>1. RefInv => DeletedWhenFree
    <2> SUFFICES ASSUME RefInv, ~misused, NEW o \in SharedObjects
                 PROVE  /\ deletions[o] <= 1
                        /\ Holders(o) # {} => o \in alive
                        /\ (\A t \in Sharers : releasing[t].at = "idle") /\ o = 1
                             => /\ refCount[o] = Cardinality(Holders(o))
                                /\ o \in alive <=> refCount[o] > 0
      BY DEF DeletedWhenFree
    <2>1. Lives(o) /\ CountsHolders
      BY DEF RefInv
    <2>2. deletions[o] <= 1
      BY <2>1 DEF Lives
    <2>3. Holders(o) # {} => refCount[o] > 0
      <3>1. IsFiniteSet(Holders(o)) /\ Cardinality(Holders(o)) \in Nat
        BY HoldersFinite
      <3>2. Holders(o) # {} => Cardinality(Holders(o)) > 0
        BY <3>1, FS_EmptySet
      <3>3. QED
        BY <2>1, <3>1, <3>2 DEF CountsHolders, SharedObjects
    <2>4. (\A t \in Sharers : releasing[t].at = "idle") => \A t \in Sharers : ~DeletesLast(t, o)
      BY DEF DeletesLast
    <2>5. QED
      BY <2>1, <2>2, <2>3, <2>4 DEF Lives, CountsHolders
  <1>2. QED
    BY <1>1, RefInvInit, RefStep, PTL DEF RefSpec

-----------------------------------------------------------------------------
(* Sharing: listeners of a conduit *)

\* How often a listener is in a list, and how often before a place of it.
Times(l, list) == Cardinality(Places(l, list))
TimesBefore(l, list, end) == Cardinality({k \in Places(l, list) : k < end})

ConduitTypeOK ==
  /\ listeners \in Seq(Listeners) /\ notifying \in Nat /\ undefinedIt \in BOOLEAN
  /\ called \in [Listeners -> Nat] /\ present \in [Listeners -> Nat]

\* A listener that nobody added or removed is in the list as often as it was,
\* and was called as often as it is in it before the iterator.
CalledSoFar ==
  /\ notifying <= Len(listeners) + 1
  /\ \A l \in Listeners : present[l] # 0 =>
       /\ present[l] = Times(l, listeners)
       /\ called[l] = TimesBefore(l, listeners, notifying)

ConduitInv == ConduitTypeOK /\ (notifying # 0 /\ ~undefinedIt => CalledSoFar)

LEMMA PlacesFinite ==
  ASSUME NEW list \in Seq(Listeners), NEW l, NEW end \in Nat
  PROVE  /\ IsFiniteSet(Places(l, list)) /\ Times(l, list) \in Nat
         /\ IsFiniteSet({k \in Places(l, list) : k < end})
         /\ TimesBefore(l, list, end) \in Nat
  <1>1. IsFiniteSet(1..Len(list))
    BY FS_Interval
  <1>2. /\ Places(l, list) \subseteq 1..Len(list)
        /\ {k \in Places(l, list) : k < end} \subseteq 1..Len(list)
    BY DEF Places
  <1>3. IsFiniteSet(Places(l, list)) /\ IsFiniteSet({k \in Places(l, list) : k < end})
    BY <1>1, <1>2, FS_Subset
  <1>4. QED
    BY <1>3, FS_CardinalityType DEF Times, TimesBefore

\* The list after push_back, for the other listeners.
LEMMA OthersAfterAppend ==
  ASSUME NEW list \in Seq(Listeners), NEW l \in Listeners, NEW m \in Listeners, m # l
  PROVE  Places(m, Append(list, l)) = Places(m, list)
  <1>1. PICK n \in Nat : n = Len(list)
    OBVIOUS
  <1>2. \A k \in 1..(n + 1) : k = n + 1 \/ k \in 1..n
    BY <1>1
  <1>3. PICK after : after = Append(list, l)
    OBVIOUS
  <1>4. Len(after) = n + 1 /\ after[n + 1] = l /\ \A k \in 1..n : after[k] = list[k]
    BY <1>1, <1>3
  <1>5. Places(m, after) = Places(m, list)
    BY <1>1, <1>2, <1>4 DEF Places
  <1>6. QED
    BY <1>3, <1>5

\* The list after erase: what is behind the erased one moves up.
LEMMA ErasedList ==
  ASSUME NEW list \in Seq(Listeners), NEW k \in 1..Len(list)
  PROVE  /\ RemoveAt(list, k) \in Seq(Listeners) /\ Len(RemoveAt(list, k)) = Len(list) - 1
         /\ \A j \in 1..(Len(list) - 1) :
              RemoveAt(list, k)[j] = IF j < k THEN list[j] ELSE list[j + 1]
  <1>1. PICK n \in Nat : n = Len(list) /\ k \in 1..n
    OBVIOUS
  <1>2. PICK a, b : a = SubSeq(list, 1, k - 1) /\ b = SubSeq(list, k + 1, n)
    OBVIOUS
  <1>3. /\ a \in Seq(Listeners) /\ Len(a) = k - 1
        /\ \A j \in 1..(k - 1) : a[j] = list[j]
    BY <1>1, <1>2
  <1>4. /\ b \in Seq(Listeners) /\ Len(b) = n - k
        /\ \A j \in 1..(n - k) : b[j] = list[k + j]
    BY <1>1, <1>2
  <1>5. /\ a \o b \in Seq(Listeners) /\ Len(a \o b) = n - 1
        /\ \A j \in 1..(n - 1) : (a \o b)[j] = IF j < k THEN a[j] ELSE b[j - (k - 1)]
    <2>1. /\ a \o b \in Seq(Listeners) /\ Len(a \o b) = Len(a) + Len(b)
          /\ \A j \in 1..(Len(a) + Len(b)) :
               (a \o b)[j] = IF j <= Len(a) THEN a[j] ELSE b[j - Len(a)]
      BY <1>3, <1>4, ConcatProperties
    <2>2. /\ Len(a) + Len(b) = n - 1 /\ Len(a) = k - 1
          /\ \A j \in 1..(n - 1) : j <= k - 1 <=> j < k
      BY <1>1, <1>3, <1>4
    <2> HIDE <1>3, <1>4
    <2>3. QED
      BY <2>1, <2>2
  <1>6. \A j \in 1..(n - 1) : (a \o b)[j] = IF j < k THEN list[j] ELSE list[j + 1]
    <2> TAKE j \in 1..(n - 1)
    <2>1. CASE j < k
      BY <1>1, <1>3, <1>5, <2>1
    <2>2. CASE ~(j < k)
      <3>1. PICK i \in 1..(n - k) : i = j - (k - 1)
        BY <1>1, <2>2
      <3>2. b[i] = list[k + i] /\ k + i = j + 1
        BY <1>1, <1>4, <3>1
      <3>3. QED
        BY <1>5, <2>2, <3>1, <3>2
    <2>3. QED
      BY <2>1, <2>2
  <1>7. RemoveAt(list, k) = a \o b
    BY <1>1, <1>2 DEF RemoveAt
  <1>8. QED
    BY <1>1, <1>5, <1>6, <1>7

\* The others are in it as often as before.
LEMMA OthersAfterErase ==
  ASSUME NEW list \in Seq(Listeners), NEW k \in 1..Len(list), NEW m \in Listeners,
         m # list[k]
  PROVE  /\ Times(m, RemoveAt(list, k)) = Times(m, list)
         /\ \A end \in 0..k :
              TimesBefore(m, RemoveAt(list, k), end) = TimesBefore(m, list, end)
  <1>1. PICK n \in Nat : n = Len(list) /\ k \in 1..n
    OBVIOUS
  <1>2. PICK after \in Seq(Listeners) : after = RemoveAt(list, k)
    BY ErasedList
  <1>3. /\ Len(after) = n - 1
        /\ \A j \in 1..(n - 1) : after[j] = IF j < k THEN list[j] ELSE list[j + 1]
    BY <1>1, <1>2, ErasedList
  <1> DEFINE back(j) == IF j < k THEN j ELSE j + 1
             f == [j \in Places(m, after) |-> back(j)]
  <1>4. \A j \in Places(m, after) : back(j) \in Places(m, list)
    BY <1>1, <1>3 DEF Places
  <1>5. \A i \in Places(m, list) : \E j \in Places(m, after) : back(j) = i
    <2> TAKE i \in Places(m, list)
    <2>1. i \in 1..n /\ i # k /\ list[i] = m
      BY <1>1 DEF Places
    <2>2. CASE i < k
      <3>1. i \in 1..(n - 1) /\ after[i] = m
        BY <1>1, <1>3, <2>1, <2>2
      <3>2. QED
        BY <1>3, <2>2, <3>1 DEF Places
    <2>3. CASE i > k
      <3>1. PICK j \in 1..(n - 1) : j = i - 1 /\ ~(j < k) /\ j + 1 = i
        BY <1>1, <2>1, <2>3
      <3>2. after[j] = m
        BY <1>3, <2>1, <3>1
      <3>3. QED
        BY <1>3, <3>1, <3>2 DEF Places
    <2>4. QED
      BY <1>1, <2>1, <2>2, <2>3
  <1>6. \A i, j \in Places(m, after) : back(i) = back(j) => i = j
    BY <1>1 DEF Places
  <1>7. f \in Bijection(Places(m, after), Places(m, list))
    <2>1. f \in [Places(m, after) -> Places(m, list)]
      BY <1>4
    <2>2. \A i, j \in Places(m, after) : f[i] = f[j] => i = j
      BY <1>6
    <2>3. \A i \in Places(m, list) : \E j \in Places(m, after) : f[j] = i
      BY <1>5
    <2> HIDE DEF f
    <2>4. QED
      BY <2>1, <2>2, <2>3 DEF Bijection, Injection, Surjection, IsInjective
  <1>8. Times(m, after) = Times(m, list)
    <2>1. IsFiniteSet(Places(m, after))
      BY PlacesFinite
    <2>2. ExistsBijection(Places(m, after), Places(m, list))
      BY <1>7 DEF ExistsBijection
    <2>3. QED
      BY <2>1, <2>2, FS_Bijection DEF Times
  <1>9. \A end \in 0..k :
          {j \in Places(m, after) : j < end} = {j \in Places(m, list) : j < end}
    BY <1>1, <1>3 DEF Places
  <1>10. QED
    BY <1>2, <1>8, <1>9 DEF TimesBefore

LEMMA ConduitInvInit == ConduitInit => ConduitInv
  <1> SUFFICES ASSUME ConduitInit PROVE ConduitInv
    OBVIOUS
  <1>1. listeners \in Seq(Listeners)
    BY SeqDef DEF ConduitInit
  <1>2. QED
    BY <1>1 DEF ConduitInit, ConduitInv, ConduitTypeOK

LEMMA NotifyKeepsConduit ==
  ASSUME ConduitInv, Notify
  PROVE  ConduitInv'
  <1>1. /\ ConduitTypeOK /\ notifying' = 1 /\ UNCHANGED <<listeners, undefinedIt>>
        /\ called' = [l \in Listeners |-> 0]
        /\ present' = [l \in Listeners |-> Times(l, listeners)]
    BY DEF ConduitInv, Notify, Times
  <1>2. \A l \in Listeners : Times(l, listeners) \in Nat
    BY <1>1, PlacesFinite DEF ConduitTypeOK
  <1>3. \A l \in Listeners : TimesBefore(l, listeners, 1) = 0
    <2> TAKE l \in Listeners
    <2>1. {k \in Places(l, listeners) : k < 1} = {}
      BY DEF Places
    <2>2. QED
      BY <2>1, FS_EmptySet DEF TimesBefore
  <1>4. CalledSoFar'
    BY <1>1, <1>3 DEF ConduitTypeOK, CalledSoFar
  <1>5. ConduitTypeOK'
    BY <1>1, <1>2 DEF ConduitTypeOK
  <1>6. QED
    BY <1>4, <1>5 DEF ConduitInv

LEMMA CallKeepsConduit ==
  ASSUME ConduitInv, Calls
  PROVE  ConduitInv'
  <1>1. /\ ConduitTypeOK /\ CalledSoFar /\ notifying \in 1..Len(listeners)
        /\ notifying' = notifying + 1 /\ UNCHANGED <<listeners, present, undefinedIt>>
        /\ called' = [called EXCEPT ![listeners[notifying]] = @ + 1]
    BY DEF ConduitInv, Calls
  <1>2. PICK p \in Nat, callee \in Listeners :
          p = notifying /\ p \in 1..Len(listeners) /\ callee = listeners[p]
    BY <1>1 DEF ConduitTypeOK
  <1>3. TimesBefore(callee, listeners, p + 1) = TimesBefore(callee, listeners, p) + 1
    <2>1. {k \in Places(callee, listeners) : k < p + 1}
            = {k \in Places(callee, listeners) : k < p} \cup {p}
      BY <1>2 DEF Places
    <2>2. p \notin {k \in Places(callee, listeners) : k < p}
      BY <1>2
    <2>3. IsFiniteSet({k \in Places(callee, listeners) : k < p})
      BY <1>1, PlacesFinite DEF ConduitTypeOK
    <2>4. QED
      BY <2>1, <2>2, <2>3, FS_AddElement DEF TimesBefore
  <1>4. \A l \in Listeners : l # callee =>
          TimesBefore(l, listeners, p + 1) = TimesBefore(l, listeners, p)
    <2> SUFFICES ASSUME NEW l \in Listeners, l # callee
                 PROVE  TimesBefore(l, listeners, p + 1) = TimesBefore(l, listeners, p)
      OBVIOUS
    <2>1. {k \in Places(l, listeners) : k < p + 1} = {k \in Places(l, listeners) : k < p}
      BY <1>2 DEF Places
    <2>2. QED
      BY <2>1 DEF TimesBefore
  <1>5. /\ called' \in [Listeners -> Nat] /\ called'[callee] = called[callee] + 1
        /\ \A l \in Listeners : l # callee => called'[l] = called[l]
    BY <1>1, <1>2 DEF ConduitTypeOK
  <1>6. \A l \in Listeners : present[l] # 0 =>
          present[l] = Times(l, listeners) /\ called'[l] = TimesBefore(l, listeners, p + 1)
    BY <1>1, <1>2, <1>3, <1>4, <1>5 DEF CalledSoFar
  <1>7. p + 1 <= Len(listeners) + 1
    BY <1>1, <1>2 DEF ConduitTypeOK
  <1>8. CalledSoFar'
    BY <1>1, <1>2, <1>6, <1>7 DEF CalledSoFar
  <1>9. ConduitTypeOK'
    BY <1>1, <1>5 DEF ConduitTypeOK
  <1>10. QED
    BY <1>8, <1>9 DEF ConduitInv

LEMMA RemoveKeepsConduit ==
  ASSUME ConduitInv, NEW l \in Listeners, RemoveListener(l)
  PROVE  ConduitInv'
  <1>1. PICK k \in 1..Len(listeners) :
          /\ listeners[k] = l /\ listeners' = RemoveAt(listeners, k)
          /\ undefinedIt' = (notifying # 0 /\ k < notifying)
    BY DEF RemoveListener, Erased
  <1>2. /\ ConduitTypeOK /\ present' = [present EXCEPT ![l] = 0] /\ ~undefinedIt
        /\ UNCHANGED <<notifying, called>>
    BY DEF ConduitInv, RemoveListener
  <1>3. listeners' \in Seq(Listeners) /\ Len(listeners') = Len(listeners) - 1
    BY <1>1, <1>2, ErasedList DEF ConduitTypeOK
  <1>4. /\ present' \in [Listeners -> Nat] /\ present'[l] = 0
        /\ \A m \in Listeners : m # l => present'[m] = present[m]
    BY <1>2 DEF ConduitTypeOK
  <1>5. ConduitTypeOK'
    BY <1>1, <1>2, <1>3, <1>4 DEF ConduitTypeOK
  <1>6. ASSUME notifying # 0, ~undefinedIt'
        PROVE  CalledSoFar'
    <2>1. CalledSoFar /\ notifying \in 0..k
      <3>1. ~(k < notifying)
        BY <1>1, <1>6
      <3>2. k \in Int /\ notifying \in Nat
        BY <1>2 DEF ConduitTypeOK
      <3>3. notifying \in 0..k
        BY <3>1, <3>2
      <3>4. QED
        BY <1>2, <1>6, <3>3 DEF ConduitInv
    <2>2. notifying <= Len(listeners) - 1 + 1
      BY <1>1, <1>2, <2>1 DEF ConduitTypeOK
    <2>3. \A m \in Listeners : m # l =>
            /\ Times(m, RemoveAt(listeners, k)) = Times(m, listeners)
            /\ TimesBefore(m, RemoveAt(listeners, k), notifying)
                 = TimesBefore(m, listeners, notifying)
      BY <1>1, <1>2, <2>1, OthersAfterErase DEF ConduitTypeOK
    <2>4. QED
      BY <1>1, <1>2, <1>3, <1>4, <2>1, <2>2, <2>3 DEF CalledSoFar
  <1>7. QED
    BY <1>2, <1>5, <1>6 DEF ConduitInv

LEMMA AddKeepsConduit ==
  ASSUME ConduitInv, NEW l \in Listeners, AddListener(l)
  PROVE  ConduitInv'
  <1>1. /\ ConduitTypeOK /\ present' = [present EXCEPT ![l] = 0] /\ ~undefinedIt
        /\ listeners' = Append(listeners, l) /\ undefinedIt' \in BOOLEAN
        /\ UNCHANGED <<notifying, called>>
    BY DEF ConduitInv, AddListener
  <1>2. listeners' \in Seq(Listeners) /\ Len(listeners') = Len(listeners) + 1
    BY <1>1 DEF ConduitTypeOK
  <1>3. /\ present' \in [Listeners -> Nat] /\ present'[l] = 0
        /\ \A m \in Listeners : m # l => present'[m] = present[m]
    BY <1>1 DEF ConduitTypeOK
  <1>4. ConduitTypeOK'
    BY <1>1, <1>2, <1>3 DEF ConduitTypeOK
  <1>5. ASSUME CalledSoFar PROVE CalledSoFar'
    <2>1. \A m \in Listeners : m # l => Places(m, listeners') = Places(m, listeners)
      BY <1>1, OthersAfterAppend DEF ConduitTypeOK
    <2>2. \A m \in Listeners : m # l =>
            /\ Times(m, listeners') = Times(m, listeners)
            /\ TimesBefore(m, listeners', notifying) = TimesBefore(m, listeners, notifying)
      BY <2>1 DEF Times, TimesBefore
    <2>3. notifying <= Len(listeners') + 1
      BY <1>1, <1>2, <1>5 DEF ConduitTypeOK, CalledSoFar
    <2>4. QED
      BY <1>1, <1>3, <1>5, <2>2, <2>3 DEF CalledSoFar
  <1>6. QED
    BY <1>1, <1>4, <1>5 DEF ConduitInv

\* Whoever adds and removes listeners, one that is left alone is called as often
\* as it was in the list, as long as the iterator is valid.
THEOREM ListenersAreCalled == ConduitSpec => []EachCalledOnce
  <1>1. ConduitInv /\ [ConduitNext]_conduitVars => ConduitInv'
    <2> SUFFICES ASSUME ConduitInv, [ConduitNext]_conduitVars PROVE ConduitInv'
      OBVIOUS
    <2>1. CASE NotifyEnds \/ UNCHANGED conduitVars
      BY <2>1 DEF NotifyEnds, conduitVars, ConduitInv, ConduitTypeOK, CalledSoFar
    <2>2. QED
      BY <2>1, NotifyKeepsConduit, CallKeepsConduit, RemoveKeepsConduit, AddKeepsConduit
         DEF ConduitNext
  <1>2. ConduitInv => EachCalledOnce
    <2> SUFFICES ASSUME ConduitInv, notifying > Len(listeners), ~undefinedIt,
                        NEW l \in Listeners, present[l] # 0
                 PROVE  called[l] = present[l]
      BY DEF EachCalledOnce
    <2>1. CalledSoFar /\ listeners \in Seq(Listeners) /\ notifying \in Nat
      BY DEF ConduitInv, ConduitTypeOK
    <2>2. {k \in Places(l, listeners) : k < notifying} = Places(l, listeners)
      BY <2>1 DEF Places
    <2>3. QED
      BY <2>1, <2>2 DEF CalledSoFar, Times, TimesBefore
  <1>3. QED
    BY <1>1, <1>2, ConduitInvInit, PTL DEF ConduitSpec

-----------------------------------------------------------------------------
(* Sharing: DllLoader *)

Open == {l \in loaderThere : opened[l]}

DllInv ==
  /\ opened \in [Loaders -> BOOLEAN]
  /\ loaderThere \subseteq Loaders
  /\ \A l \in Loaders : opened[l] => l \in loaderThere
  /\ opens = Cardinality(Open)

\* A step that changes one loader and counts what it changed.
LEMMA OneLoader ==
  ASSUME DllInv, NEW l \in Loaders, NEW a \in 0..1, NEW b \in 0..1,
         \A m \in Loaders : m # l => (m \in Open' <=> m \in Open),
         Open' \subseteq Loaders,
         a = 1 <=> l \in Open, b = 1 <=> l \in Open'
  PROVE  opens - a + b = Cardinality(Open')
  <1>1. Open \in SUBSET Loaders /\ opens = Cardinality(Open)
    BY DEF DllInv, Open
  <1>2. IsFiniteSet(Open)
    BY <1>1, SharingAssumption, FS_Subset
  <1>3. Cardinality(Open) \in Nat
    BY <1>2, FS_CardinalityType
  <1>4. /\ l \in Open' /\ l \notin Open => Cardinality(Open') = Cardinality(Open) + 1
        /\ l \notin Open' /\ l \in Open => Cardinality(Open') = Cardinality(Open) - 1
        /\ (l \in Open' <=> l \in Open) => Cardinality(Open') = Cardinality(Open)
    BY <1>1, <1>2, OneElement
  <1>5. QED
    BY <1>1, <1>3, <1>4

LEMMA ReopensCounts ==
  ASSUME DllInv, NEW l \in Loaders, Reopens(l, opened[l]), loaderThere' = loaderThere \cup {l}
  PROVE  DllInv'
  <1>1. PICK ok \in BOOLEAN :
          /\ opened' = [opened EXCEPT ![l] = ok]
          /\ opens' = opens - (IF opened[l] THEN 1 ELSE 0) + (IF ok THEN 1 ELSE 0)
    BY DEF Reopens
  <1>2. PICK a \in 0..1 : a = IF opened[l] THEN 1 ELSE 0
    OBVIOUS
  <1>3. PICK b \in 0..1 : b = IF ok THEN 1 ELSE 0
    OBVIOUS
  <1>4. /\ opened' \in [Loaders -> BOOLEAN] /\ loaderThere' \subseteq Loaders
        /\ opened'[l] <=> ok
        /\ \A m \in Loaders : m # l => (opened'[m] <=> opened[m])
    BY <1>1 DEF DllInv
  <1>5. /\ \A m \in Loaders : m # l => (m \in Open' <=> m \in Open)
        /\ Open' \subseteq Loaders /\ (a = 1 <=> l \in Open) /\ (b = 1 <=> l \in Open')
    BY <1>2, <1>3, <1>4 DEF Open, DllInv
  <1>6. opens' = Cardinality(Open')
    BY <1>1, <1>2, <1>3, <1>5, OneLoader
  <1>7. QED
    BY <1>4, <1>6 DEF DllInv

LEMMA DllStep == DllInv /\ [DllNext]_dllVars => DllInv'
  <1> SUFFICES ASSUME DllInv, [DllNext]_dllVars PROVE DllInv'
    OBVIOUS
  <1>1. ASSUME NEW l \in Loaders, MakesLoader(l) PROVE DllInv'
    <2>1. ~opened[l] /\ l \notin loaderThere
      BY <1>1 DEF MakesLoader, DllInv
    <2>2. Reopens(l, opened[l]) /\ loaderThere' = loaderThere \cup {l}
      BY <1>1, <2>1 DEF MakesLoader, Reopens
    <2>3. QED
      BY <2>2, ReopensCounts
  <1>2. ASSUME NEW l \in Loaders, NEW rhs \in Loaders, AssignsLoader(l, rhs) PROVE DllInv'
    <2>1. Reopens(l, opened[l]) /\ loaderThere' = loaderThere \cup {l}
      BY <1>2 DEF AssignsLoader, ClosesFirst
    <2>2. QED
      BY <2>1, ReopensCounts
  <1>3. ASSUME NEW l \in Loaders, DestroysLoader(l) PROVE DllInv'
    <2>1. PICK a \in 0..1 : a = IF opened[l] THEN 1 ELSE 0
      OBVIOUS
    <2>2. /\ opened' \in [Loaders -> BOOLEAN] /\ loaderThere' = loaderThere \ {l}
          /\ ~opened'[l] /\ l \in loaderThere /\ loaderThere \subseteq Loaders
          /\ \A m \in Loaders : m # l => (opened'[m] <=> opened[m])
      BY <1>3 DEF DllInv, DestroysLoader
    <2>3. /\ \A m \in Loaders : m # l => (m \in Open' <=> m \in Open)
          /\ Open' \subseteq Loaders /\ (a = 1 <=> l \in Open) /\ l \notin Open'
      BY <2>1, <2>2 DEF Open
    <2>4. opens - a + 0 = Cardinality(Open')
      BY <2>3, OneLoader
    <2>5. opens \in Nat
      <3>1. Open \in SUBSET Loaders
        BY <2>2 DEF Open
      <3>2. QED
        BY <3>1, SharingAssumption, FS_Subset, FS_CardinalityType DEF DllInv
    <2>6. opens' = Cardinality(Open')
      BY <1>3, <2>1, <2>4, <2>5 DEF DestroysLoader
    <2>7. \A m \in Loaders : opened'[m] => m \in loaderThere'
      BY <2>2 DEF DllInv
    <2>8. QED
      BY <2>2, <2>6, <2>7 DEF DllInv
  <1>4. CASE UNCHANGED dllVars
    BY <1>4 DEF dllVars, DllInv, Open
  <1>5. QED
    BY <1>1, <1>2, <1>3, <1>4 DEF DllNext

\* The library is loaded as often as there are loaders that have it.
THEOREM LibraryIsSafe == DllSpec => []OpensAreLoaders
  <1>1. DllInit => DllInv
    <2> SUFFICES ASSUME DllInit PROVE DllInv
      OBVIOUS
    <2>1. Open = {}
      BY DEF Open, DllInit
    <2>2. QED
      BY <2>1, FS_EmptySet DEF DllInit, DllInv
  <1>2. DllInv => OpensAreLoaders
    BY DEF DllInv, Open, OpensAreLoaders
  <1>3. QED
    BY <1>1, <1>2, DllStep, PTL DEF DllSpec

-----------------------------------------------------------------------------
(* Sharing: the names of semaphores *)

NamesTypeOK ==
  /\ instances \in [Processes -> Nat] /\ made \in Nat
  /\ numbered \in [Processes -> SUBSET Nat]
  /\ semObjects \subseteq [by : Processes, name : Nat, sem : Nat]
  /\ ended \subseteq Processes /\ disturbed \in BOOLEAN

\* The next semaphore is none of those there are.
SemsApart ==
  /\ \A o \in semObjects : o.sem <= made
  /\ \A o, q \in semObjects : o.sem = q.sem /\ o.sem # 0 => o = q

\* One process at a time, whose objects and constructors have names apart.
OneAtATime ==
  /\ \A p, q \in Processes \ ended : p = q
  /\ \A p \in ended : numbered[p] = {}
  /\ \A o \in semObjects : o.by \notin ended

NamesApart ==
  /\ \A p \in Processes : \A n \in numbered[p] : n < instances[p]
  /\ \A o \in semObjects : o.name < instances[o.by] /\ o.name \notin numbered[o.by]
  /\ \A o, q \in semObjects : o.by = q.by /\ o.name = q.name => o = q

Named == {[name |-> o.name, sem |-> o.sem] : o \in semObjects}

NamesInv ==
  /\ NamesTypeOK /\ SemsApart
  /\ ~disturbed => OneAtATime /\ NamesApart /\ semNames = Named

LEMMA StartsKeepsNames ==
  ASSUME NamesInv, NEW p \in Processes, Starts(p)
  PROVE  NamesInv'
  <1>1. /\ NamesTypeOK /\ SemsApart /\ p \in ended /\ ended' = ended \ {p}
        /\ instances' = [instances EXCEPT ![p] = 0]
        /\ disturbed' = (disturbed \/ ended # Processes)
        /\ UNCHANGED <<numbered, semObjects, semNames, made>>
    BY DEF Starts, NamesInv
  <1>2. NamesTypeOK' /\ SemsApart'
    BY <1>1 DEF NamesTypeOK, SemsApart
  <1>3. ASSUME ~disturbed' PROVE OneAtATime' /\ NamesApart' /\ semNames' = Named'
    <2>1. ~disturbed /\ ended = Processes
      BY <1>1, <1>3 DEF NamesTypeOK
    <2>2. semObjects = {} /\ \A q \in Processes : numbered[q] = {}
      BY <1>1, <2>1 DEF NamesInv, OneAtATime, NamesTypeOK
    <2>3. semNames' = Named'
      BY <1>1, <2>1 DEF NamesInv, Named
    <2>4. OneAtATime'
      BY <1>1, <2>1, <2>2 DEF OneAtATime
    <2>5. NamesApart'
      BY <1>1, <2>2 DEF NamesApart
    <2>6. QED
      BY <2>3, <2>4, <2>5
  <1>4. QED
    BY <1>2, <1>3 DEF NamesInv

LEMMA TakesKeepsNames ==
  ASSUME NamesInv, NEW p \in Processes, TakesNumber(p)
  PROVE  NamesInv'
  <1>1. PICK n \in Nat : n = instances[p]
    BY DEF NamesInv, NamesTypeOK
  <1>2. /\ NamesTypeOK /\ SemsApart /\ p \notin ended
        /\ numbered' = [numbered EXCEPT ![p] = @ \cup {n}]
        /\ instances' = [instances EXCEPT ![p] = n + 1]
        /\ UNCHANGED <<semObjects, semNames, made, ended, disturbed>>
    BY <1>1 DEF TakesNumber, NextNumber, NamesInv
  <1>3. NamesTypeOK' /\ SemsApart'
    BY <1>2 DEF NamesTypeOK, SemsApart
  <1>4. ASSUME ~disturbed' PROVE OneAtATime' /\ NamesApart' /\ semNames' = Named'
    <2>1. OneAtATime /\ NamesApart /\ semNames = Named
      BY <1>2, <1>4 DEF NamesInv
    <2>2. /\ numbered'[p] = numbered[p] \cup {n} /\ instances'[p] = n + 1
          /\ \A q \in Processes : q # p =>
               numbered'[q] = numbered[q] /\ instances'[q] = instances[q]
      BY <1>2 DEF NamesTypeOK
    <2>3. OneAtATime'
      BY <1>2, <2>1, <2>2 DEF OneAtATime, NamesTypeOK
    <2>4. /\ \A o \in semObjects : o.by \in Processes /\ o.name \in Nat
          /\ \A q \in Processes : numbered[q] \subseteq Nat /\ instances[q] \in Nat
      BY <1>2 DEF NamesTypeOK
    <2>5. \A q \in Processes : \A m \in numbered'[q] : m < instances'[q]
      BY <1>1, <2>1, <2>2, <2>4 DEF NamesApart
    <2>6. ASSUME NEW o \in semObjects
          PROVE  o.name < instances'[o.by] /\ o.name \notin numbered'[o.by]
      BY <1>1, <2>1, <2>2, <2>4 DEF NamesApart
    <2>7. NamesApart'
      BY <1>2, <2>1, <2>5, <2>6 DEF NamesApart
    <2>8. QED
      BY <1>2, <2>1, <2>3, <2>7 DEF Named
  <1>5. QED
    BY <1>3, <1>4 DEF NamesInv

LEMMA CreatesKeepsNames ==
  ASSUME NamesInv, NEW p \in Processes, NEW name \in numbered[p], CreatesSemaphore(p, name)
  PROVE  NamesInv'
  <1>1. /\ NamesTypeOK /\ SemsApart /\ made \in Nat /\ name \in Nat
        /\ numbered' = [numbered EXCEPT ![p] = @ \ {name}]
        /\ made' = made + 1
        /\ UNCHANGED <<instances, ended, disturbed>>
    BY DEF CreatesSemaphore, NamesInv, NamesTypeOK
  <1>2. PICK o \in [by : Processes, name : Nat, sem : Nat] :
          /\ o.by = p /\ o.name = name
          /\ o.sem = 0 \/ o.sem = made + 1
          /\ semObjects' = semObjects \cup {o}
          /\ (\A e \in semNames : e.name # name) =>
               semNames' = semNames \cup {[name |-> o.name, sem |-> o.sem]}
    <2>1. CASE \E e \in semNames : e.name = name
      BY <1>1, <2>1 DEF CreatesSemaphore, OpensTaken
    <2>2. CASE \A e \in semNames : e.name # name
      <3>1. PICK o \in [by : Processes, name : Nat, sem : Nat] :
              o = [by |-> p, name |-> name, sem |-> made + 1]
        <4>1. made + 1 \in Nat
          BY <1>1
        <4>2. [by |-> p, name |-> name, sem |-> made + 1] \in
                [by : Processes, name : Nat, sem : Nat]
          BY <1>1, <4>1
        <4>3. QED
          BY <4>2
      <3>2. o.by = p /\ o.name = name /\ o.sem = made + 1
        BY <3>1
      <3>3. semObjects' = semObjects \cup {o}
        BY <2>2, <3>1 DEF CreatesSemaphore
      <3>4. semNames' = semNames \cup {[name |-> o.name, sem |-> o.sem]}
        BY <2>2, <3>2 DEF CreatesSemaphore
      <3>5. QED
        BY <3>2, <3>3, <3>4
    <2>3. QED
      BY <2>1, <2>2
  <1>3. NamesTypeOK'
    BY <1>1, <1>2 DEF NamesTypeOK
  <1>4. SemsApart'
    <2>1. \A q \in semObjects : q.sem \in Nat /\ q.sem <= made
      BY <1>1 DEF NamesTypeOK, SemsApart
    <2>2. \A q \in semObjects' : q = o \/ q \in semObjects
      BY <1>2
    <2>3. \A q \in semObjects' : q.sem <= made'
      BY <1>1, <1>2, <2>1, <2>2
    <2>4. \A q \in semObjects : q.sem = o.sem => o.sem = 0
      BY <1>1, <1>2, <2>1
    <2>5. QED
      BY <1>1, <2>2, <2>3, <2>4 DEF SemsApart
  <1>5. ASSUME ~disturbed' PROVE OneAtATime' /\ NamesApart' /\ semNames' = Named'
    <2>1. OneAtATime /\ NamesApart /\ semNames = Named
      BY <1>1, <1>5 DEF NamesInv
    <2>2. /\ p \notin ended /\ numbered'[p] = numbered[p] \ {name}
          /\ \A q \in Processes : q # p => numbered'[q] = numbered[q]
          /\ \A q \in semObjects : q.by \in Processes
      BY <1>1, <2>1 DEF OneAtATime, NamesTypeOK
    <2>3. \A q \in semObjects : q.by = p /\ q.name # name
      BY <2>1, <2>2 DEF OneAtATime, NamesApart
    <2>4. \A e \in semNames : e.name # name
      BY <2>1, <2>3 DEF Named
    <2>5. semNames' = Named'
      BY <1>2, <2>1, <2>4 DEF Named
    <2>6. OneAtATime'
      BY <1>1, <1>2, <2>1, <2>2 DEF OneAtATime
    <2>7. NamesApart'
      <3>1. \A q \in Processes : \A n \in numbered'[q] : n < instances'[q]
        BY <1>1, <2>1, <2>2 DEF NamesApart
      <3>2. \A q \in semObjects : q.name < instances'[q.by] /\ q.name \notin numbered'[q.by]
        BY <1>1, <2>1, <2>2 DEF NamesApart
      <3>3. o.name < instances'[o.by] /\ o.name \notin numbered'[o.by]
        BY <1>1, <1>2, <2>1, <2>2 DEF NamesApart
      <3>4. QED
        BY <1>2, <2>1, <2>3, <3>1, <3>2, <3>3 DEF NamesApart
    <2>8. QED
      BY <2>5, <2>6, <2>7
  <1>6. QED
    BY <1>3, <1>4, <1>5 DEF NamesInv

LEMMA DestroysKeepsNames ==
  ASSUME NamesInv, NEW o \in semObjects, DestroysSemaphore(o)
  PROVE  NamesInv'
  <1>1. /\ NamesTypeOK /\ SemsApart /\ semObjects' = semObjects \ {o}
        /\ semNames' = {e \in semNames : e.name # o.name}
        /\ UNCHANGED <<instances, numbered, made, ended, disturbed>>
    BY DEF DestroysSemaphore, Unlinked, NamesInv
  <1>2. NamesTypeOK' /\ SemsApart'
    BY <1>1 DEF NamesTypeOK, SemsApart
  <1>3. ASSUME ~disturbed' PROVE OneAtATime' /\ NamesApart' /\ semNames' = Named'
    <2>1. OneAtATime /\ NamesApart /\ semNames = Named
      BY <1>1, <1>3 DEF NamesInv
    <2>2. OneAtATime' /\ NamesApart'
      BY <1>1, <2>1 DEF OneAtATime, NamesApart
    <2>3. \A q \in semObjects : q.by = o.by
      BY <1>1, <2>1 DEF OneAtATime, NamesTypeOK
    <2>4. \A q \in semObjects : q.name = o.name <=> q = o
      BY <2>1, <2>3 DEF NamesApart
    <2>5. semNames' = Named'
      BY <1>1, <2>1, <2>4 DEF Named
    <2>6. QED
      BY <2>2, <2>5
  <1>4. QED
    BY <1>2, <1>3 DEF NamesInv

LEMMA OverKeepsNames ==
  ASSUME NamesInv, NEW p \in Processes, ProcessIsOver(p)
  PROVE  NamesInv'
  <1>1. /\ NamesTypeOK /\ SemsApart /\ ended' = ended \cup {p}
        /\ numbered' = [numbered EXCEPT ![p] = {}]
        /\ semObjects' = {o \in semObjects : o.by # p}
        /\ disturbed' = (disturbed \/ semObjects' # semObjects \/ numbered[p] # {})
        /\ UNCHANGED <<instances, semNames, made>>
    BY DEF ProcessIsOver, NamesInv
  <1>2. NamesTypeOK' /\ SemsApart'
    BY <1>1 DEF NamesTypeOK, SemsApart
  <1>3. ASSUME ~disturbed' PROVE OneAtATime' /\ NamesApart' /\ semNames' = Named'
    <2>1. ~disturbed /\ semObjects' = semObjects /\ numbered[p] = {}
      BY <1>1, <1>3 DEF NamesTypeOK
    <2>2. OneAtATime /\ NamesApart /\ semNames = Named
      BY <2>1 DEF NamesInv
    <2>3. numbered' = numbered
      BY <1>1, <2>1 DEF NamesTypeOK
    <2>4. QED
      BY <1>1, <2>1, <2>2, <2>3 DEF OneAtATime, NamesApart, Named
  <1>4. QED
    BY <1>2, <1>3 DEF NamesInv

\* No two objects have one semaphore, and while processes neither run at once nor
\* crash the system has the names of the objects and no others.
THEOREM NamesAreSafe == NamesSpec => []NamesSound
  <1>1. NamesInit => NamesInv
    <2> SUFFICES ASSUME NamesInit PROVE NamesInv
      OBVIOUS
    <2>1. NamesTypeOK /\ SemsApart
      BY DEF NamesInit, NamesTypeOK, SemsApart
    <2>2. OneAtATime /\ NamesApart
      BY DEF NamesInit, OneAtATime, NamesApart
    <2>3. Named = {}
      BY DEF NamesInit, Named
    <2>4. QED
      BY <2>1, <2>2, <2>3 DEF NamesInit, NamesInv
  <1>2. NamesInv /\ [NamesNext]_nameVars => NamesInv'
    <2> SUFFICES ASSUME NamesInv, [NamesNext]_nameVars PROVE NamesInv'
      OBVIOUS
    <2>1. ASSUME NEW p \in Processes, Starts(p) PROVE NamesInv'
      BY <2>1, StartsKeepsNames
    <2>2. ASSUME NEW p \in Processes, TakesNumber(p) PROVE NamesInv'
      BY <2>2, TakesKeepsNames
    <2>3. ASSUME NEW p \in Processes, ProcessIsOver(p) PROVE NamesInv'
      BY <2>3, OverKeepsNames
    <2>4. ASSUME NEW p \in Processes, NEW name \in numbered[p], CreatesSemaphore(p, name)
          PROVE  NamesInv'
      BY <2>4, CreatesKeepsNames
    <2>5. ASSUME NEW o \in semObjects, DestroysSemaphore(o) PROVE NamesInv'
      BY <2>5, DestroysKeepsNames
    <2>6. CASE UNCHANGED nameVars
      BY <2>6 DEF nameVars, NamesInv, NamesTypeOK, SemsApart, OneAtATime, NamesApart, Named
    <2>7. QED
      BY <2>1, <2>2, <2>3, <2>4, <2>5, <2>6 DEF NamesNext
  <1>3. NamesInv => NamesSound
    BY DEF NamesInv, SemsApart, Named, NamesSound
  <1>4. QED
    BY <1>1, <1>2, <1>3, PTL DEF NamesSpec

-----------------------------------------------------------------------------
(* Components: who holds whom once the context is there *)

CompTypeOK ==
  /\ document \in Seq(Known) /\ nextPI \in 1..(Len(document) + 1)
  /\ lucky \subseteq 1..(nextPI - 1) /\ posted \subseteq lucky
  /\ components \in [Known -> Nat]
  /\ held \in [DocumentOf -> [Known -> Nat]]

\* Is there an instance of that name, or was there one before an instruction?
InContext(n) == \E j \in lucky : document[j] = n
InContextBefore(i, n) == \E j \in lucky : j < i /\ document[j] = n

\* What an instance holds is what it asked for when it was there.
HoldsItsPeers(i) ==
  \A n \in Known :
    Holds(i, n) <=> \/ n \in InitTakes[document[i]] /\ InContextBefore(i, n)
                    \/ i \in posted /\ n \in PostInitTakes[document[i]] /\ InContext(n)

CompInv ==
  /\ CompTypeOK
  /\ compPhase = "loading" => posted = {}
  /\ compPhase \in {"loading", "posting"} => \A n \in Known : components[n] # 0 <=> InContext(n)
  /\ compPhase = "running" => posted = lucky
  /\ \A i \in DocumentOf : i \notin lucky => \A n \in Known : ~Holds(i, n)
  /\ \A i \in lucky : HoldsItsPeers(i)

LEMMA CompInvInit == CompInit => CompInv
  <1> SUFFICES ASSUME CompInit PROVE CompInv
    OBVIOUS
  <1>1. document \in Seq(Known)
    BY SeqDef, ComponentsAssumption DEF CompInit, BoundedSeq, SeqOf
  <1>2. Len(document) \in Nat
    BY <1>1
  <1>3. QED
    BY <1>1, <1>2 DEF CompInit, CompInv, CompTypeOK, InContext, Holds, DocumentOf

\* To take peers changes what one instance holds, by those that are there.
LEMMA TakesOnePeers ==
  ASSUME CompTypeOK, NEW i \in DocumentOf, NEW peers, held' = Takes(i, peers)
  PROVE  /\ held' \in [DocumentOf -> [Known -> Nat]]
         /\ \A j \in DocumentOf : j # i => held'[j] = held[j]
         /\ \A n \in Known : held'[i][n] # 0 <=>
              held[i][n] # 0 \/ (n \in peers /\ components[n] # 0)
  <1> DEFINE row == [n \in Known |->
                       IF n \in peers /\ held[i][n] = 0 THEN components[n] ELSE held[i][n]]
  <1>1. held' = [held EXCEPT ![i] = row]
    BY DEF Takes
  <1>2. row \in [Known -> Nat]
    BY DEF CompTypeOK
  <1>3. \A n \in Known : row[n] # 0 <=> held[i][n] # 0 \/ (n \in peers /\ components[n] # 0)
    OBVIOUS
  <1> HIDE DEF row
  <1>4. held'[i] = row /\ \A j \in DocumentOf : j # i => held'[j] = held[j]
    BY <1>1 DEF CompTypeOK
  <1>5. held' \in [DocumentOf -> [Known -> Nat]]
    BY <1>1, <1>2 DEF CompTypeOK
  <1>6. QED
    BY <1>3, <1>4, <1>5

LEMMA LoadKeepsComp ==
  ASSUME CompInv, LoadComponent
  PROVE  CompInv'
  <1>1. /\ CompTypeOK /\ compPhase = "loading" /\ posted = {} /\ nextPI <= Len(document)
        /\ nextPI' = nextPI + 1 /\ UNCHANGED <<document, compPhase, posted>>
        /\ Len(document) \in Nat /\ nextPI \in 1..Len(document)
    BY DEF LoadComponent, CompInv, CompTypeOK
  <1>2. CASE UNCHANGED <<components, lucky, held>>
    <2>1. CompTypeOK'
      BY <1>1, <1>2 DEF CompTypeOK, DocumentOf
    <2>2. QED
      BY <1>1, <1>2, <2>1
         DEF CompInv, DocumentOf, HoldsItsPeers, Holds, InContext, InContextBefore
  <1>3. CASE /\ components' = AddComponent(document[nextPI], nextPI)
             /\ lucky' = lucky \cup {nextPI}
             /\ held' = Takes(nextPI, InitTakes[document[nextPI]])
    <2>1. PICK i \in DocumentOf, c \in Known : i = nextPI /\ c = document[i]
      BY <1>1 DEF DocumentOf, CompTypeOK
    <2>2. /\ components' = [components EXCEPT ![c] = i]
          /\ lucky' = lucky \cup {i} /\ held' = Takes(i, InitTakes[c])
          /\ i \notin lucky /\ i \in Nat /\ i # 0
      BY <1>1, <1>3, <2>1 DEF AddComponent, CompTypeOK
    <2>3. /\ held' \in [DocumentOf -> [Known -> Nat]]
          /\ \A j \in DocumentOf : j # i => held'[j] = held[j]
          /\ \A n \in Known : held'[i][n] # 0 <=>
               held[i][n] # 0 \/ (n \in InitTakes[c] /\ components[n] # 0)
      BY <1>1, <2>2, TakesOnePeers
    <2>4. \A n \in Known : held[i][n] = 0 /\ (components[n] # 0 <=> InContext(n))
      BY <1>1, <2>2 DEF CompInv, Holds
    <2>5. CompTypeOK'
      <3>1. components' \in [Known -> Nat]
        BY <1>1, <2>2 DEF CompTypeOK
      <3>2. lucky' \subseteq 1..(nextPI' - 1) /\ nextPI' \in 1..(Len(document) + 1)
        BY <1>1, <2>1, <2>2 DEF CompTypeOK
      <3>3. held' \in [DocumentOf' -> [Known -> Nat]]
        BY <1>1, <2>3 DEF DocumentOf
      <3>4. QED
        BY <1>1, <3>1, <3>2, <3>3 DEF CompTypeOK
    <2>6. \A n \in Known : InContext(n)' <=> n = c \/ InContext(n)
      BY <1>1, <2>1, <2>2 DEF InContext
    <2>7. \A n \in Known : components'[n] # 0 <=> InContext(n)'
      BY <1>1, <2>2, <2>4, <2>6 DEF CompTypeOK
    <2>8. \A j \in lucky : j < i /\ j \in DocumentOf
      BY <1>1, <2>1 DEF CompTypeOK, DocumentOf
    <2>9. \A n \in Known : InContextBefore(i, n)' <=> InContext(n)
      BY <1>1, <2>2, <2>8 DEF InContextBefore, InContext
    <2>10. \A j \in lucky, n \in Known : InContextBefore(j, n)' <=> InContextBefore(j, n)
      <3>1. \A j \in lucky : ~(i < j)
        BY <2>1, <2>8, <1>1 DEF CompTypeOK
      <3>2. QED
        BY <1>1, <2>2, <3>1 DEF InContextBefore
    <2>11. HoldsItsPeers(i)'
      BY <1>1, <2>1, <2>3, <2>4, <2>9 DEF HoldsItsPeers, Holds
    <2>12. \A j \in lucky : HoldsItsPeers(j)'
      BY <1>1, <2>2, <2>3, <2>8, <2>10 DEF CompInv, HoldsItsPeers, Holds
    <2>13. \A j \in DocumentOf : j \notin lucky' => \A n \in Known : ~Holds(j, n)'
      BY <1>1, <2>2, <2>3 DEF CompInv, Holds
    <2>14. QED
      BY <1>1, <2>2, <2>5, <2>7, <2>11, <2>12, <2>13 DEF CompInv, DocumentOf
  <1>4. QED
    BY <1>2, <1>3 DEF LoadComponent

LEMMA PostKeepsComp ==
  ASSUME CompInv, NEW i \in DocumentOf, PostInit1(i)
  PROVE  CompInv'
  <1>1. /\ CompTypeOK /\ compPhase = "posting" /\ i \in lucky /\ i \notin posted
        /\ posted' = posted \cup {i} /\ held' = Takes(i, PostInitTakes[document[i]])
        /\ UNCHANGED <<document, compPhase, nextPI, lucky, components>>
    BY DEF PostInit1, Posting, CompInv
  <1>2. /\ held' \in [DocumentOf -> [Known -> Nat]]
        /\ \A j \in DocumentOf : j # i => held'[j] = held[j]
        /\ \A n \in Known : held'[i][n] # 0 <=>
             held[i][n] # 0 \/ (n \in PostInitTakes[document[i]] /\ components[n] # 0)
    BY <1>1, TakesOnePeers
  <1>3. \A n \in Known : components[n] # 0 <=> InContext(n)
    BY <1>1 DEF CompInv
  <1>4. CompTypeOK'
    BY <1>1, <1>2 DEF CompTypeOK, DocumentOf
  <1>5. \A j, n : /\ InContext(n)' <=> InContext(n)
                  /\ InContextBefore(j, n)' <=> InContextBefore(j, n)
    BY <1>1 DEF InContext, InContextBefore
  <1>6. HoldsItsPeers(i)'
    BY <1>1, <1>2, <1>3, <1>5 DEF CompInv, HoldsItsPeers, Holds
  <1>7. \A j \in lucky : j # i => HoldsItsPeers(j)'
    <2>1. \A j \in lucky : j \in DocumentOf
      BY <1>1 DEF CompTypeOK, DocumentOf
    <2>2. QED
      BY <1>1, <1>2, <1>5, <2>1 DEF CompInv, HoldsItsPeers, Holds
  <1>8. \A j \in DocumentOf : j \notin lucky => \A n \in Known : ~Holds(j, n)'
    BY <1>1, <1>2 DEF CompInv, Holds
  <1>9. \A n \in Known : components'[n] # 0 <=> InContext(n)'
    BY <1>1, <1>3, <1>5
  <1>10. QED
    BY <1>1, <1>4, <1>6, <1>7, <1>8, <1>9 DEF CompInv, DocumentOf

LEMMA CompStep == CompInv /\ [CompNext]_compVars => CompInv'
  <1> SUFFICES ASSUME CompInv, [CompNext]_compVars PROVE CompInv'
    OBVIOUS
  <1>1. CASE LoadComponent
    BY <1>1, LoadKeepsComp
  <1>2. ASSUME NEW i \in DocumentOf, PostInit1(i) PROVE CompInv'
    BY <1>2, PostKeepsComp
  <1>3. ASSUME \/ AllLoaded \/ AllPosted \/ ContextGoes \/ ClosesNext \/ AllClosed
               \/ UNCHANGED compVars
        PROVE  CompInv'
    <2>1. UNCHANGED <<document, nextPI, lucky, posted, components, held>>
      BY <1>3 DEF AllLoaded, AllPosted, ContextGoes, ClosesNext, AllClosed, compVars
    <2>2. /\ compPhase' = "loading" => compPhase = "loading"
          /\ compPhase' = "posting" => compPhase \in {"loading", "posting"}
          /\ compPhase' = "running" => posted = lucky
      BY <1>3 DEF AllLoaded, AllPosted, ContextGoes, ClosesNext, AllClosed, compVars, CompInv
    <2>3. QED
      BY <2>1, <2>2 DEF CompInv, CompTypeOK, DocumentOf, HoldsItsPeers, Holds, InContext,
                        InContextBefore
  <1>4. ASSUME NEW n \in Known, RemoveComponent(n) PROVE CompInv'
    BY <1>4 DEF RemoveComponent, CompInv, CompTypeOK,
                DocumentOf, HoldsItsPeers, Holds, InContext, InContextBefore
  <1>5. QED
    BY <1>1, <1>2, <1>3, <1>4 DEF CompNext

LEMMA PeersAreFound == CompInv => PeersFound
  <1> SUFFICES ASSUME CompInv, compPhase = "running", NEW i \in lucky
               PROVE  /\ \A n \in PostInitTakes[document[i]] : InContext(n) => Holds(i, n)
                      /\ \A n \in InitTakes[document[i]] \ PostInitTakes[document[i]] :
                           Holds(i, n) <=> InContextBefore(i, n)
    BY DEF PeersFound, InContext, InContextBefore
  <1>1. document[i] \in Known
    BY DEF CompInv, CompTypeOK
  <1>2. InitTakes[document[i]] \subseteq Known /\ PostInitTakes[document[i]] \subseteq Known
    BY <1>1, ComponentsAssumption DEF Known
  <1>3. posted = lucky /\ HoldsItsPeers(i)
    BY DEF CompInv
  <1>4. QED
    BY <1>2, <1>3 DEF HoldsItsPeers

-----------------------------------------------------------------------------
(* Components: what is closed, and in which order *)

\* What is in the map under a name is the latest of that name.
LatestOfName ==
  \A n \in Known : components[n] # 0 =>
    /\ components[n] \in lucky /\ document[components[n]] = n
    /\ \A j \in lucky : document[j] = n => j <= components[n]

\* Those the iterator has passed were closed, and no others.
PassedAreClosed ==
  /\ \A k \in 1..Len(closings) : \E p \in 1..(closesNext - 1) :
       closings[k] = components[ComponentNames[p]] /\ closings[k] # 0
  /\ \A p \in 1..(closesNext - 1) : components[ComponentNames[p]] # 0 =>
       \E k \in 1..Len(closings) : closings[k] = components[ComponentNames[p]]

ClosedInOrder ==
  \A j, k \in 1..Len(closings) :
    j < k => ComesBefore(document[closings[j]], document[closings[k]])

CloseTypeOK ==
  /\ closings \in Seq(Nat) /\ closesNext \in 1..(Len(ComponentNames) + 1)
  /\ compPhase \notin {"closing", "gone"} => closesNext = 1 /\ closings = <<>>
  /\ compPhase = "gone" => closesNext = Len(ComponentNames) + 1

CloseInv == CloseTypeOK /\ LatestOfName /\ PassedAreClosed /\ ClosedInOrder

LEMMA NamesAreSeq == ComponentNames \in Seq(Known) /\ Len(ComponentNames) \in Nat
  BY ComponentsAssumption DEF Known

LEMMA CloseInvInit == CompInit => CloseInv
  <1> SUFFICES ASSUME CompInit PROVE CloseInv
    OBVIOUS
  <1>1. closings = <<>> /\ closings \in Seq(Nat) /\ Len(closings) = 0 /\ closesNext = 1
    BY DEF CompInit
  <1>2. CloseTypeOK
    BY <1>1, NamesAreSeq DEF CompInit, CloseTypeOK
  <1>3. QED
    BY <1>1, <1>2 DEF CompInit, CloseInv, LatestOfName, PassedAreClosed, ClosedInOrder

\* A component that loads is the latest of its name.
LEMMA LoadKeepsLatest ==
  ASSUME CompInv, LatestOfName, LoadComponent
  PROVE  LatestOfName'
  <1>1. /\ CompTypeOK /\ UNCHANGED document
        /\ Len(document) \in Nat /\ nextPI \in 1..Len(document)
    BY DEF LoadComponent, CompInv, CompTypeOK
  <1>2. CASE UNCHANGED <<components, lucky>>
    BY <1>1, <1>2 DEF LatestOfName
  <1>3. CASE /\ components' = AddComponent(document[nextPI], nextPI)
             /\ lucky' = lucky \cup {nextPI}
    <2>1. PICK i \in Nat \ {0}, c \in Known : i = nextPI /\ c = document[i]
      BY <1>1 DEF CompTypeOK
    <2>2. /\ components' = [components EXCEPT ![c] = i] /\ lucky' = lucky \cup {i}
          /\ \A j \in lucky : j \in Nat /\ j < i
      BY <1>1, <1>3, <2>1 DEF AddComponent, CompTypeOK
    <2>3. components \in [Known -> Nat]
      BY <1>1 DEF CompTypeOK
    <2> SUFFICES ASSUME NEW n \in Known, components'[n] # 0
                 PROVE  /\ components'[n] \in lucky' /\ document[components'[n]] = n
                        /\ \A j \in lucky' : document[j] = n => j <= components'[n]
      BY <1>1 DEF LatestOfName
    <2>4. CASE n = c
      BY <2>1, <2>2, <2>3, <2>4
    <2>5. CASE n # c
      <3>1. components'[n] = components[n]
        BY <2>2, <2>3, <2>5
      <3>2. QED
        BY <2>1, <2>2, <2>5, <3>1 DEF LatestOfName
    <2>6. QED
      BY <2>4, <2>5
  <1>4. QED
    BY <1>2, <1>3 DEF LoadComponent

\* The iterator passes a name.
LEMMA ClosesNextInOrder ==
  ASSUME CompInv, CloseInv, ClosesNext
  PROVE  CloseInv'
  <1>1. PICK p \in Nat \ {0}, n \in Known, i \in Nat :
          /\ p = closesNext /\ p <= Len(ComponentNames) /\ n = ComponentNames[p]
          /\ i = components[n]
    BY NamesAreSeq DEF ClosesNext, CloseInv, CloseTypeOK, CompInv, CompTypeOK
  <1>2. /\ compPhase = "closing" /\ closesNext' = p + 1
        /\ UNCHANGED <<document, compPhase, lucky, components>>
        /\ closings' = IF i = 0 THEN closings ELSE Append(closings, i)
    BY <1>1 DEF ClosesNext
  <1>3. PICK m \in Nat : m = Len(closings)
    BY DEF CloseInv, CloseTypeOK
  <1>4. CloseTypeOK'
    BY <1>1, <1>2, NamesAreSeq DEF CloseInv, CloseTypeOK
  <1>5. LatestOfName'
    BY <1>2 DEF CloseInv, LatestOfName
  <1>6. CASE i = 0
    <2>1. closings' = closings
      BY <1>2, <1>6
    <2>2. PassedAreClosed'
      <3>1. \A q \in 1..p : q = p \/ q \in 1..(p - 1)
        BY <1>1
      <3>2. 1..(closesNext' - 1) = 1..p
        BY <1>1, <1>2
      <3>3. \A k \in 1..Len(closings) : \E q \in 1..p :
              closings[k] = components[ComponentNames[q]] /\ closings[k] # 0
        <4> TAKE k \in 1..Len(closings)
        <4>1. PICK q \in 1..(p - 1) :
               closings[k] = components[ComponentNames[q]] /\ closings[k] # 0
          BY <1>1 DEF CloseInv, PassedAreClosed
        <4>2. q \in 1..p
          BY <1>1
        <4>3. QED
          BY <4>1, <4>2
      <3>4. \A q \in 1..p : components[ComponentNames[q]] # 0 =>
              \E k \in 1..Len(closings) : closings[k] = components[ComponentNames[q]]
        BY <1>1, <1>6, <3>1 DEF CloseInv, PassedAreClosed
      <3>5. QED
        BY <1>2, <2>1, <3>2, <3>3, <3>4 DEF PassedAreClosed
    <2>3. QED
      BY <1>2, <1>4, <1>5, <2>1, <2>2 DEF CloseInv, ClosedInOrder
  <1>7. CASE i # 0
    <2>1. /\ closings' = Append(closings, i) /\ Len(closings') = m + 1
          /\ closings'[m + 1] = i /\ \A k \in 1..m : closings'[k] = closings[k]
      BY <1>2, <1>3, <1>7 DEF CloseInv, CloseTypeOK
    <2>2. \A k \in 1..(m + 1) : k = m + 1 \/ k \in 1..m
      BY <1>3
    <2>3. \A q \in 1..p : q = p \/ q \in 1..(p - 1)
      BY <1>1
    <2>4. 1..(closesNext' - 1) = 1..p
      BY <1>1, <1>2
    <2>5. \A k \in 1..(m + 1) : \E q \in 1..p :
            closings'[k] = components[ComponentNames[q]] /\ closings'[k] # 0
      <3> TAKE k \in 1..(m + 1)
      <3>1. CASE k = m + 1
        BY <1>1, <1>7, <2>1, <3>1
      <3>2. CASE k \in 1..m
        <4>1. PICK q \in 1..(p - 1) :
               closings[k] = components[ComponentNames[q]] /\ closings[k] # 0
          BY <1>1, <1>3, <3>2 DEF CloseInv, PassedAreClosed
        <4>2. q \in 1..p
          BY <1>1
        <4>3. QED
          BY <2>1, <3>2, <4>1, <4>2
      <3>3. QED
        BY <2>2, <3>1, <3>2
    <2>6. \A q \in 1..p : components[ComponentNames[q]] # 0 =>
            \E k \in 1..(m + 1) : closings'[k] = components[ComponentNames[q]]
      <3> SUFFICES ASSUME NEW q \in 1..p, components[ComponentNames[q]] # 0
                   PROVE  \E k \in 1..(m + 1) : closings'[k] = components[ComponentNames[q]]
        OBVIOUS
      <3>1. CASE q = p
        BY <1>1, <1>3, <2>1, <3>1
      <3>2. CASE q \in 1..(p - 1)
        <4>1. PICK k \in 1..m : closings[k] = components[ComponentNames[q]]
          BY <1>1, <1>3, <3>2 DEF CloseInv, PassedAreClosed
        <4>2. k \in 1..(m + 1)
          BY <1>3
        <4>3. QED
          BY <2>1, <4>1, <4>2
      <3>3. QED
        BY <2>3, <3>1, <3>2
    <2>7. PassedAreClosed'
      BY <1>2, <2>1, <2>4, <2>5, <2>6 DEF PassedAreClosed
    <2>8. document[i] = n
      BY <1>1, <1>7 DEF CloseInv, LatestOfName
    <2>9. \A k \in 1..m : ComesBefore(document[closings[k]], n)
      <3> TAKE k \in 1..m
      <3>1. PICK q \in 1..(p - 1) :
               closings[k] = components[ComponentNames[q]] /\ closings[k] # 0
        BY <1>1, <1>3 DEF CloseInv, PassedAreClosed
      <3>2. ComponentNames[q] \in Known /\ q \in 1..Len(ComponentNames) /\ q < p
        BY <1>1, NamesAreSeq
      <3>3. document[closings[k]] = ComponentNames[q]
        BY <3>1, <3>2 DEF CloseInv, LatestOfName
      <3>4. p \in 1..Len(ComponentNames)
        BY <1>1, NamesAreSeq
      <3>5. QED
        BY <1>1, <3>2, <3>3, <3>4 DEF ComesBefore
    <2>10. \A j, k \in 1..(m + 1) :
             j < k => ComesBefore(document[closings'[j]], document[closings'[k]])
      <3> SUFFICES ASSUME NEW j \in 1..(m + 1), NEW k \in 1..(m + 1), j < k
                   PROVE  ComesBefore(document[closings'[j]], document[closings'[k]])
        OBVIOUS
      <3>1. j \in 1..m
        BY <1>3
      <3>2. CASE k = m + 1
        BY <2>1, <2>8, <2>9, <3>1, <3>2
      <3>3. CASE k \in 1..m
        BY <1>3, <2>1, <3>1, <3>3 DEF CloseInv, ClosedInOrder
      <3>4. QED
        BY <2>2, <3>2, <3>3
    <2>11. ClosedInOrder'
      <3>1. \A j, k \in 1..(m + 1) :
              j < k => ComesBefore(document'[closings'[j]], document'[closings'[k]])
        BY <1>2, <2>10
      <3>2. QED
        BY <2>1, <3>1 DEF ClosedInOrder
    <2>12. QED
      BY <1>4, <1>5, <2>7, <2>11 DEF CloseInv
  <1>8. QED
    BY <1>6, <1>7

LEMMA CloseStep == CompInv /\ CloseInv /\ [CompNext]_compVars => CloseInv'
  <1> SUFFICES ASSUME CompInv, CloseInv, [CompNext]_compVars PROVE CloseInv'
    OBVIOUS
  <1>1. CASE ClosesNext
    BY <1>1, ClosesNextInOrder
  <1>2. CASE compPhase = "loading" /\ LoadComponent
    <2>1. UNCHANGED <<compPhase, closesNext, closings>> /\ LatestOfName'
      BY <1>2, LoadKeepsLatest DEF LoadComponent, CloseInv
    <2>2. closesNext = 1 /\ closings = <<>>
      BY <1>2 DEF CloseInv, CloseTypeOK
    <2>3. QED
      BY <2>1, <2>2 DEF CloseInv, CloseTypeOK, PassedAreClosed, ClosedInOrder
  <1>3. ASSUME NEW n \in Known, RemoveComponent(n) PROVE CloseInv'
    <2>1. /\ UNCHANGED <<document, compPhase, lucky, closesNext, closings>> /\ compPhase = "running"
          /\ components' = [components EXCEPT ![n] = 0] /\ components \in [Known -> Nat]
      BY <1>3 DEF RemoveComponent, CompInv, CompTypeOK
    <2>2. closesNext = 1 /\ closings = <<>>
      BY <2>1 DEF CloseInv, CloseTypeOK
    <2>3. LatestOfName'
      BY <2>1 DEF CloseInv, LatestOfName
    <2>4. QED
      BY <2>1, <2>2, <2>3 DEF CloseInv, CloseTypeOK, PassedAreClosed, ClosedInOrder
  <1>4. ASSUME \/ AllLoaded \/ AllPosted \/ ContextGoes \/ AllClosed \/ UNCHANGED compVars
               \/ \E i \in DocumentOf : PostInit1(i)
        PROVE  CloseInv'
    <2>1. UNCHANGED <<document, lucky, components, closesNext, closings>>
      BY <1>4 DEF AllLoaded, AllPosted, ContextGoes, AllClosed, compVars, PostInit1
    <2>2. /\ compPhase' \notin {"closing", "gone"} => compPhase \notin {"closing", "gone"}
          /\ compPhase' = "gone" => compPhase = "gone" \/ closesNext > Len(ComponentNames)
      BY <1>4 DEF AllLoaded, AllPosted, ContextGoes, AllClosed, compVars, PostInit1, Posting
    <2>3. CloseTypeOK'
      BY <2>1, <2>2, NamesAreSeq DEF CloseInv, CloseTypeOK
    <2>4. QED
      BY <2>1, <2>3
         DEF CloseInv, LatestOfName, PassedAreClosed, ClosedInOrder, ComesBefore
  <1>5. QED
    BY <1>1, <1>2, <1>3, <1>4 DEF CompNext, LoadComponent

LEMMA OnceAndInOrder == CompInv /\ CloseInv => ClosedOnce
  <1> SUFFICES ASSUME CompInv, CloseInv, compPhase = "gone"
               PROVE  /\ IsInjective(closings)
                      /\ Range(closings) = {components[n] : n \in Known} \ {0}
                      /\ ClosedInOrder
                      /\ \A k \in 1..Len(closings) : \A j \in lucky :
                           document[j] = document[closings[k]] => j <= closings[k]
    BY DEF ClosedOnce, ClosedInOrder
  <1>1. PICK m \in Nat, c \in Nat : m = Len(closings) /\ c = Len(ComponentNames)
    BY NamesAreSeq DEF CloseInv, CloseTypeOK
  <1>2. /\ 1..(closesNext - 1) = 1..c /\ DOMAIN closings = 1..m
        /\ \A p \in 1..c : ComponentNames[p] \in Known
    BY <1>1, NamesAreSeq DEF CloseInv, CloseTypeOK
  <1>3. \A n : ~ComesBefore(n, n)
    BY NamesAreSeq, ComponentsAssumption DEF ComesBefore, IsInjective
  <1>4. IsInjective(closings)
    <2> SUFFICES ASSUME NEW j \in 1..m, NEW k \in 1..m, j < k, closings[j] = closings[k]
                 PROVE  FALSE
      BY <1>1, <1>2 DEF IsInjective
    <2>1. ComesBefore(document[closings[j]], document[closings[k]])
      BY <1>1 DEF CloseInv, ClosedInOrder
    <2>2. QED
      BY <1>3, <2>1
  <1>5. \A k \in 1..m : \E n \in Known : closings[k] = components[n] /\ closings[k] # 0
    BY <1>1, <1>2 DEF CloseInv, PassedAreClosed
  <1>6. \A n \in Known : components[n] # 0 => \E k \in 1..m : closings[k] = components[n]
    <2> SUFFICES ASSUME NEW n \in Known, components[n] # 0
                 PROVE  \E k \in 1..m : closings[k] = components[n]
      OBVIOUS
    <2>1. PICK p \in 1..c : ComponentNames[p] = n
      BY <1>1, NamesAreSeq DEF Known, Range
    <2>2. QED
      BY <1>1, <1>2, <2>1 DEF CloseInv, PassedAreClosed
  <1>7. Range(closings) = {components[n] : n \in Known} \ {0}
    BY <1>2, <1>5, <1>6 DEF Range
  <1>8. \A k \in 1..m : \A j \in lucky :
          document[j] = document[closings[k]] => j <= closings[k]
    <2> TAKE k \in 1..m
    <2>1. PICK n \in Known : closings[k] = components[n] /\ components[n] # 0
      BY <1>5
    <2>2. QED
      BY <2>1 DEF CloseInv, LatestOfName
  <1>9. QED
    BY <1>1, <1>4, <1>7, <1>8 DEF CloseInv

\* Once the context is there, a component holds each other that its postInit asks
\* for and the document has, and of those only its init asks for the earlier ones.
\* When the context goes the latest of each name that is left is closed once, in
\* the order of the names.
THEOREM ComponentsAreSafe == CompSpec => [](PeersFound /\ ClosedOnce)
  <1>1. CompInit => CompInv /\ CloseInv
    BY CompInvInit, CloseInvInit
  <1>2. CompInv /\ CloseInv /\ [CompNext]_compVars => (CompInv /\ CloseInv)'
    BY CompStep, CloseStep
  <1>3. CompInv /\ CloseInv => PeersFound /\ ClosedOnce
    BY PeersAreFound, OnceAndInOrder
  <1>4. QED
    BY <1>1, <1>2, <1>3, PTL DEF CompSpec

-----------------------------------------------------------------------------
(* Components: resolved paths *)

PathTokens == PathDirs \cup PathVariables
RootedTokens == PathDirs \cup {"/"}
ConfiguredPaths == [tag : PathVariables, path : Seq(PathTokens)]

\* A path under the root, and one that resolve may still be at.
IsRooted(path) == path \in Seq(RootedTokens) /\ path # <<>> /\ path[1] = "/"

PathTypeOK ==
  /\ pathEntries \in Seq(ConfiguredPaths)
  /\ DOMAIN pathTable \subseteq PathVariables

\* What resolve has built is under the root, or it has nothing yet and a
\* variable is next.
BuildsRooted ==
  /\ pathEntries # <<>> /\ dirsLeft \in Seq(PathTokens)
  /\ \/ IsRooted(buildPath)
     \/ buildPath = <<>> /\ (dirsLeft # <<>> => Head(dirsLeft) \in PathVariables)

PathInv ==
  /\ PathTypeOK
  /\ \A v \in DOMAIN pathTable : IsRooted(pathTable[v])
  /\ pathPhase = "resolving" => BuildsRooted

LEMMA RootIsRooted == IsRooted(RootPath)
  BY DEF IsRooted, RootPath, RootedTokens

LEMMA RootedIsNoVariable ==
  ASSUME NEW path, IsRooted(path)
  PROVE  IsPrefix(RootPath, path) /\ Range(path) \cap PathVariables = {}
  <1>1. RootedTokens \cap PathVariables = {}
    BY ComponentsAssumption DEF RootedTokens, PathVariables, RootTag
  <1>2. PICK n \in Nat : n = Len(path) /\ n >= 1 /\ DOMAIN path = 1..n
    BY DEF IsRooted
  <1>3. \A k \in 1..n : path[k] \in RootedTokens
    BY <1>2 DEF IsRooted
  <1>4. Range(path) \cap PathVariables = {}
    BY <1>1, <1>2, <1>3 DEF Range
  <1>5. PICK root, a, b : root = RootPath /\ a = SubSeq(root, 1, 1) /\ b = SubSeq(path, 1, 1)
    OBVIOUS
  <1>6. IsPrefix(RootPath, path)
    <2>1. root \in Seq(RootedTokens) /\ Len(root) = 1 /\ root[1] = "/"
      BY <1>5, RootIsRooted DEF IsRooted, RootPath
    <2>2. a \in Seq(RootedTokens) /\ Len(a) = 1 /\ a[1] = "/"
      BY <1>5, <2>1
    <2>3. b \in Seq(RootedTokens) /\ Len(b) = 1 /\ b[1] = "/"
      BY <1>2, <1>5 DEF IsRooted
    <2>4. a = b
      BY <2>2, <2>3, SeqEqual
    <2>5. QED
      BY <1>2, <1>5, <2>1, <2>4 DEF IsPrefix
  <1>7. QED
    BY <1>4, <1>6

LEMMA RootedGrows ==
  ASSUME NEW path, IsRooted(path), NEW tail \in Seq(RootedTokens)
  PROVE  IsRooted(path \o tail)
  BY DEF IsRooted

LEMMA TextsAreSeqs ==
  ASSUME NEW list \in BoundedSeq([tag : PathVariables, path : PathTexts], MaxPathEntries)
  PROVE  list \in Seq(ConfiguredPaths)
  <1>1. PathTexts \subseteq Seq(PathTokens)
    BY BoundedIsSeq DEF PathTexts, PathTokens
  <1>2. [tag : PathVariables, path : PathTexts] \subseteq ConfiguredPaths
    BY <1>1 DEF ConfiguredPaths
  <1>3. list \in Seq([tag : PathVariables, path : PathTexts])
    BY BoundedIsSeq, ComponentsAssumption
  <1>4. QED
    BY <1>2, <1>3, SeqMonotonic

LEMMA PathInvInit == PathInit => PathInv
  <1> SUFFICES ASSUME PathInit PROVE PathInv
    OBVIOUS
  <1>1. pathEntries \in Seq(ConfiguredPaths)
    BY TextsAreSeqs DEF PathInit
  <1>2. DOMAIN pathTable = {RootTag} /\ pathTable[RootTag] = RootPath
    BY DEF PathInit
  <1>3. QED
    BY <1>1, <1>2, RootIsRooted DEF PathInit, PathInv, PathTypeOK, PathVariables

LEMMA ResolveStartsRooted ==
  ASSUME PathInv, ResolvePath
  PROVE  PathInv'
  <1>1. PICK path : path = Head(pathEntries).path
    OBVIOUS
  <1>2. path \in Seq(PathTokens) /\ pathEntries # <<>>
    <2>1. pathEntries # <<>>
      BY DEF ResolvePath
    <2>2. Head(pathEntries) \in ConfiguredPaths
      BY <2>1, HeadTailProperties DEF PathInv, PathTypeOK
    <2>3. QED
      BY <1>1, <2>1, <2>2 DEF ConfiguredPaths
  <1>3. /\ UNCHANGED <<pathEntries, pathTable>> /\ dirsLeft' = path
        /\ buildPath' = IF path # <<>> /\ path[1] \in PathVariables THEN <<>> ELSE RootPath
    BY <1>1 DEF ResolvePath, FromRoot
  <1>4. path # <<>> => Head(path) = path[1]
    BY <1>2
  <1>5. BuildsRooted'
    BY <1>2, <1>3, <1>4, RootIsRooted DEF BuildsRooted
  <1>6. QED
    BY <1>3, <1>5 DEF PathInv, PathTypeOK

LEMMA TokenKeepsRooted ==
  ASSUME PathInv, ResolveToken
  PROVE  PathInv'
  <1>1. /\ UNCHANGED <<pathEntries, pathTable>> /\ BuildsRooted
        /\ \A v \in DOMAIN pathTable : IsRooted(pathTable[v])
    BY DEF PathInv, ResolveToken
  <1>2. PICK token \in PathTokens : token = Head(dirsLeft)
    BY <1>1 DEF BuildsRooted, ResolveToken
  <1>3. Tail(dirsLeft) \in Seq(PathTokens) /\ <<>> \in Seq(PathTokens) /\ pathEntries # <<>>
    BY <1>1 DEF BuildsRooted, ResolveToken
  <1>4. CASE dirsLeft' = <<>> /\ buildPath' = <<>>
    BY <1>1, <1>3, <1>4 DEF BuildsRooted, PathInv, PathTypeOK
  <1>5. CASE /\ token \in DOMAIN pathTable
             /\ dirsLeft' = Tail(dirsLeft) /\ buildPath' = buildPath \o pathTable[token]
    <2>1. PICK found : found = pathTable[token] /\ IsRooted(found) /\ found \in Seq(RootedTokens)
      BY <1>1, <1>5 DEF IsRooted
    <2>2. CASE IsRooted(buildPath)
      <3>1. IsRooted(buildPath')
        BY <1>5, <2>1, <2>2, RootedGrows
      <3>2. QED
        BY <1>1, <1>3, <1>5, <3>1 DEF BuildsRooted, PathInv, PathTypeOK
    <2>3. CASE buildPath = <<>>
      <3>1. <<>> \o found = found
        BY <2>1, ConcatEmptySeq
      <3>2. IsRooted(buildPath')
        BY <1>5, <2>1, <2>3, <3>1
      <3>3. QED
        BY <1>1, <1>3, <1>5, <3>2 DEF BuildsRooted, PathInv, PathTypeOK
    <2>4. QED
      BY <1>1, <2>2, <2>3 DEF BuildsRooted
  <1>6. CASE /\ token \notin PathVariables
             /\ dirsLeft' = Tail(dirsLeft) /\ buildPath' = Append(buildPath, token)
    <2>1. token \in RootedTokens /\ IsRooted(buildPath)
      BY <1>1, <1>2, <1>6 DEF BuildsRooted, PathTokens, RootedTokens, ResolveToken
    <2>2. IsRooted(buildPath')
      BY <1>6, <2>1 DEF IsRooted
    <2>3. QED
      BY <1>1, <1>3, <1>6, <2>2 DEF BuildsRooted, PathInv, PathTypeOK
  <1>7. QED
    BY <1>2, <1>4, <1>5, <1>6 DEF ResolveToken

LEMMA AddKeepsRooted ==
  ASSUME PathInv, AddPath
  PROVE  PathInv'
  <1>1. /\ pathPhase' # "resolving" /\ pathEntries # <<>> /\ BuildsRooted
        /\ pathEntries' = Tail(pathEntries)
        /\ buildPath # <<>> => IsRooted(buildPath)
    BY DEF PathInv, AddPath, BuildsRooted
  <1>2. PICK tag \in PathVariables : tag = Head(pathEntries).tag
    <2>1. Head(pathEntries) \in ConfiguredPaths
      BY <1>1, HeadTailProperties DEF PathInv, PathTypeOK
    <2>2. QED
      BY <2>1 DEF ConfiguredPaths
  <1>3. pathEntries' \in Seq(ConfiguredPaths)
    BY <1>1 DEF PathInv, PathTypeOK
  <1>4. CASE UNCHANGED pathTable
    BY <1>1, <1>3, <1>4 DEF PathInv, PathTypeOK
  <1>5. CASE /\ buildPath # <<>>
             /\ pathTable' = [v \in DOMAIN pathTable \cup {tag} |->
                                IF v = tag THEN buildPath ELSE pathTable[v]]
    <2>1. DOMAIN pathTable' \subseteq PathVariables
      BY <1>2, <1>5 DEF PathInv, PathTypeOK
    <2>2. \A v \in DOMAIN pathTable' : IsRooted(pathTable'[v])
      BY <1>1, <1>5 DEF PathInv
    <2>3. QED
      BY <1>1, <1>3, <2>1, <2>2 DEF PathInv, PathTypeOK
  <1>6. QED
    BY <1>2, <1>4, <1>5 DEF AddPath

\* Whatever is configured, a path of the table is under the root and has no
\* variable left in it.
THEOREM PathsAreRooted == PathSpec => []PathsUnderRoot
  <1>1. PathInv /\ [PathNext]_pathVars => PathInv'
    <2> SUFFICES ASSUME PathInv, [PathNext]_pathVars PROVE PathInv'
      OBVIOUS
    <2>1. CASE PathsAdded \/ UNCHANGED pathVars
      BY <2>1 DEF PathsAdded, pathVars, PathInv, PathTypeOK, BuildsRooted
    <2>2. QED
      BY <2>1, ResolveStartsRooted, TokenKeepsRooted, AddKeepsRooted DEF PathNext
  <1>2. PathInv => PathsUnderRoot
    BY RootedIsNoVariable DEF PathInv, PathsUnderRoot
  <1>3. QED
    BY <1>1, <1>2, PathInvInit, PTL DEF PathSpec

-----------------------------------------------------------------------------
(* Components: counters *)

CounterNodeSet == [name : CounterSet \cup {""}, value : Nat]

\* A counter is saved: the first node of its name has its value.
IsSaved(n) ==
  /\ NodesOf(counterNodes, n) # {}
  /\ counterNodes[FirstNode(counterNodes, n)].value = counters[n]

CounterTypeOK ==
  /\ counterNodes \in Seq(CounterNodeSet)
  /\ DOMAIN counters \subseteq CounterSet /\ \A n \in DOMAIN counters : counters[n] \in Nat
  /\ savesNext \in Nat \ {0}

\* A node that has a name has that of a counter.
NodesAreCounters ==
  \A k \in NamedNodes(counterNodes) : counterNodes[k].name \in DOMAIN counters

CounterInv ==
  /\ CounterTypeOK
  /\ counterPhase # "off" => NodesAreCounters
  /\ counterPhase = "saving" =>
       \A j \in 1..Len(CounterNames) :
         j < savesNext /\ CounterNames[j] \in DOMAIN counters => IsSaved(CounterNames[j])
  /\ counterPhase = "saved" => \A n \in DOMAIN counters : IsSaved(n)

LEMMA NodeFields ==
  ASSUME NEW list \in Seq(CounterNodeSet), NEW k \in 1..Len(list)
  PROVE  list[k].name \in CounterSet \cup {""} /\ list[k].value \in Nat
  <1>1. PICK node \in CounterNodeSet : node = list[k]
    BY ElementOfSeq
  <1>2. QED
    BY <1>1 DEF CounterNodeSet

LEMMA CounterNamesAreSeq ==
  /\ Len(CounterNames) \in Nat
  /\ \A n : n \in CounterSet <=> \E j \in 1..Len(CounterNames) : CounterNames[j] = n
  BY ComponentsAssumption DEF CounterSet, Range

LEMMA FirstNodeIsFirst ==
  ASSUME NEW list \in Seq(CounterNodeSet), NEW n, NodesOf(list, n) # {}
  PROVE  /\ FirstNode(list, n) \in NodesOf(list, n)
         /\ \A j \in NodesOf(list, n) : FirstNode(list, n) <= j
  <1>1. NodesOf(list, n) \in SUBSET Nat
    BY DEF NodesOf
  <1>2. Min(NodesOf(list, n)) \in NodesOf(list, n)
        /\ \A y \in NodesOf(list, n) : Min(NodesOf(list, n)) <= y
    BY <1>1, MinOfNats
  <1>3. QED
    BY <1>2 DEF FirstNode

LEMMA LastNodeIsLast ==
  ASSUME NEW list \in Seq(CounterNodeSet), NEW n, NodesOf(list, n) # {}
  PROVE  LastNode(list, n) \in NodesOf(list, n)
  <1>1. PICK c \in Nat : c = Len(list)
    OBVIOUS
  <1> DEFINE behind == {b \in Nat : c - b \in NodesOf(list, n)}
  <1>2. \A k \in NodesOf(list, n) : k \in Nat /\ c - k \in behind
    BY <1>1 DEF NodesOf
  <1>3. behind \in SUBSET Nat /\ behind # {}
    BY <1>2
  <1> HIDE DEF behind
  <1>4. Min(behind) \in behind /\ \A y \in behind : Min(behind) <= y
    BY <1>3, MinOfNats
  <1>5. PICK b \in Nat : c - b \in NodesOf(list, n) /\ \A y \in behind : b <= y
    BY <1>4 DEF behind
  <1>6. \A j \in NodesOf(list, n) : j <= c - b
    BY <1>2, <1>5
  <1>7. QED
    BY <1>5, <1>6 DEF LastNode

\* What a list of list is after one counter was saved.
LEMMA SavedNodes ==
  ASSUME NEW list \in Seq(CounterNodeSet), NEW n \in CounterSet, n \in DOMAIN counters,
         counters[n] \in Nat, NEW after, after = Saved(list, n)
  PROVE  /\ after \in Seq(CounterNodeSet)
         /\ NodesOf(after, n) # {} /\ after[FirstNode(after, n)].value = counters[n]
         /\ \A k \in NamedNodes(after) : \/ after[k].name = n
              \/ \E j \in NamedNodes(list) : list[j].name = after[k].name
         /\ \A m : m # n => /\ NodesOf(after, m) = NodesOf(list, m)
                            /\ \A k \in NodesOf(list, m) : after[k] = list[k]
  <1>1. PICK c \in Nat : c = Len(list)
    OBVIOUS
  <1>2. PICK new \in CounterNodeSet : new = [name |-> n, value |-> counters[n]]
    BY DEF CounterNodeSet
  <1>3. new.name = n /\ new.value = counters[n]
    BY <1>2
  <1>4. CASE NodesOf(list, n) = {}
    <2>1. /\ after = Append(list, new) /\ after \in Seq(CounterNodeSet) /\ Len(after) = c + 1
          /\ after[c + 1] = new /\ \A k \in 1..c : after[k] = list[k]
      BY <1>1, <1>2, <1>4 DEF Saved
    <2>2. \A k \in 1..(c + 1) : k = c + 1 \/ k \in 1..c
      BY <1>1
    <2>3. NodesOf(after, n) = {c + 1}
      BY <1>1, <1>3, <1>4, <2>1, <2>2 DEF NodesOf
    <2>4. FirstNode(after, n) = c + 1
      BY <2>1, <2>3, FirstNodeIsFirst
    <2>5. \A m : m # n => NodesOf(after, m) = NodesOf(list, m)
      BY <1>1, <1>3, <2>1, <2>2 DEF NodesOf
    <2>6. \A k \in NamedNodes(after) :
            after[k].name = n \/ (k \in NamedNodes(list) /\ list[k].name = after[k].name)
      BY <1>1, <1>3, <2>1, <2>2 DEF NamedNodes
    <2>7. QED
      BY <1>1, <1>3, <2>1, <2>3, <2>4, <2>5, <2>6 DEF NodesOf
  <1>5. CASE NodesOf(list, n) # {}
    <2>1. PICK f \in 1..c : /\ f = FirstNode(list, n) /\ list[f].name = n
                            /\ \A j \in NodesOf(list, n) : f <= j
      BY <1>1, <1>5, FirstNodeIsFirst DEF NodesOf
    <2>2. /\ after = [list EXCEPT ![f] = new] /\ after \in Seq(CounterNodeSet) /\ Len(after) = c
          /\ \A k \in 1..c : after[k] = IF k = f THEN new ELSE list[k]
      BY <1>1, <1>2, <1>5, <2>1 DEF Saved
    <2>3. \A m : NodesOf(after, m) = NodesOf(list, m)
      BY <1>1, <1>3, <2>1, <2>2 DEF NodesOf
    <2>4. FirstNode(after, n) = f
      BY <2>1, <2>3 DEF FirstNode
    <2>5. \A k \in NamedNodes(after) :
            after[k].name = n \/ (k \in NamedNodes(list) /\ list[k].name = after[k].name)
      BY <1>1, <1>3, <2>2 DEF NamedNodes
    <2>6. QED
      BY <1>1, <1>3, <1>5, <2>1, <2>2, <2>3, <2>4, <2>5 DEF NodesOf
  <1>6. QED
    BY <1>4, <1>5

LEMMA CounterInvInit == CounterInit => CounterInv
  <1> SUFFICES ASSUME CounterInit PROVE CounterInv
    OBVIOUS
  <1>1. counterNodes \in Seq([name : CounterSet \cup {""}, value : {0, 1}])
    BY BoundedIsSeq, ComponentsAssumption DEF CounterInit
  <1>2. counterNodes \in Seq(CounterNodeSet)
    <2>1. [name : CounterSet \cup {""}, value : {0, 1}] \subseteq CounterNodeSet
      <3> SUFFICES ASSUME NEW names,
                          NEW node \in [name : names, value : {0, 1}]
                   PROVE  node \in [name : names, value : Nat]
        BY DEF CounterNodeSet
      <3>1. node = [name |-> node.name, value |-> node.value]
        OBVIOUS
      <3>2. node.name \in names /\ node.value \in Nat
        OBVIOUS
      <3>3. QED
        BY <3>1, <3>2
    <2>2. QED
      BY <1>1, <2>1, SeqMonotonic
  <1>3. DOMAIN counters = {} /\ counterPhase = "off" /\ savesNext = 1
    BY DEF CounterInit
  <1>4. QED
    BY <1>2, <1>3 DEF CounterInv, CounterTypeOK

LEMMA LoadKeepsCounters ==
  ASSUME CounterInv, LoadCounters
  PROVE  CounterInv'
  <1>1. /\ counterNodes \in Seq(CounterNodeSet) /\ counterPhase' = "up"
        /\ UNCHANGED <<counterNodes, savesNext>> /\ savesNext \in Nat \ {0}
        /\ counters' = Loaded(counterNodes)
    BY DEF CounterInv, CounterTypeOK, LoadCounters
  <1>2. DOMAIN counters' = {counterNodes[k].name : k \in NamedNodes(counterNodes)}
    BY <1>1 DEF Loaded
  <1>3. DOMAIN counters' \subseteq CounterSet
    <2>1. \A k \in 1..Len(counterNodes) : counterNodes[k].name \in CounterSet \cup {""}
      BY <1>1, NodeFields
    <2>2. QED
      BY <1>2, <2>1 DEF NamedNodes
  <1>4. \A n \in DOMAIN counters' : counters'[n] \in Nat
    <2> TAKE n \in DOMAIN counters'
    <2>1. NodesOf(counterNodes, n) # {}
      BY <1>2 DEF NamedNodes, NodesOf
    <2>2. LastNode(counterNodes, n) \in 1..Len(counterNodes)
      BY <1>1, <2>1, LastNodeIsLast DEF NodesOf
    <2>3. counterNodes[LastNode(counterNodes, n)].value \in Nat
      BY <1>1, <2>2, NodeFields
    <2>4. QED
      BY <1>1, <1>2, <2>3 DEF Loaded
  <1>5. NodesAreCounters'
    BY <1>1, <1>2 DEF NodesAreCounters, NamedNodes
  <1>6. QED
    BY <1>1, <1>3, <1>4, <1>5 DEF CounterInv, CounterTypeOK

LEMMA CountKeepsCounters ==
  ASSUME CounterInv, NEW n \in CounterSet, Counts(n)
  PROVE  CounterInv'
  <1>1. /\ counterPhase' = "up" /\ UNCHANGED <<counterNodes, savesNext>>
        /\ DOMAIN counters' = DOMAIN counters \cup {n} /\ NodesAreCounters
        /\ \A m \in DOMAIN counters' : counters'[m] =
             IF m # n THEN counters[m] ELSE IF n \in DOMAIN counters THEN counters[n] + 1 ELSE 1
    BY DEF CounterInv, Counts
  <1>2. \A m \in DOMAIN counters' : counters'[m] \in Nat
    BY <1>1 DEF CounterInv, CounterTypeOK
  <1>3. NodesAreCounters'
    BY <1>1 DEF NodesAreCounters, NamedNodes
  <1>4. QED
    BY <1>1, <1>2, <1>3 DEF CounterInv, CounterTypeOK

LEMMA SaveKeepsCounters ==
  ASSUME CounterInv, SaveCounter
  PROVE  CounterInv'
  <1>1. PICK p \in Nat \ {0}, n \in CounterSet :
          p = savesNext /\ p \in 1..Len(CounterNames) /\ n = CounterNames[p]
    BY CounterNamesAreSeq DEF SaveCounter, CounterInv, CounterTypeOK
  <1>2. /\ counterPhase = "saving" /\ UNCHANGED <<counters, counterPhase>> /\ savesNext' = p + 1
        /\ counterNodes' = IF n \in DOMAIN counters THEN Saved(counterNodes, n) ELSE counterNodes
        /\ counterNodes \in Seq(CounterNodeSet) /\ NodesAreCounters /\ CounterTypeOK
    BY <1>1 DEF SaveCounter, CounterInv, CounterTypeOK
  <1>3. \A j \in 1..Len(CounterNames) : j < p + 1 => j = p \/ j < p
    BY <1>1, CounterNamesAreSeq
  <1>4. \A j \in 1..Len(CounterNames) :
          j < p /\ CounterNames[j] \in DOMAIN counters => IsSaved(CounterNames[j])
    BY <1>1, <1>2 DEF CounterInv
  <1>5. CASE n \notin DOMAIN counters
    <2>1. UNCHANGED counterNodes /\ CounterTypeOK'
      BY <1>1, <1>2, <1>5 DEF CounterTypeOK
    <2>2. \A m : IsSaved(m)' <=> IsSaved(m)
      BY <1>2, <2>1 DEF IsSaved
    <2>3. QED
      BY <1>1, <1>2, <1>3, <1>4, <1>5, <2>1, <2>2 DEF CounterInv, NodesAreCounters, NamedNodes
  <1>6. CASE n \in DOMAIN counters
    <2>1. PICK after : after = counterNodes' /\ after = Saved(counterNodes, n)
      BY <1>2, <1>6
    <2>2. counters[n] \in Nat
      BY <1>2, <1>6 DEF CounterTypeOK
    <2>3. /\ after \in Seq(CounterNodeSet)
          /\ NodesOf(after, n) # {} /\ after[FirstNode(after, n)].value = counters[n]
          /\ \A k \in NamedNodes(after) :
               \/ after[k].name = n
               \/ \E j \in NamedNodes(counterNodes) : counterNodes[j].name = after[k].name
          /\ \A m : m # n => /\ NodesOf(after, m) = NodesOf(counterNodes, m)
                             /\ \A k \in NodesOf(counterNodes, m) : after[k] = counterNodes[k]
      BY <1>2, <1>6, <2>1, <2>2, SavedNodes
    <2>4. NodesAreCounters'
      BY <1>2, <1>6, <2>1, <2>3 DEF NodesAreCounters
    <2>5. IsSaved(n)'
      BY <1>2, <2>1, <2>3 DEF IsSaved
    <2>6. \A m : m # n /\ IsSaved(m) => IsSaved(m)'
      <3> SUFFICES ASSUME NEW m, m # n, IsSaved(m) PROVE IsSaved(m)'
        OBVIOUS
      <3>1. NodesOf(after, m) = NodesOf(counterNodes, m) /\ NodesOf(counterNodes, m) # {}
        BY <2>3 DEF IsSaved
      <3>2. FirstNode(after, m) = FirstNode(counterNodes, m)
        BY <3>1 DEF FirstNode
      <3>3. after[FirstNode(counterNodes, m)] = counterNodes[FirstNode(counterNodes, m)]
        BY <1>2, <2>3, <3>1, FirstNodeIsFirst
      <3>4. QED
        BY <1>2, <2>1, <3>1, <3>2, <3>3 DEF IsSaved
    <2>7. CounterTypeOK'
      BY <1>1, <1>2, <2>1, <2>3 DEF CounterTypeOK
    <2>8. \A j \in 1..Len(CounterNames) :
            j < p + 1 /\ CounterNames[j] \in DOMAIN counters => IsSaved(CounterNames[j])'
      BY <1>1, <1>3, <1>4, <2>5, <2>6
    <2>9. QED
      BY <1>2, <2>4, <2>7, <2>8 DEF CounterInv
  <1>7. QED
    BY <1>5, <1>6

LEMMA CounterStep == CounterInv /\ [CounterNext]_counterVars => CounterInv'
  <1> SUFFICES ASSUME CounterInv, [CounterNext]_counterVars PROVE CounterInv'
    OBVIOUS
  <1>1. CASE BeginSave
    <2>1. /\ UNCHANGED <<counterNodes, counters>> /\ counterPhase' = "saving" /\ savesNext' = 1
          /\ NodesAreCounters /\ CounterTypeOK
      BY <1>1 DEF BeginSave, CounterInv
    <2>2. /\ CounterTypeOK'
          /\ NodesAreCounters'
      <3>1. CounterTypeOK'
        BY <2>1 DEF CounterTypeOK
      <3>2. NodesAreCounters'
        BY <2>1 DEF NodesAreCounters, NamedNodes
      <3>3. QED
        BY <3>1, <3>2
    <2>3. \A j \in 1..Len(CounterNames) : ~(j < 1)
      BY CounterNamesAreSeq
    <2>4. QED
      BY <2>1, <2>2, <2>3 DEF CounterInv
  <1>2. CASE EndSave
    <2>1. /\ UNCHANGED <<counterNodes, counters, savesNext>> /\ counterPhase' = "saved"
          /\ counterPhase = "saving" /\ savesNext > Len(CounterNames)
      BY <1>2 DEF EndSave
    <2>2. \A n \in DOMAIN counters : IsSaved(n)
      <3> TAKE n \in DOMAIN counters
      <3>1. PICK j \in 1..Len(CounterNames) : CounterNames[j] = n
        BY CounterNamesAreSeq DEF CounterInv, CounterTypeOK
      <3>2. j < savesNext
        BY <2>1, CounterNamesAreSeq DEF CounterInv, CounterTypeOK
      <3>3. QED
        BY <2>1, <3>1, <3>2 DEF CounterInv
    <2>3. QED
      BY <2>1, <2>2 DEF CounterInv, CounterTypeOK, NodesAreCounters, NamedNodes, IsSaved
  <1>3. CASE UNCHANGED counterVars
    BY <1>3 DEF counterVars, CounterInv, CounterTypeOK, NodesAreCounters, NamedNodes, IsSaved
  <1>4. QED
    BY <1>1, <1>2, <1>3, LoadKeepsCounters, CountKeepsCounters, SaveKeepsCounters
       DEF CounterNext

\* Whatever is configured and counted, what was saved is what is loaded next.
THEOREM CountersAreKept == CounterSpec => []CountersSurvive
  <1>1. CounterInv => CountersSurvive
    <2> SUFFICES ASSUME CounterInv, counterPhase = "saved",
                        \A j, k \in NamedNodes(counterNodes) :
                          counterNodes[j].name = counterNodes[k].name => j = k
                 PROVE  Loaded(counterNodes) = [n \in DOMAIN counters \ {""} |-> counters[n]]
      BY DEF CountersSurvive
    <2>1. counterNodes \in Seq(CounterNodeSet)
      BY DEF CounterInv, CounterTypeOK
    <2>2. \A n \in DOMAIN counters \ {""} :
            /\ n \in {counterNodes[k].name : k \in NamedNodes(counterNodes)}
            /\ counterNodes[LastNode(counterNodes, n)].value = counters[n]
      <3> TAKE n \in DOMAIN counters \ {""}
      <3>1. IsSaved(n)
        BY DEF CounterInv
      <3>2. /\ FirstNode(counterNodes, n) \in NodesOf(counterNodes, n)
            /\ LastNode(counterNodes, n) \in NodesOf(counterNodes, n)
        BY <2>1, <3>1, FirstNodeIsFirst, LastNodeIsLast DEF IsSaved
      <3>3. \A k \in NodesOf(counterNodes, n) :
              k \in NamedNodes(counterNodes) /\ counterNodes[k].name = n
        BY DEF NodesOf, NamedNodes
      <3>4. FirstNode(counterNodes, n) = LastNode(counterNodes, n)
        BY <3>2, <3>3
      <3>5. QED
        BY <3>1, <3>2, <3>3, <3>4 DEF IsSaved
    <2>3. {counterNodes[k].name : k \in NamedNodes(counterNodes)} = DOMAIN counters \ {""}
      <3>1. \A k \in NamedNodes(counterNodes) : counterNodes[k].name \in DOMAIN counters \ {""}
        BY DEF CounterInv, NodesAreCounters, NamedNodes
      <3>2. ASSUME NEW n
            PROVE  n \in {counterNodes[k].name : k \in NamedNodes(counterNodes)}
                     <=> n \in DOMAIN counters \ {""}
        BY <2>2, <3>1
      <3>3. QED
        BY <3>2
    <2>4. QED
      BY <2>2, <2>3 DEF Loaded
  <1>2. QED
    BY <1>1, CounterInvInit, CounterStep, PTL DEF CounterSpec

-----------------------------------------------------------------------------
(* Texts: the loops of the tokenizer and of the mapping's parser *)

\* Where a search finds something it finds the first.
LEMMA FirstIsFirst ==
  ASSUME NEW S \in SUBSET Nat
  PROVE  /\ FirstOf(S) \in Nat
         /\ FirstOf(S) # NPos => FirstOf(S) \in S /\ \A y \in S : FirstOf(S) <= y
  BY MinOfNats DEF FirstOf, NPos

LEMMA FindsInText ==
  ASSUME NEW A, NEW s \in Seq(A), NEW p \in Seq(A), NEW from \in Nat
  PROVE  /\ Occurrences(s, p) \in SUBSET Nat
         /\ FindFirstOf(s, p, from) \in Nat
         /\ FindFirstOf(s, p, from) # NPos => FindFirstOf(s, p, from) >= from
         /\ Find(s, p, from) \in Nat
         /\ Find(s, p, from) # NPos =>
              Find(s, p, from) >= from /\ Find(s, p, from) \in Occurrences(s, p)
  <1>1. Len(s) \in Nat /\ Len(p) \in Nat
    OBVIOUS
  <1>2. Occurrences(s, p) \in SUBSET Nat
    BY <1>1 DEF Occurrences
  <1> DEFINE F == {i \in from..Len(s) - 1 : At(s, i) \in ToSet(p)}
             O == {i \in Occurrences(s, p) : i >= from}
  <1>3. F \in SUBSET Nat /\ (\A i \in F : i >= from) /\ FindFirstOf(s, p, from) = FirstOf(F)
    BY <1>1 DEF FindFirstOf
  <1>4. O \in SUBSET Nat /\ Find(s, p, from) = FirstOf(O)
    BY <1>2 DEF Find
  <1> HIDE DEF F
  <1>5. QED
    BY <1>2, <1>3, <1>4, FirstIsFirst

TokTypeOK ==
  /\ text \in Seq(TextChars)
  /\ mode \in [skip : BOOLEAN, all : BOOLEAN]
  /\ cur \in Nat /\ nxt \in Nat

\* Only a text that begins with the delimiter is found to have it at 0.
TokInv ==
  /\ TokTypeOK
  /\ tokPc = "skipping" /\ mode.all /\ nxt = 0 => Stuck

LEMMA FindNextFinds ==
  ASSUME TokTypeOK, NEW from \in Nat
  PROVE  FindNext(from) \in Nat /\ (mode.all /\ FindNext(from) = 0 => Stuck)
  <1>1. Delimiters \in Seq(TextChars) /\ Delimiters # <<>> /\ text \in Seq(TextChars)
    BY StringTextAssumption DEF TokTypeOK
  <1>2. /\ FindFirstOf(text, Delimiters, from) \in Nat
        /\ Find(text, Delimiters, from) \in Nat
        /\ Find(text, Delimiters, from) # NPos =>
             Find(text, Delimiters, from) \in Occurrences(text, Delimiters)
    BY <1>1, FindsInText
  <1>3. ASSUME 0 \in Occurrences(text, Delimiters) PROVE IsPrefix(Delimiters, text)
    <2>1. /\ Len(Delimiters) \in Nat /\ Len(text) \in Nat /\ Len(Delimiters) <= Len(text)
          /\ Sub(text, 0, 0 + Len(Delimiters)) = Delimiters
      BY <1>1, <1>3 DEF Occurrences
    <2>2. SubSeq(text, 1, Len(Delimiters)) = Delimiters
      BY <2>1 DEF Sub
    <2>3. SubSeq(Delimiters, 1, Len(Delimiters)) = Delimiters
      BY <1>1
    <2>4. QED
      BY <2>1, <2>2, <2>3 DEF IsPrefix
  <1>4. QED
    BY <1>2, <1>3 DEF FindNext, Stuck, NPos

LEMMA TokStep == TokInv /\ [TextNext]_textVars => TokInv'
  <1> SUFFICES ASSUME TokInv, [TextNext]_textVars PROVE TokInv'
    OBVIOUS
  <1>1. CASE NewTokenizer
    <2>1. text' \in Seq(TextChars)
      BY <1>1, SeqDef, StringTextAssumption DEF NewTokenizer, BoundedSeq, SeqOf
    <2>2. QED
      BY <1>1, <2>1 DEF NewTokenizer, TokInv, TokTypeOK
  <1>2. ASSUME NEW who \in {"has", "get"}, Advance(who) PROVE TokInv'
    <2>1. PICK from \in Nat : cur' = from /\ nxt' = FindNext(from) /\ UNCHANGED <<text, mode>>
      BY <1>2 DEF Advance, TokInv, TokTypeOK
    <2>2. FindNext(from) \in Nat /\ (mode.all /\ FindNext(from) = 0 => Stuck)
      BY FindNextFinds DEF TokInv
    <2>3. QED
      BY <2>1, <2>2 DEF TokInv, TokTypeOK, Stuck
  <1>3. CASE SkipDelimiter
    <2>1. StepOver(cur) \in Nat
      BY StringTextAssumption DEF StepOver, TokInv, TokTypeOK
    <2>2. PICK from \in Nat : cur' = from /\ nxt' = FindNext(from) /\ UNCHANGED <<text, mode>>
      BY <1>3, <2>1 DEF SkipDelimiter
    <2>3. FindNext(from) \in Nat /\ (mode.all /\ FindNext(from) = 0 => Stuck)
      BY FindNextFinds DEF TokInv
    <2>4. QED
      BY <2>2, <2>3 DEF TokInv, TokTypeOK, Stuck
  <1>4. CASE EndSkipping \/ Settle \/ GetNextToken
    <2>1. UNCHANGED <<text, mode, cur, nxt>> /\ (tokPc' = "skipping" => tokPc = "skipping")
      BY <1>4 DEF EndSkipping, Settle, GetNextToken
    <2>2. QED
      BY <2>1 DEF TokInv, TokTypeOK, Stuck
  <1>5. CASE EditText \/ SearchText
    <2>1. UNCHANGED <<text, mode, cur, nxt>> /\ tokPc' = "edited"
      BY <1>5 DEF EditText, SearchText, Edit
    <2>2. QED
      BY <2>1 DEF TokInv, TokTypeOK
  <1>6. CASE UNCHANGED textVars
    BY <1>6 DEF textVars, TokInv, TokTypeOK, Stuck
  <1>7. QED
    BY <1>1, <1>2, <1>3, <1>4, <1>5, <1>6 DEF TextNext

LEMMA TokAdvances == TokInv /\ [TextNext]_textVars => [SkippingAdvances]_textVars
  <1> SUFFICES ASSUME TokInv, TextNext, tokPc = "skipping", tokPc' = "skipping", ~Stuck
               PROVE  cur' > cur
    BY DEF SkippingAdvances
  <1>1. CASE SkipDelimiter
    <2>1. /\ cur \in Nat /\ nxt \in Nat /\ cur = nxt /\ cur' = StepOver(cur)
          /\ mode.all => nxt # 0
      BY <1>1 DEF SkipDelimiter, OnDelimiter, TokInv, TokTypeOK
    <2>2. Len(Delimiters) \in Nat /\ Len(Delimiters) > 0
      BY StringTextAssumption, EmptySeq
    <2>3. QED
      BY <2>1, <2>2 DEF StepOver
  <1>2. CASE EndSkipping \/ Settle \/ GetNextToken
    BY <1>2 DEF EndSkipping, Settle, GetNextToken
  <1>3. CASE NewTokenizer \/ EditText \/ SearchText \/ \E who \in {"has", "get"} : Advance(who)
    BY <1>3 DEF NewTokenizer, EditText, SearchText, Advance
  <1>4. QED
    BY <1>1, <1>2, <1>3 DEF TextNext

ParsedChars == {"a", "b", "=", "q", " "}

\* Of what is read from a file nothing is parsed, and what is parsed is a text.
ParseInv ==
  /\ parsePos \in Nat
  /\ filePc # "idle" => parsePc = "idle"
  /\ Parsing => source \in Seq(ParsedChars)

LEMMA ShortTexts ==
  ASSUME NEW A
  PROVE  <<>> \in Seq(A) /\ \A c \in A : <<c>> \in Seq(A)
  OBVIOUS

LEMMA MoreChars ==
  ASSUME NEW A, NEW B, A \subseteq B, NEW s \in Seq(A)
  PROVE  s \in Seq(B)
  OBVIOUS

LEMMA TwoInSeq ==
  ASSUME NEW A, NEW e \in A, NEW f \in A
  PROVE  <<e, f>> \in Seq(A)
  OBVIOUS

LEMMA TwoEntriesText ==
  ASSUME NEW es
  PROVE  /\ Len(es) = 0 => EntriesText(es) = <<>>
         /\ Len(es) = 1 => EntriesText(es) = EntryText(es[1])
         /\ Len(es) = 2 => EntriesText(es) = EntryText(es[1]) \o Space \o EntryText(es[2])
  <1>1. Len(es) = 0 => EntriesText(es) = <<>>
    <2>1. (CASE Len(es) = 0 -> <<>>
             [] Len(es) = 1 -> EntryText(es[1])
             [] OTHER -> EntryText(es[1]) \o Space \o EntryText(es[2])) = EntriesText(es)
      BY Zenon DEF EntriesText
    <2>2. ~(Len(es) = 0 /\ Len(es) = 1)
      BY SMT
    <2>3. QED
      BY <2>1, <2>2, Zenon
  <1>2. Len(es) = 1 => EntriesText(es) = EntryText(es[1])
    BY SMT DEF EntriesText
  <1>3. ASSUME Len(es) = 2
        PROVE EntriesText(es) = EntryText(es[1]) \o Space \o EntryText(es[2])
    BY <1>3, SMT DEF EntriesText
  <1>4. QED
    BY <1>1, <1>2, <1>3

LEMMA FromOnwards ==
  ASSUME NEW a \in Nat, NEW b \in Int, NEW P, NEW B, B = P \cap (a..b)
  PROVE  B \in SUBSET Nat /\ \A i \in B : i >= a
  OBVIOUS

LEMMA UpToTwo ==
  ASSUME NEW n \in 0..2
  PROVE  n = 0 \/ (n = 1 /\ n > 0) \/ (n = 2 /\ n > 0 /\ n > 1)
  OBVIOUS

LEMMA FirstOfTwo ==
  ASSUME NEW e, NEW f, NEW n \in 0..2
  PROVE  LET s == SubSeq(<<e, f>>, 1, n)
         IN Len(s) = n /\ (n > 0 => s[1] = e) /\ (n > 1 => s[2] = f)
  <1>1. PICK t : t \in Seq({e, f}) /\ t = <<e, f>>
    BY TwoInSeq
  <1>2. Len(t) = 2 /\ t[1] = e /\ t[2] = f
    BY <1>1
  <1>3. Len(SubSeq(t, 1, n)) = n /\ \A i \in 1..n : SubSeq(t, 1, n)[i] = t[i]
    BY <1>2
  <1>4. QED
    BY <1>1, <1>2, <1>3

LEMMA TextsJoined ==
  ASSUME NEW A, NEW s \in Seq(A), NEW t \in Seq(A), NEW u \in Seq(A)
  PROVE  s \o t \o u \in Seq(A)
  OBVIOUS

LEMMA ParsedTexts ==
  /\ Equals \in Seq(ParsedChars) /\ Quote \in Seq(ParsedChars) /\ Space \in Seq(ParsedChars)
  /\ <<"a">> \in Seq(ParsedChars) /\ <<"b">> \in Seq(ParsedChars)
  <1>1. {"=", "q", " ", "a", "b"} \subseteq ParsedChars
    BY DEF ParsedChars
  <1>2. \A c \in ParsedChars : <<c>> \in Seq(ParsedChars)
    BY ShortTexts
  <1>3. QED
    BY <1>1, <1>2 DEF Equals, Quote, Space

LEMMA EntryTextIsText ==
  ASSUME NEW k \in Seq(ParsedChars), NEW v \in Seq(ParsedChars)
  PROVE  EntryText([key |-> k, value |-> v]) \in Seq(ParsedChars)
  <1>1. Equals \in Seq(ParsedChars) /\ Quote \in Seq(ParsedChars)
    BY ParsedTexts
  <1>2. k \o Equals \in Seq(ParsedChars)
    BY <1>1
  <1>3. k \o Equals \o Quote \in Seq(ParsedChars)
    BY <1>1, <1>2
  <1>4. k \o Equals \o Quote \o v \in Seq(ParsedChars)
    BY <1>3
  <1>5. k \o Equals \o Quote \o v \o Quote \in Seq(ParsedChars)
    BY <1>1, <1>4
  <1>6. QED
    BY <1>5 DEF EntryText

LEMMA EntriesTextIsText ==
  ASSUME NEW a \in BoundedSeq({"a", "=", " "}, 2), NEW b \in BoundedSeq({"a", "=", " "}, 2),
         NEW n \in 0..2
  PROVE  EntriesText(SubSeq(<<[key |-> <<"a">>, value |-> a],
                              [key |-> <<"b">>, value |-> b]>>, 1, n)) \in Seq(ParsedChars)
  <1>1. a \in Seq(ParsedChars) /\ b \in Seq(ParsedChars)
    <2>1. a \in Seq({"a", "=", " "}) /\ b \in Seq({"a", "=", " "})
      BY BoundedIsSeq
    <2>2. {"a", "=", " "} \subseteq ParsedChars
      BY DEF ParsedChars
    <2>3. QED
      BY <2>1, <2>2, MoreChars
  <1>2. /\ <<"a">> \in Seq(ParsedChars) /\ <<"b">> \in Seq(ParsedChars)
        /\ Space \in Seq(ParsedChars)
    BY ParsedTexts
  <1>3. PICK e : e = [key |-> <<"a">>, value |-> a]
    OBVIOUS
  <1>4. PICK f : f = [key |-> <<"b">>, value |-> b]
    OBVIOUS
  <1>5. EntryText(e) \in Seq(ParsedChars) /\ EntryText(f) \in Seq(ParsedChars)
    BY <1>1, <1>2, <1>3, <1>4, EntryTextIsText
  <1>6. EntryText(e) \o Space \o EntryText(f) \in Seq(ParsedChars)
    BY <1>2, <1>5, TextsJoined
  <1>7. <<>> \in Seq(ParsedChars)
    BY ShortTexts
  <1>8. PICK es : es = SubSeq(<<e, f>>, 1, n)
    OBVIOUS
  <1>9. Len(es) = n /\ (n > 0 => es[1] = e) /\ (n > 1 => es[2] = f)
    BY <1>8, FirstOfTwo
  <1>10. EntriesText(es) \in Seq(ParsedChars)
    <2>1. /\ Len(es) = 0 => EntriesText(es) = <<>>
          /\ Len(es) = 1 => EntriesText(es) = EntryText(es[1])
          /\ Len(es) = 2 => EntriesText(es) = EntryText(es[1]) \o Space \o EntryText(es[2])
      BY TwoEntriesText
    <2>2. n = 0 => EntriesText(es) \in Seq(ParsedChars)
      BY <1>7, <1>9, <2>1
    <2>3. CASE n = 1 /\ n > 0
      <3>1. Len(es) = 1 /\ es[1] = e
        BY <1>9, <2>3, Zenon
      <3>2. QED
        BY <1>5, <2>1, <3>1, Zenon
    <2>4. CASE n = 2 /\ n > 0 /\ n > 1
      <3>1. Len(es) = 2 /\ es[1] = e /\ es[2] = f
        BY <1>9, <2>4, Zenon
      <3>2. QED
        BY <1>6, <2>1, <3>1, Zenon
    <2>5. QED
      BY <2>2, <2>3, <2>4, UpToTwo, Zenon
  <1>11. QED
    BY <1>3, <1>4, <1>8, <1>10

\* An iteration of the parser: where it goes on, and that it moves.
LEMMA ParseMoves ==
  ASSUME ParseInv, Parse
  PROVE  /\ parsePos' \in Nat /\ parsePc' \in {parsePc, "parsed"}
         /\ parsePc' = parsePc /\ Find(source, Equals, parsePos) # NPos => parsePos' > parsePos
  <1>1. PICK blanks : blanks = {i \in parsePos..Len(source) - 1 : At(source, i) # " "}
    OBVIOUS
  <1>2. PICK from : from = IF blanks = {} THEN Len(source) ELSE Min(blanks)
    OBVIOUS
  <1>3. PICK equal : equal = Find(source, Equals, from)
    OBVIOUS
  <1>4. PICK open : open = FindFirstOf(source, Quote, equal)
    OBVIOUS
  <1>5. PICK close : close = FindFirstOf(source, Quote, open + 1)
    OBVIOUS
  <1>6. /\ Parsing /\ parsePos < Len(source)
        /\ IF equal = NPos THEN parsePos' = from /\ UNCHANGED <<parsed, parsePc>>
           ELSE IF open = NPos \/ close = NPos
           THEN parsePc' = "parsed" /\ UNCHANGED <<parsePos, parsed>>
           ELSE parsePos' = close + 1 /\ UNCHANGED parsePc
    BY <1>1, <1>2, <1>3, <1>4, <1>5 DEF Parse
  <1>7. /\ source \in Seq(ParsedChars) /\ Len(source) \in Nat /\ parsePos \in Nat
        /\ Equals \in Seq(ParsedChars) /\ Quote \in Seq(ParsedChars)
    BY <1>6, ParsedTexts DEF ParseInv
  <1>8. /\ from \in Nat /\ from >= parsePos
        /\ \A i \in blanks : from <= i
    <2>1. blanks \in SUBSET Nat /\ \A i \in blanks : i >= parsePos
      <3>1. Len(source) - 1 \in Int
        BY <1>7
      <3>2. PICK P : blanks = P \cap (parsePos..Len(source) - 1)
        <4>1. blanks = blanks \cap (parsePos..Len(source) - 1)
          BY <1>1
        <4>2. QED
          BY <4>1
      <3>3. QED
        BY <1>7, <3>1, <3>2, FromOnwards
    <2>2. CASE blanks = {}
      BY <1>2, <1>6, <1>7, <2>2
    <2>3. CASE blanks # {}
      BY <1>2, <2>1, <2>3, MinOfNats
    <2>4. QED
      BY <2>2, <2>3
  <1>9. equal \in Nat /\ (equal # NPos => equal >= from)
    BY <1>3, <1>7, <1>8, FindsInText
  <1>10. open \in Nat /\ (open # NPos => open >= equal)
    BY <1>4, <1>7, <1>9, FindsInText
  <1>11. close \in Nat /\ (close # NPos => close >= open + 1)
    <2>1. open + 1 \in Nat
      BY <1>10
    <2>2. QED
      BY <1>5, <1>7, <2>1, FindsInText
  <1>12. parsePos' \in Nat /\ parsePc' \in {parsePc, "parsed"}
    BY <1>6, <1>7, <1>8, <1>11
  <1>13. ASSUME Find(source, Equals, parsePos) # NPos PROVE equal # NPos
    <2> DEFINE A == {i \in Occurrences(source, Equals) : i >= parsePos}
               B == {i \in Occurrences(source, Equals) : i >= from}
    <2>1. Occurrences(source, Equals) \in SUBSET Nat
      BY <1>7, FindsInText
    <2>2. A \in SUBSET Nat /\ B \in SUBSET A
      BY <1>7, <1>8, <2>1
    <2>3. FirstOf(A) # NPos /\ equal = FirstOf(B)
      BY <1>3, <1>13 DEF Find
    <2>4. FirstOf(A) \in A /\ \A i \in A : FirstOf(A) <= i
      BY <2>2, <2>3, FirstIsFirst
    <2>5. PICK e \in Nat : e = FirstOf(A) /\ e \in Occurrences(source, Equals) /\ e >= parsePos
      BY <2>1, <2>4
    <2>6. e \in 0..Len(source) - 1 /\ At(source, e) = "="
      <3>1. Len(Equals) = 1 /\ Equals[1] = "="
        BY DEF Equals
      <3>2. e \in 0..Len(source) - 1 /\ Sub(source, e, e + 1) = Equals
        BY <2>5, <3>1 DEF Occurrences
      <3>3. Sub(source, e, e + 1) = SubSeq(source, e + 1, e + 1)
        BY <1>7, <3>2 DEF Sub
      <3>4. SubSeq(source, e + 1, e + 1)[1] = source[e + 1]
        BY <1>7, <3>2
      <3>5. QED
        BY <3>1, <3>2, <3>3, <3>4 DEF At
    <2>7. e \in blanks
      <3>1. e \in parsePos..Len(source) - 1
        BY <1>7, <2>5, <2>6
      <3>2. At(source, e) # " "
        <4>1. "=" # " "
          OBVIOUS
        <4>2. QED
          BY <2>6, <4>1
      <3>3. QED
        BY <1>1, <3>1, <3>2
    <2>8. e \in B /\ e # NPos /\ \A i \in B : e <= i
      BY <1>8, <2>2, <2>3, <2>4, <2>5, <2>7
    <2>9. FirstOf(B) = e
      <3>1. B # {} /\ B \in SUBSET Nat
        BY <2>1, <2>8
      <3>2. Min(B) \in B /\ \A i \in B : Min(B) <= i
        BY <3>1, MinOfNats
      <3>3. Min(B) = e
        BY <2>8, <3>1, <3>2
      <3>4. QED
        BY <3>1, <3>3 DEF FirstOf
    <2>10. QED
      BY <2>3, <2>8, <2>9
  <1>14. ASSUME parsePc' = parsePc, Find(source, Equals, parsePos) # NPos
         PROVE  parsePos' > parsePos
    BY <1>6, <1>7, <1>8, <1>9, <1>10, <1>11, <1>13, <1>14 DEF Parsing
  <1>15. QED
    BY <1>12, <1>14

LEMMA ParseStep == ParseInv /\ [MapNext]_mapVars => ParseInv'
  <1> SUFFICES ASSUME ParseInv, [MapNext]_mapVars PROVE ParseInv'
    OBVIOUS
  <1>1. CASE Operate
    <2>1. UNCHANGED <<parsePos, filePc, source, parsePc>>
      BY <1>1 DEF Operate, Index, AssignScalar, AssignMapping, AssignRef, AssignInside, Erase,
                  Merge, AssignAll
    <2>2. QED
      BY <2>1 DEF ParseInv, Parsing
  <1>2. CASE ReadFrom \/ EndOfFile \/ \E line \in Lines : ReadLine(line)
    <2>1. /\ UNCHANGED <<parsePos, source, parsePc>> /\ parsePc = "idle"
      BY <1>2 DEF ReadFrom, EndOfFile, ReadLine, ParseInv
    <2>2. QED
      BY <2>1 DEF ParseInv, Parsing
  <1>3. CASE ParseText
    <2>1. source' \in Seq(ParsedChars)
      BY <1>3, EntriesTextIsText DEF ParseText
    <2>2. QED
      BY <1>3, <2>1 DEF ParseText, ParseInv, Parsing
  <1>4. CASE ParseAnything
    <2>1. source' \in Seq({"a", "=", "q", " "})
      BY <1>4, BoundedIsSeq DEF ParseAnything
    <2>2. source' \in Seq(ParsedChars)
      <3>1. {"a", "=", "q", " "} \subseteq ParsedChars
        BY DEF ParsedChars
      <3>2. QED
        BY <2>1, <3>1, MoreChars
    <2>3. QED
      BY <1>4, <2>2 DEF ParseAnything, ParseInv, Parsing
  <1>5. CASE Parse
    <2>1. UNCHANGED <<filePc, source>> /\ Parsing
      BY <1>5 DEF Parse
    <2>2. parsePos' \in Nat /\ parsePc' \in {parsePc, "parsed"}
      BY <1>5, ParseMoves
    <2>3. QED
      BY <2>1, <2>2 DEF ParseInv, Parsing
  <1>6. CASE EndParse \/ EndArguments
    BY <1>6 DEF EndParse, EndArguments, ParseInv, Parsing
  <1>7. CASE GiveArguments
    BY <1>7 DEF GiveArguments, ParseInv, Parsing
  <1>8. CASE TakeArgument
    BY <1>8 DEF TakeArgument, ParseInv, Parsing
  <1>9. CASE UNCHANGED mapVars
    BY <1>9 DEF mapVars, ParseInv, Parsing
  <1>10. QED
    BY <1>1, <1>2, <1>3, <1>4, <1>5, <1>6, <1>7, <1>8, <1>9 DEF MapNext

LEMMA ParseAdvances == ParseInv /\ [MapNext]_mapVars => [ParserAdvances]_mapVars
  <1> SUFFICES ASSUME ParseInv, MapNext, Parsing, parsePc' = parsePc,
                      Find(source, Equals, parsePos) # NPos
               PROVE  parsePos' > parsePos
    BY DEF ParserAdvances
  <1>1. CASE Parse
    BY <1>1, ParseMoves
  <1>2. CASE Operate \/ ReadFrom \/ EndOfFile \/ \E line \in Lines : ReadLine(line)
    BY <1>2 DEF Operate, ReadFrom, EndOfFile, ReadLine, ParseInv, Parsing
  <1>3. CASE \/ ParseText \/ ParseAnything
             \/ GiveArguments \/ TakeArgument \/ EndArguments \/ EndParse
    BY <1>3 DEF ParseText, ParseAnything, GiveArguments, TakeArgument, EndArguments, EndParse,
                Parsing
  <1>4. QED
    BY <1>1, <1>2, <1>3 DEF MapNext

\* The loops of the tokenizer and of the parser get on with their text, whatever
\* the text and the delimiters are: advance moves on over every delimiter, but for
\* findAllTokens on a text that begins with it, and the parser as long as there is
\* an = to come.
THEOREM LoopsGetOn == Spec => LoopsAdvance
  <1>1. Init => TokInv /\ ParseInv
    <2> SUFFICES ASSUME Init PROVE TokInv /\ ParseInv
      OBVIOUS
    <2>1. TextInit /\ MapInit
      BY DEF Init
    <2>2. <<>> \in Seq(TextChars)
      OBVIOUS
    <2>3. TokInv
      BY <2>1, <2>2 DEF TextInit, TokInv, TokTypeOK, NPos
    <2>4. ParseInv
      BY <2>1 DEF MapInit, ParseInv, Parsing
    <2>5. QED
      BY <2>3, <2>4
  <1>2. [Next]_<<subject, wordVars, fileSystemVars, objectVars>>
          => [TextNext]_textVars /\ [MapNext]_mapVars
    BY DEF Next, wordVars, fileSystemVars, objectVars
  <1>3. QED
    BY <1>1, <1>2, TokStep, TokAdvances, ParseStep, ParseAdvances, PTL DEF Spec, LoopsAdvance

-----------------------------------------------------------------------------
(* Deadlines of timed waits *)

\* A timeval holds the whole sum that it was made from.
LEMMA TimeValHoldsAll ==
  ASSUME NEW usec \in Nat, usec < 1000000, NEW ms \in Nat
  PROVE  LET t == ToTimeVal(usec, ms)
         IN /\ t.sec \in Nat /\ t.usec \in Nat /\ t.usec <= 1000000
            /\ t.sec * 1000000 + t.usec = (ms \div 1000) * 1000000 + usec + (ms % 1000000)
            /\ t.usec = 1000000 <=> usec + (ms % 1000000) = 1000000
  <1>1. PICK part \in Nat : part = ms % 1000000 /\ part < 1000000
    BY SMT
  <1>2. PICK whole \in Nat : whole = ms \div 1000
    BY SMT
  <1>3. PICK t : t = ToTimeVal(usec, ms)
    BY SMT
  <1>4. t = IF usec + part > 1000000 THEN [sec |-> whole + 1, usec |-> usec + part - 1000000]
            ELSE [sec |-> whole, usec |-> usec + part]
    BY <1>1, <1>2, <1>3, SMT DEF ToTimeVal, WaitInfinite
  <1>5. CASE usec + part > 1000000
    <2>1. t.sec = whole + 1 /\ t.usec = usec + part - 1000000
      BY <1>4, <1>5, SMT
    <2>2. QED
      BY <1>1, <1>2, <1>3, <1>5, <2>1, SMT
  <1>6. CASE ~(usec + part > 1000000)
    <2>1. t.sec = whole /\ t.usec = usec + part
      BY <1>4, <1>6, SMT
    <2>2. QED
      BY <1>1, <1>2, <1>3, <1>6, <2>1, SMT
  <1>7. QED
    BY <1>5, <1>6, SMT

LEMMA NoPartOfASecond ==
  ASSUME NEW ms \in Nat, ms % 1000 = 0
  PROVE  (ms \div 1000) * 1000000 = ms * 1000
  BY SMT

LEMMA PartsAreNat ==
  ASSUME NEW ms \in Nat
  PROVE  ms % 1000000 \in Nat /\ ms \div 1000 \in Nat
  BY SMT

TimeInv ==
  /\ now \in Nat /\ now < 1000000 /\ millis \in Nat \cup {-1}
  /\ tv = ToTimeVal(now, millis)

\* Whenever it is asked and for how long, a wait for whole seconds is not cut
\* short, and only a sum of exactly one second is refused.
THEOREM DeadlinesAreSafe ==
  TimeSpec => [](WholeSecondsNeverEarly /\ RefusedOnlyAtOneSecond)
  <1>1. TimeInit => TimeInv
    BY DatesAssumption, SMT DEF DatesAssumption, TimeInit, TimeInv
  <1>2. TimeInv /\ [TimeNext]_timeVars => TimeInv'
    BY DatesAssumption, SMT DEF DatesAssumption, TimeNext, WaitFor, timeVars, TimeInv
  <1>3. TimeInv => WholeSecondsNeverEarly /\ RefusedOnlyAtOneSecond
    <2> SUFFICES ASSUME TimeInv PROVE WholeSecondsNeverEarly /\ RefusedOnlyAtOneSecond
      BY SMT
    <2>1. CASE millis = -1
      <3>1. tv = [sec |-> LongMax - 1, usec |-> 0]
        BY <2>1, SMT DEF TimeInv, ToTimeVal, WaitInfinite
      <3>2. QED
        BY <2>1, <3>1, SMT DEF WholeSecondsNeverEarly, RefusedOnlyAtOneSecond, ValidTimeSpec,
                          WaitInfinite
    <2>2. CASE millis \in Nat
      <3>1. /\ tv.sec \in Nat /\ tv.usec \in Nat /\ tv.usec <= 1000000
            /\ tv.sec * 1000000 + tv.usec
                 = (millis \div 1000) * 1000000 + now + (millis % 1000000)
            /\ tv.usec = 1000000 <=> now + (millis % 1000000) = 1000000
        BY <2>2, TimeValHoldsAll, SMT DEF TimeInv
      <3>2. now \in Nat /\ millis % 1000000 \in Nat /\ millis \div 1000 \in Nat
        BY <2>2, PartsAreNat, SMT DEF TimeInv
      <3>3. ASSUME millis % 1000 = 0 PROVE Deadline >= AskedTime
        <4>1. (millis \div 1000) * 1000000 = millis * 1000
          BY <2>2, <3>3, NoPartOfASecond, SMT
        <4>2. QED
          BY <2>2, <3>1, <3>2, <4>1, SMT DEF Deadline, AskedTime
      <3>4. WholeSecondsNeverEarly
        BY <3>3, SMT DEF WholeSecondsNeverEarly
      <3>5. ValidTimeSpec(tv) <=> tv.usec # 1000000
        BY <3>1, SMT DEF ValidTimeSpec
      <3>6. RefusedOnlyAtOneSecond
        BY <2>2, <3>1, <3>5, SMT DEF RefusedOnlyAtOneSecond, WaitInfinite
      <3>7. QED
        BY <3>4, <3>6, SMT
    <2>3. QED
      BY <2>1, <2>2, SMT DEF TimeInv
  <1>4. QED
    BY <1>1, <1>2, <1>3, PTL DEF TimeSpec

-----------------------------------------------------------------------------
(* ScheduleTime *)

\* What is left out of a division by the units of a build.
LEMMA Units ==
  ASSUME NEW unit \in {1, 1000}, NEW n \in Int
  PROVE  /\ n \div unit \in Int
         /\ 0 <= n - (n \div unit) * unit /\ n - (n \div unit) * unit <= unit - 1
  <1>1. CASE unit = 1
    BY <1>1
  <1>2. CASE unit = 1000
    BY <1>2
  <1>3. QED
    BY <1>1, <1>2

\* The zone, of whole seconds, comes out of a division as it went in.
LEMMA ZoneCancels ==
  ASSUME NEW unit \in {1, 1000}, NEW n \in Int
  PROVE  (n + Zone) \div unit - Zone \div unit = n \div unit
  <1>1. Zone \in Int /\ Zone % 1000 = 0
    BY DatesAssumption DEF DatesAssumption
  <1>2. CASE unit = 1
    BY <1>1, <1>2
  <1>3. CASE unit = 1000
    BY <1>1, <1>3
  <1>4. QED
    BY <1>2, <1>3

LEMMA WholeSeconds ==
  ASSUME NEW unit \in {1, 1000}, NEW n \in Int
  PROVE  ((((n \div 1000) * 1000) \div unit) * unit) = (n \div 1000) * 1000
         /\ ((n \div 1000) * 1000) \div unit \in Int
  <1>1. CASE unit = 1
    BY <1>1
  <1>2. CASE unit = 1000
    BY <1>2
  <1>3. QED
    BY <1>1, <1>2

InstantInv ==
  /\ build \in {"unix", "windows"} /\ systime \in Nat
  /\ moment.time \in Int /\ meant \in Int /\ slips \in Nat
  /\ 0 <= meant - moment.time * PerUnit
  /\ meant - moment.time * PerUnit <= slips * (PerUnit - 1)

LEMMA InstantStep == InstantInv /\ [InstantNext]_instantVars => InstantInv'
  <1> SUFFICES ASSUME InstantInv, [InstantNext]_instantVars PROVE InstantInv'
    OBVIOUS
  <1>1. build' = build /\ PerUnit' = PerUnit
    <2>1. CASE TimePasses \/ FromNow \/ FromTM \/ ReadBack
      <3>1. build' = build
        <4>1. (TimePasses => build' = build) /\ (FromNow => build' = build)
          BY Zenon DEF TimePasses, FromNow
        <4>2. ReadBack => build' = build
          BY Zenon DEF ReadBack
        <4>3. FromTM => build' = build
          BY SMT DEF FromTM
        <4>4. QED
          BY <2>1, <4>1, <4>2, <4>3
      <3>2. QED
        BY <3>1 DEF PerUnit
    <2>2. ASSUME NEW ms \in Delays, FromMillis(ms) \/ Adds(ms)
          PROVE  build' = build /\ PerUnit' = PerUnit
      BY <2>2 DEF FromMillis, Adds, PerUnit
    <2>3. CASE UNCHANGED instantVars
      BY <2>3 DEF instantVars, PerUnit
    <2>4. QED
      BY <2>1, <2>2, <2>3 DEF InstantNext
  <1>2. PICK unit \in {1, 1000} : unit = PerUnit
    BY DEF PerUnit
  <1>3. /\ systime \in Nat /\ moment.time \in Int /\ meant \in Int /\ slips \in Nat
        /\ 0 <= meant - moment.time * unit /\ meant - moment.time * unit <= slips * (unit - 1)
    BY <1>2 DEF InstantInv
  <1>4. SUFFICES /\ systime' \in Nat /\ moment'.time \in Int /\ meant' \in Int /\ slips' \in Nat
                 /\ 0 <= meant' - moment'.time * unit
                 /\ meant' - moment'.time * unit <= slips' * (unit - 1)
    BY <1>1, <1>2 DEF InstantInv
  <1>5. CASE TimePasses \/ UNCHANGED instantVars
    BY <1>3, <1>5 DEF TimePasses, instantVars
  <1>6. CASE FromNow
    <2>1. (systime + Zone) \div unit - Zone \div unit = systime \div unit
      <3>1. systime \in Int
        BY <1>3
      <3>2. QED
        BY <3>1, ZoneCancels
    <2>2. moment'.time = systime \div unit
      BY <1>2, <1>6, <2>1 DEF FromNow, Instant, Clock, ToUTCTime
    <2>3. meant' = systime /\ slips' = 1 /\ systime' = systime
      BY <1>6 DEF FromNow
    <2>4. QED
      BY <1>3, <2>2, <2>3, Units
  <1>7. CASE FromTM
    <2>1. moment'.time = ((systime \div 1000) * 1000) \div unit
      BY <1>2, <1>7 DEF FromTM, Instant
    <2>2. meant' = (systime \div 1000) * 1000 /\ slips' = 0 /\ systime' = systime
      BY <1>7 DEF FromTM
    <2>3. moment'.time * unit = meant' /\ moment'.time \in Int
      BY <1>3, <2>1, <2>2, WholeSeconds
    <2>4. meant' \in Int
      BY <1>3, <2>2
    <2>5. QED
      BY <1>3, <2>2, <2>3, <2>4
  <1>8. CASE ReadBack
    BY <1>3, <1>8 DEF ReadBack, Instant
  <1>9. ASSUME NEW ms \in Delays, FromMillis(ms) \/ Adds(ms)
        PROVE  /\ systime' \in Nat /\ moment'.time \in Int /\ meant' \in Int /\ slips' \in Nat
               /\ 0 <= meant' - moment'.time * unit
               /\ meant' - moment'.time * unit <= slips' * (unit - 1)
    <2>1. ms \in Nat
      BY DatesAssumption DEF DatesAssumption
    <2>2. PICK q \in Int : q = ms \div unit /\ 0 <= ms - q * unit /\ ms - q * unit <= unit - 1
      BY <2>1, Units
    <2>3. CASE FromMillis(ms)
      <3>1. PICK c \in Int : c = systime \div unit /\ 0 <= systime - c * unit
                              /\ systime - c * unit <= unit - 1
        BY <1>3, Units
      <3>2. moment'.time = c + q /\ meant' = systime + ms /\ slips' = 2 /\ systime' = systime
        BY <1>2, <2>2, <2>3, <3>1 DEF FromMillis, Relative, Instant, Clock
      <3>3. (c + q) * unit = c * unit + q * unit
        OBVIOUS
      <3>4. QED
        BY <1>3, <2>1, <2>2, <3>1, <3>2, <3>3
    <2>4. CASE Adds(ms)
      <3>1. /\ moment'.time = moment.time + q /\ meant' = meant + ms
            /\ slips' = slips + 1 /\ systime' = systime
        BY <1>2, <2>2, <2>4 DEF Adds, Later, Instant
      <3>2. (moment.time + q) * unit = moment.time * unit + q * unit
        BY <1>3
      <3>3. (slips + 1) * (unit - 1) = slips * (unit - 1) + unit - 1
        BY <1>3
      <3>4. QED
        BY <1>3, <2>1, <2>2, <3>1, <3>2, <3>3
    <2>5. QED
      BY <1>9, <2>3, <2>4
  <1>10. QED
    BY <1>5, <1>6, <1>7, <1>8, <1>9 DEF InstantNext

\* However instants are made and added to, and however often: they are not
\* later than they were meant, and early by less than a unit for each slip.
THEOREM InstantsAreClose == InstantSpec => []InstantsClose
  <1>1. InstantInit => InstantInv
    BY DEF InstantInit, InstantInv, Instant, PerUnit
  <1>2. InstantInv => InstantsClose
    <2> SUFFICES ASSUME InstantInv PROVE InstantsClose
      OBVIOUS
    <2>1. PICK unit \in {1, 1000} : unit = PerUnit
      BY DEF PerUnit
    <2>2. /\ systime \in Nat /\ moment.time \in Int /\ meant \in Int /\ slips \in Nat
          /\ 0 <= meant - moment.time * unit /\ meant - moment.time * unit <= slips * (unit - 1)
      BY <2>1 DEF InstantInv
    <2>3. PICK c \in Int : /\ c = Clock
                           /\ 0 <= systime - c * unit /\ systime - c * unit <= unit - 1
      BY <2>1, <2>2, Units DEF Clock
    <2>4. Compare(moment, Instant(TRUE, Clock, 0)) = 1 <=> moment.time > c
      BY <2>2, <2>3 DEF Compare, Instant
    <2>5. ASSUME moment.time > c PROVE meant > systime
      <3>1. CASE unit = 1
        BY <2>2, <2>3, <2>5, <3>1
      <3>2. CASE unit = 1000
        BY <2>2, <2>3, <2>5, <3>2
      <3>3. QED
        BY <3>1, <3>2
    <2>6. ASSUME meant - systime > slips * (unit - 1) PROVE moment.time > c
      <3>1. CASE unit = 1
        BY <2>2, <2>3, <2>6, <3>1
      <3>2. CASE unit = 1000
        BY <2>2, <2>3, <2>6, <3>2
      <3>3. QED
        BY <3>1, <3>2
    <2>7. QED
      BY <2>1, <2>2, <2>4, <2>5, <2>6 DEF InstantsClose
  <1>3. QED
    BY <1>1, <1>2, InstantStep, PTL DEF InstantSpec

-----------------------------------------------------------------------------
(* Log files *)

LogFile == [there : BOOLEAN, size : Nat, time : Nat, entries : Seq(Nat)]
LogFilesOf(files) == files \in Seq(LogFile) /\ Len(files) \in Nat
EntriesIn(files, i) == ToSet(files[i].entries)
HeldIn(files) == UNION {EntriesIn(files, i) : i \in 1..Len(files)}

\* What holds of each file, whatever the restarts chose among: there are no
\* entries in a file that is not there, and an entry is in one file.
FilesApart(files, total) ==
  /\ \A i \in 1..Len(files) :
       /\ ~files[i].there => EntriesIn(files, i) = {}
       /\ files[i].size = 0 <=> EntriesIn(files, i) = {}
       /\ EntriesIn(files, i) \subseteq 1..total
       /\ files[i].there => files[1].there
  /\ \A i, j \in 1..Len(files) : i # j => EntriesIn(files, i) \cap EntriesIn(files, j) = {}

TimesArePast(files, t) == \A i \in 1..Len(files) : files[i].time <= t

FilesLimited(files) ==
  \A i \in 1..Len(files) :
    \E size \in EntrySizes \cup {0} : files[i].size <= FileLimit + size

\* How far file i is behind the newest of n, around the rotation, and the one
\* that is furthest behind.
Behind(n, newest, i) == IF i <= newest THEN newest - i ELSE newest - i + n
Oldest(n, newest) == IF newest + 1 > n THEN 1 ELSE newest + 1

\* One file was written last: the others are behind it in the order of their
\* entries and of their times, and each is full.  No entry after one on the disk
\* is missing, and the latest is there, unless the only file was truncated.
NewestIs(files, newest, total) ==
  /\ files[newest].there
  /\ \A i \in 1..Len(files) : files[i].time <= files[newest].time
  /\ \A i, j \in 1..Len(files) :
       Behind(Len(files), newest, i) < Behind(Len(files), newest, j) =>
         \A x \in EntriesIn(files, i), y \in EntriesIn(files, j) : y < x
  /\ \A i \in 1..Len(files) : files[i].there /\ i # newest => files[i].size >= FileLimit
  /\ \A x \in HeldIn(files), y \in 1..total : x <= y => y \in HeldIn(files)
  /\ total > 0 /\ Len(files) > 1 => total \in HeldIn(files)

LogTypeOK ==
  /\ logConfig \in [levels : SUBSET (LogKinds \cup {"all"}), count : Nat, size : {0, FileLimit}]
  /\ LogFilesOf(logFiles)
  /\ logConfig # NoConfig => Len(logFiles) = (IF Rotates THEN logConfig.count ELSE 1)
  /\ logConfig = NoConfig => logFiles = <<>> /\ written = 0
  /\ logAt \in 0..Len(logFiles)
  /\ clock \in Nat /\ written \in Nat /\ tied \in BOOLEAN

\* The files of a log, where one is written and where the next restart begins.
LogInv ==
  /\ LogTypeOK
  /\ FilesApart(logFiles, written)
  /\ TimesArePast(logFiles, clock)
  /\ logAt # 0 => logFiles[logAt].there
  /\ Rotates => FilesLimited(logFiles) /\ (logAt # 0 => logFiles[logAt].size <= FileLimit)
  /\ ~Rotates => \A i \in 1..Len(logFiles) : EntriesIn(logFiles, i) = 1..written
  /\ Rotates /\ ~logFiles[1].there => written = 0
  /\ Rotates /\ ~tied /\ logFiles[1].there =>
       \E newest \in 1..Len(logFiles) : /\ NewestIs(logFiles, newest, written)
                                        /\ logAt # 0 => logAt = newest

-----------------------------------------------------------------------------

LEMMA FileFields ==
  ASSUME NEW files, LogFilesOf(files), NEW i \in 1..Len(files)
  PROVE  /\ files[i] \in LogFile /\ files[i].there \in BOOLEAN /\ files[i].size \in Nat
         /\ files[i].time \in Nat /\ files[i].entries \in Seq(Nat)
  <1>1. files \in Seq(LogFile)
    BY DEF LogFilesOf
  <1>2. files[i] \in LogFile
    BY <1>1, ElementOfSeq
  <1>3. QED
    BY <1>2 DEF LogFile

LEMMA NewFileIsOne ==
  ASSUME NEW t \in Nat
  PROVE  /\ NewFile(t) \in LogFile /\ NewFile(t).there /\ NewFile(t).size = 0
         /\ NewFile(t).time = t /\ ToSet(NewFile(t).entries) = {}
         /\ NoFile \in LogFile /\ ~NoFile.there /\ NoFile.size = 0 /\ ToSet(NoFile.entries) = {}
  BY EmptySeq DEF NewFile, NoFile, LogFile, ToSet

LEMMA EntriesGrow ==
  ASSUME NEW s \in Seq(Nat), NEW e \in Nat
  PROVE  Append(s, e) \in Seq(Nat) /\ ToSet(Append(s, e)) = ToSet(s) \cup {e}
  <1>1. /\ Append(s, e) \in Seq(Nat) /\ Len(Append(s, e)) = Len(s) + 1 /\ Len(s) \in Nat
        /\ \A i \in 1..Len(s) : Append(s, e)[i] = s[i]
        /\ Append(s, e)[Len(s) + 1] = e
        /\ DOMAIN s = 1..Len(s) /\ DOMAIN Append(s, e) = 1..Len(s) + 1
    BY AppendProperties, LenProperties
  <1>2. \A x : x \in ToSet(Append(s, e)) <=> x \in ToSet(s) \cup {e}
    <2> TAKE x
    <2>1. ASSUME x \in ToSet(Append(s, e)) PROVE x \in ToSet(s) \cup {e}
      <3>1. PICK i \in 1..Len(s) + 1 : x = Append(s, e)[i]
        BY <1>1, <2>1 DEF ToSet
      <3>2. CASE i = Len(s) + 1
        BY <1>1, <3>1, <3>2
      <3>3. CASE i \in 1..Len(s)
        BY <1>1, <3>1, <3>3 DEF ToSet
      <3>4. QED
        BY <1>1, <3>1, <3>2, <3>3
    <2>2. ASSUME x \in ToSet(s) PROVE x \in ToSet(Append(s, e))
      <3>1. PICK i \in 1..Len(s) : x = s[i]
        BY <1>1, <2>2 DEF ToSet
      <3>2. i \in 1..Len(s) + 1
        BY <1>1
      <3>3. QED
        BY <1>1, <3>1, <3>2 DEF ToSet
    <2>3. e \in ToSet(Append(s, e))
      <3>1. Len(s) + 1 \in 1..Len(s) + 1
        BY <1>1
      <3>2. QED
        BY <1>1, <3>1 DEF ToSet
    <2>4. QED
      BY <2>1, <2>2, <2>3
  <1>3. QED
    BY <1>1, <1>2

\* Around a rotation: a file is not as far behind as another one, and all move
\* one further behind when the oldest becomes the newest.
LEMMA RoundTheRotation ==
  ASSUME NEW n \in Nat \ {0}, NEW c \in 1..n
  PROVE  /\ Oldest(n, c) \in 1..n
         /\ \A i \in 1..n : Behind(n, c, i) \in 0..n - 1
         /\ \A i \in 1..n : i # c => Behind(n, c, i) > 0
         /\ Behind(n, c, c) = 0
         /\ \A i \in 1..n : i # Oldest(n, c) => Behind(n, c, i) < Behind(n, c, Oldest(n, c))
         /\ \A i \in 1..n : i # Oldest(n, c) =>
              Behind(n, Oldest(n, c), i) = Behind(n, c, i) + 1
         /\ n > 1 => Oldest(n, c) # c
  BY DEF Oldest, Behind

\* An entry at the end of a file.
Grown(files, at, size, t, total) ==
  [files EXCEPT ![at] = [files[at] EXCEPT !.size = @ + size, !.time = t,
                                          !.entries = Append(@, total + 1)]]

LEMMA GrownFile ==
  ASSUME NEW files, LogFilesOf(files), NEW at \in 1..Len(files), NEW size \in Nat \ {0},
         NEW t \in Nat, NEW total \in Nat
  PROVE  LET g == Grown(files, at, size, t, total)
         IN /\ LogFilesOf(g) /\ Len(g) = Len(files) /\ g[at].size = files[at].size + size
            /\ g[at].time = t /\ EntriesIn(g, at) = EntriesIn(files, at) \cup {total + 1}
  <1> DEFINE g == Grown(files, at, size, t, total)
  <1> DEFINE new == [files[at] EXCEPT !.size = @ + size, !.time = t,
                                      !.entries = Append(@, total + 1)]
  <1>1. /\ Len(files) \in Nat /\ files \in Seq(LogFile) /\ DOMAIN files = 1..Len(files)
        /\ files[at] \in LogFile /\ files[at].entries \in Seq(Nat)
    BY FileFields, LenProperties DEF LogFilesOf
  <1>2. /\ Append(files[at].entries, total + 1) \in Seq(Nat)
        /\ ToSet(Append(files[at].entries, total + 1)) = EntriesIn(files, at) \cup {total + 1}
    BY <1>1, EntriesGrow DEF EntriesIn
  <1>3. /\ new \in LogFile /\ new.there = files[at].there /\ new.size = files[at].size + size
        /\ new.time = t /\ new.entries = Append(files[at].entries, total + 1)
    <2> DEFINE e == Append(files[at].entries, total + 1)
               s == files[at].size + size
    <2>1. e \in Seq(Nat) /\ s \in Nat
      BY <1>1, <1>2, FileFields
    <2>2. new = [files[at] EXCEPT !.size = s, !.time = t, !.entries = e]
      OBVIOUS
    <2> HIDE DEF e, s, new
    <2>3. /\ new \in LogFile /\ new.there = files[at].there /\ new.size = s
          /\ new.time = t /\ new.entries = e
      BY <1>1, <2>1, <2>2 DEF LogFile
    <2>4. QED
      BY <2>3 DEF e, s
  <1>4. g = [files EXCEPT ![at] = new]
    BY DEF Grown
  <1> HIDE DEF new
  <1>5. g \in Seq(LogFile) /\ Len(g) = Len(files) /\ g[at] = new
        /\ \A i \in 1..Len(files) : i # at => g[i] = files[i]
    BY <1>1, <1>3, <1>4, ExceptSeq
  <1>6. QED
    BY <1>1, <1>2, <1>3, <1>5 DEF LogFilesOf, EntriesIn

LEMMA GrownIsThere ==
  ASSUME NEW files, LogFilesOf(files), NEW at \in 1..Len(files), NEW size, NEW t, NEW total
  PROVE  Grown(files, at, size, t, total)[at].there = files[at].there
  <1>1. files[at] \in LogFile /\ at \in DOMAIN files
    BY FileFields, LenProperties DEF LogFilesOf
  <1>2. QED
    BY <1>1 DEF Grown, LogFile

LEMMA OthersUngrown ==
  ASSUME NEW files, LogFilesOf(files), NEW at \in 1..Len(files), NEW size, NEW t, NEW total,
         NEW i \in 1..Len(files), i # at
  PROVE  LET g == Grown(files, at, size, t, total)
         IN g[i] = files[i] /\ EntriesIn(g, i) = EntriesIn(files, i)
  BY LenProperties DEF LogFilesOf, Grown, EntriesIn

LEMMA GrownIsApart ==
  ASSUME NEW files, LogFilesOf(files), NEW at \in 1..Len(files), NEW size \in Nat \ {0},
         NEW t \in Nat, NEW total \in Nat,
         FilesApart(files, total), files[at].there
  PROVE  FilesApart(Grown(files, at, size, t, total), total + 1)
  <1> DEFINE g == Grown(files, at, size, t, total)
  <1>1. /\ Len(g) = Len(files) /\ Len(files) \in Nat
        /\ g[at].there = files[at].there /\ g[at].size = files[at].size + size
        /\ EntriesIn(g, at) = EntriesIn(files, at) \cup {total + 1}
        /\ \A i \in 1..Len(files) : i # at => g[i] = files[i] /\ EntriesIn(g, i) = EntriesIn(files, i)
    <2>1. /\ LogFilesOf(g) /\ Len(g) = Len(files) /\ g[at].size = files[at].size + size
          /\ g[at].time = t /\ EntriesIn(g, at) = EntriesIn(files, at) \cup {total + 1}
      BY GrownFile
    <2> g[at].there = files[at].there
      BY GrownIsThere
    <2>2. \A i \in 1..Len(files) : i # at => g[i] = files[i] /\ EntriesIn(g, i) = EntriesIn(files, i)
      BY OthersUngrown
    <2> HIDE DEF g
    <2>3. QED
      BY <2>1, <2>2 DEF LogFilesOf
  <1> HIDE DEF g
  <1>2. files[at].size \in Nat
    BY FileFields
  <1>3. \A i \in 1..Len(files) : EntriesIn(files, i) \subseteq 1..total
    BY DEF FilesApart
  <1>4. \A i \in 1..Len(g) : g[i].there = files[i].there
    BY <1>1
  <1>5. \A i \in 1..Len(g) : /\ ~g[i].there => EntriesIn(g, i) = {}
                             /\ g[i].size = 0 <=> EntriesIn(g, i) = {}
                             /\ EntriesIn(g, i) \subseteq 1..total + 1
    <2> TAKE i \in 1..Len(g)
    <2>1. CASE i = at
      <3>1. EntriesIn(files, at) \subseteq 1..total + 1
        BY <1>3
      <3>2. g[at].size # 0 /\ EntriesIn(g, at) # {} /\ EntriesIn(g, at) \subseteq 1..total + 1
        BY <1>1, <1>2, <3>1
      <3>3. g[at].there
        BY <1>1
      <3>4. QED
        BY <2>1, <3>2, <3>3
    <2>2. CASE i # at
      BY <1>1, <1>3, <2>2 DEF FilesApart
    <2>3. QED
      BY <2>1, <2>2
  <1>6. \A i \in 1..Len(g) : g[i].there => g[1].there
    BY <1>1, <1>4 DEF FilesApart
  <1>7. \A i, j \in 1..Len(g) : i # j => EntriesIn(g, i) \cap EntriesIn(g, j) = {}
    <2>1. \A i \in 1..Len(files) : ~(total + 1 \in EntriesIn(files, i))
      BY <1>3
    <2>2. QED
      BY <1>1, <2>1 DEF FilesApart
  <1>8. QED
    BY <1>5, <1>6, <1>7 DEF g, FilesApart

LEMMA GrownIsNewest ==
  ASSUME NEW files, LogFilesOf(files), NEW at \in 1..Len(files), NEW size \in Nat \ {0},
         NEW t \in Nat, NEW total \in Nat,
         FilesApart(files, total), TimesArePast(files, t),
         NewestIs(files, at, total)
  PROVE  NewestIs(Grown(files, at, size, t, total), at, total + 1)
  <1> DEFINE g == Grown(files, at, size, t, total)
  <1>1. /\ Len(g) = Len(files) /\ Len(files) \in Nat
        /\ g[at].there = files[at].there /\ g[at].time = t
        /\ EntriesIn(g, at) = EntriesIn(files, at) \cup {total + 1}
        /\ \A i \in 1..Len(files) : i # at => g[i] = files[i] /\ EntriesIn(g, i) = EntriesIn(files, i)
    <2>1. /\ LogFilesOf(g) /\ Len(g) = Len(files) /\ g[at].size = files[at].size + size
          /\ g[at].time = t /\ EntriesIn(g, at) = EntriesIn(files, at) \cup {total + 1}
      BY GrownFile
    <2> g[at].there = files[at].there
      BY GrownIsThere
    <2>2. \A i \in 1..Len(files) : i # at => g[i] = files[i] /\ EntriesIn(g, i) = EntriesIn(files, i)
      BY OthersUngrown
    <2> HIDE DEF g
    <2>3. QED
      BY <2>1, <2>2 DEF LogFilesOf
  <1> HIDE DEF g
  <1>2. \A i \in 1..Len(files) : files[i].time \in Nat
    BY FileFields
  <1>3. \A i \in 1..Len(files) : EntriesIn(files, i) \subseteq 1..total
    BY DEF FilesApart
  <1>4. HeldIn(g) = HeldIn(files) \cup {total + 1}
    BY <1>1 DEF HeldIn
  <1>5. g[at].there
    BY <1>1 DEF NewestIs
  <1>6. \A i \in 1..Len(g) : g[i].time <= g[at].time
    BY <1>1, <1>2 DEF TimesArePast
  <1>7. \A i \in 1..Len(g) : g[i].there /\ i # at => g[i].size >= FileLimit
    BY <1>1 DEF NewestIs
  <1>8. ASSUME NEW i \in 1..Len(g), NEW j \in 1..Len(g),
               Behind(Len(g), at, i) < Behind(Len(g), at, j),
               NEW x \in EntriesIn(g, i), NEW y \in EntriesIn(g, j)
        PROVE  y < x
    <2>1. Len(files) \in Nat \ {0}
      BY <1>1
    <2>2. j # at
      <3>1. /\ Behind(Len(files), at, at) = 0
            /\ Behind(Len(files), at, i) \in 0..Len(files) - 1
        BY <1>1, <2>1, RoundTheRotation
      <3>2. QED
        BY <1>1, <1>8, <2>1, <3>1
    <2>3. y \in EntriesIn(files, j) /\ y \in 1..total
      BY <1>1, <1>3, <1>8, <2>2
    <2>4. CASE x \in EntriesIn(files, i)
      BY <1>1, <1>8, <2>3, <2>4 DEF NewestIs
    <2>5. CASE x = total + 1
      BY <2>3, <2>5
    <2>6. QED
      BY <1>1, <1>8, <2>4, <2>5
  <1>9. \A x \in HeldIn(g), y \in 1..total + 1 : x <= y => y \in HeldIn(g)
    <2> TAKE x \in HeldIn(g), y \in 1..total + 1
    <2>1. CASE y = total + 1
      BY <1>4, <2>1
    <2>2. CASE y \in 1..total
      <3>1. CASE x = total + 1
        BY <2>2, <3>1
      <3>2. CASE x \in HeldIn(files)
        BY <1>4, <2>2, <3>2 DEF NewestIs
      <3>3. QED
        BY <1>4, <3>1, <3>2
    <2>3. QED
      BY <2>1, <2>2
  <1>10. QED
    BY <1>4, <1>5, <1>6, <1>7, <1>8, <1>9 DEF g, NewestIs

\* A file that is begun again.
Renewed(files, at, t) == [files EXCEPT ![at] = NewFile(t)]

LEMMA RenewedFile ==
  ASSUME NEW files, LogFilesOf(files), NEW at \in 1..Len(files), NEW t \in Nat
  PROVE  LET g == Renewed(files, at, t)
         IN /\ LogFilesOf(g) /\ Len(g) = Len(files)
            /\ g[at] = NewFile(t) /\ EntriesIn(g, at) = {}
  <1> DEFINE g == Renewed(files, at, t)
  <1>1. NewFile(t) \in LogFile /\ ToSet(NewFile(t).entries) = {}
    BY NewFileIsOne
  <1>2. /\ g \in Seq(LogFile) /\ Len(g) = Len(files) /\ g[at] = NewFile(t)
        /\ \A i \in 1..Len(files) : i # at => g[i] = files[i]
    BY <1>1, ExceptSeq, LenProperties DEF LogFilesOf, Renewed
  <1>3. QED
    BY <1>1, <1>2 DEF LogFilesOf, EntriesIn

LEMMA OthersOld ==
  ASSUME NEW files, LogFilesOf(files), NEW at \in 1..Len(files), NEW t,
         NEW i \in 1..Len(files), i # at
  PROVE  LET g == Renewed(files, at, t)
         IN g[i] = files[i] /\ EntriesIn(g, i) = EntriesIn(files, i)
  BY LenProperties DEF LogFilesOf, Renewed, EntriesIn

LEMMA RenewedIsApart ==
  ASSUME NEW files, LogFilesOf(files), NEW at \in 1..Len(files), NEW t \in Nat,
         NEW total \in Nat, FilesApart(files, total), at = 1 \/ files[1].there
  PROVE  FilesApart(Renewed(files, at, t), total)
  <1> DEFINE g == Renewed(files, at, t)
  <1>1. /\ Len(g) = Len(files) /\ Len(files) \in Nat /\ EntriesIn(g, at) = {}
        /\ g[at].there /\ g[at].size = 0
        /\ \A i \in 1..Len(files) : i # at => g[i] = files[i] /\ EntriesIn(g, i) = EntriesIn(files, i)
    <2>1. /\ LogFilesOf(g) /\ Len(g) = Len(files)
          /\ g[at] = NewFile(t) /\ EntriesIn(g, at) = {}
      BY RenewedFile
    <2>2. \A i \in 1..Len(files) : i # at => g[i] = files[i] /\ EntriesIn(g, i) = EntriesIn(files, i)
      BY OthersOld
    <2> HIDE DEF g
    <2>3. QED
      BY <2>1, <2>2, NewFileIsOne DEF LogFilesOf
  <1> HIDE DEF g
  <1>2. \A i \in 1..Len(g) : /\ ~g[i].there => EntriesIn(g, i) = {}
                             /\ g[i].size = 0 <=> EntriesIn(g, i) = {}
                             /\ EntriesIn(g, i) \subseteq 1..total
    BY <1>1 DEF FilesApart
  <1>3. \A i \in 1..Len(g) : g[i].there => g[1].there
    BY <1>1 DEF FilesApart
  <1>4. \A i, j \in 1..Len(g) : i # j => EntriesIn(g, i) \cap EntriesIn(g, j) = {}
    BY <1>1 DEF FilesApart
  <1>5. QED
    BY <1>2, <1>3, <1>4 DEF g, FilesApart

LEMMA RenewedIsNewest ==
  ASSUME NEW files, LogFilesOf(files), NEW newest \in 1..Len(files), NEW t \in Nat,
         NEW total \in Nat, FilesApart(files, total), TimesArePast(files, t),
         NewestIs(files, newest, total),
         FileLimit \in Nat \ {0}, files[newest].size >= FileLimit,
         NEW at, at = Oldest(Len(files), newest)
  PROVE  NewestIs(Renewed(files, at, t), at, total)
  <1> DEFINE g == Renewed(files, at, t)
  <1> DEFINE n == Len(files)
  <1>1. n \in Nat \ {0} /\ at \in 1..n
    <2>1. n \in Nat \ {0}
      BY DEF LogFilesOf
    <2>2. QED
      BY <2>1, RoundTheRotation
  <1>2. /\ Len(g) = n /\ EntriesIn(g, at) = {} /\ g[at].there /\ g[at].time = t
        /\ \A i \in 1..n : i # at => g[i] = files[i] /\ EntriesIn(g, i) = EntriesIn(files, i)
    <2>1. /\ LogFilesOf(g) /\ Len(g) = Len(files)
          /\ g[at] = NewFile(t) /\ EntriesIn(g, at) = {}
      BY <1>1, RenewedFile
    <2>2. \A i \in 1..Len(files) : i # at => g[i] = files[i] /\ EntriesIn(g, i) = EntriesIn(files, i)
      BY <1>1, OthersOld
    <2> HIDE DEF g
    <2>3. QED
      BY <2>1, <2>2, NewFileIsOne DEF LogFilesOf
  <1> HIDE DEF g
  <1>3. \A i \in 1..n : files[i].time \in Nat /\ files[i].size \in Nat
    BY FileFields
  <1>4. \A i \in 1..n : EntriesIn(files, i) \subseteq 1..total
    BY DEF FilesApart
  <1>5. \A i \in 1..n : g[i].time <= g[at].time
    BY <1>1, <1>2, <1>3 DEF TimesArePast
  <1>6. \A i \in 1..n : g[i].there /\ i # at => g[i].size >= FileLimit
    BY <1>1, <1>2 DEF NewestIs
  <1>7. ASSUME NEW i \in 1..n, NEW j \in 1..n, Behind(n, at, i) < Behind(n, at, j),
               NEW x \in EntriesIn(g, i), NEW y \in EntriesIn(g, j)
        PROVE  y < x
    <2>1. i # at /\ j # at
      BY <1>2, <1>7
    <2>2. /\ Behind(n, at, i) = Behind(n, newest, i) + 1
          /\ Behind(n, at, j) = Behind(n, newest, j) + 1
          /\ Behind(n, newest, i) \in 0..n - 1 /\ Behind(n, newest, j) \in 0..n - 1
      <3>1. i # Oldest(n, newest) /\ j # Oldest(n, newest) /\ at = Oldest(n, newest)
        BY <2>1
      <3>2. QED
        BY <1>1, <3>1, RoundTheRotation
    <2>3. Behind(n, newest, i) < Behind(n, newest, j)
      BY <1>1, <1>7, <2>2
    <2>4. x \in EntriesIn(files, i) /\ y \in EntriesIn(files, j)
      BY <1>2, <1>7, <2>1
    <2>5. QED
      BY <2>3, <2>4 DEF NewestIs
  <1>8. ASSUME NEW x, x \in HeldIn(files), ~(x \in EntriesIn(files, at)) PROVE x \in HeldIn(g)
    BY <1>2, <1>8 DEF HeldIn
  <1>9. \A x \in HeldIn(g), y \in 1..total : x <= y => y \in HeldIn(g)
    <2> SUFFICES ASSUME NEW x \in HeldIn(g), NEW y \in 1..total, x <= y PROVE y \in HeldIn(g)
      OBVIOUS
    <2>1. PICK i \in 1..n : x \in EntriesIn(g, i)
      BY <1>2 DEF HeldIn
    <2>2. i # at /\ x \in EntriesIn(files, i)
      BY <1>2, <2>1
    <2>3. x \in HeldIn(files) /\ x \in 1..total
      BY <1>4, <2>2 DEF HeldIn
    <2>4. y \in HeldIn(files)
      BY <2>3 DEF NewestIs
    <2>5. ~(y \in EntriesIn(files, at))
      <3>1. Behind(n, newest, i) < Behind(n, newest, at)
        BY <1>1, <2>2, RoundTheRotation
      <3>2. y \in EntriesIn(files, at) => y < x
        BY <1>1, <2>2, <3>1 DEF NewestIs
      <3>3. QED
        BY <2>3, <3>2
    <2>6. QED
      BY <1>8, <2>4, <2>5
  <1>10. total > 0 /\ n > 1 => total \in HeldIn(g)
    <2> SUFFICES ASSUME total > 0, n > 1 PROVE total \in HeldIn(g)
      OBVIOUS
    <2>1. at # newest
      BY <1>1, RoundTheRotation
    <2>2. PICK x : x \in EntriesIn(files, newest)
      BY <1>3 DEF FilesApart
    <2>3. Behind(n, newest, newest) < Behind(n, newest, at)
      BY <1>1, <2>1, RoundTheRotation
    <2>4. total \in EntriesIn(files, at) => total < x
      BY <1>1, <2>2, <2>3 DEF NewestIs
    <2>5. x \in 1..total
      BY <1>4, <2>2
    <2>6. QED
      BY <1>8, <2>4, <2>5 DEF NewestIs
  <1>11. QED
    BY <1>1, <1>2, <1>5, <1>6, <1>7, <1>9, <1>10 DEF g, NewestIs

LEMMA GrownIsPast ==
  ASSUME NEW files, LogFilesOf(files), NEW at \in 1..Len(files), NEW size \in Nat \ {0},
         NEW t \in Nat, NEW total \in Nat, TimesArePast(files, t)
  PROVE  TimesArePast(Grown(files, at, size, t, total), t)
  <1>1. /\ Len(Grown(files, at, size, t, total)) = Len(files)
        /\ Grown(files, at, size, t, total)[at].time = t
    BY GrownFile
  <1>2. \A i \in 1..Len(files) : i # at => Grown(files, at, size, t, total)[i] = files[i]
    BY OthersUngrown
  <1>3. QED
    BY <1>1, <1>2 DEF TimesArePast

LEMMA RenewedIsPast ==
  ASSUME NEW files, LogFilesOf(files), NEW at \in 1..Len(files), NEW t \in Nat,
         TimesArePast(files, t)
  PROVE  TimesArePast(Renewed(files, at, t), t)
  <1>1. /\ Len(Renewed(files, at, t)) = Len(files)
        /\ Renewed(files, at, t)[at] = NewFile(t)
    BY RenewedFile
  <1>2. \A i \in 1..Len(files) : i # at => Renewed(files, at, t)[i] = files[i]
    BY OthersOld
  <1>3. QED
    BY <1>1, <1>2, NewFileIsOne DEF TimesArePast

LEMMA RenewedIsLimited ==
  ASSUME NEW files, LogFilesOf(files), NEW at \in 1..Len(files), NEW t \in Nat,
         FileLimit \in Nat, \A i \in 1..Len(files) : i # at =>
           \E size \in EntrySizes \cup {0} : files[i].size <= FileLimit + size
  PROVE  FilesLimited(Renewed(files, at, t))
  <1>1. /\ Len(Renewed(files, at, t)) = Len(files)
        /\ Renewed(files, at, t)[at] = NewFile(t)
    BY RenewedFile
  <1>2. \A i \in 1..Len(files) : i # at => Renewed(files, at, t)[i] = files[i]
    BY OthersOld
  <1>3. NewFile(t).size <= FileLimit + 0
    BY NewFileIsOne
  <1>4. QED
    BY <1>1, <1>2, <1>3 DEF FilesLimited

LEMMA LogInvInit == LogFilesInit => LogInv
  <1> SUFFICES ASSUME LogFilesInit PROVE LogInv
    OBVIOUS
  <1>1. /\ logConfig = NoConfig /\ logFiles = <<>> /\ logAt = 0 /\ clock = 0 /\ written = 0
        /\ tied = FALSE
    BY DEF LogFilesInit
  <1>2. logFiles \in Seq(LogFile) /\ Len(logFiles) = 0
    BY <1>1, EmptySeq
  <1>3. ~Rotates
    BY <1>1 DEF Rotates, Limited, NoConfig
  <1>4. LogTypeOK
    <2>1. NoConfig \in [levels : SUBSET (LogKinds \cup {"all"}), count : Nat,
                        size : {0, FileLimit}]
      BY DEF NoConfig
    <2>2. QED
      <3>1. LogFilesOf(logFiles) /\ logAt \in 0..Len(logFiles)
        BY <1>1, <1>2 DEF LogFilesOf
      <3>2. QED
        BY <1>1, <2>1, <3>1 DEF LogTypeOK
  <1>5. QED
    BY <1>1, <1>2, <1>3, <1>4 DEF LogInv, FilesApart, TimesArePast

\* A process that begins: it takes up the file written last.
LEMMA LatestExists ==
  ASSUME LogTypeOK, TimesArePast(logFiles, clock), There # {}
  PROVE  LastWritten # {}
  <1> DEFINE Ages == {clock - logFiles[i].time : i \in There}
  <1>1. /\ clock \in Nat
        /\ \A i \in There : logFiles[i].time \in Nat /\ logFiles[i].time <= clock
    BY FileFields DEF LogTypeOK, There, Indexes, TimesArePast
  <1>2. Ages \in SUBSET Nat /\ Ages # {}
    BY <1>1
  <1>3. Min(Ages) \in Ages /\ \A a \in Ages : Min(Ages) <= a
    <2> HIDE DEF Ages
    <2>1. QED
      BY <1>2, MinOfNats
  <1>4. PICK i \in There : Min(Ages) = clock - logFiles[i].time
    BY <1>3
  <1>5. \A j \in There : logFiles[j].time <= logFiles[i].time
    <2> TAKE j \in There
    <2>1. clock - logFiles[i].time <= clock - logFiles[j].time
      BY <1>3, <1>4
    <2>2. QED
      BY <1>1, <2>1
  <1>6. QED
    BY <1>5 DEF LastWritten

LEMMA UseIsLatest ==
  ASSUME LogTypeOK, TimesArePast(logFiles, clock), There # {}
  PROVE  /\ Min(LastWritten) \in 1..Len(logFiles) /\ logFiles[Min(LastWritten)].there
         /\ \A newest \in There :
              /\ \A i \in 1..Len(logFiles) : logFiles[i].time <= logFiles[newest].time
              /\ Cardinality(LastWritten) <= 1
              => Min(LastWritten) = newest
  <1>1. LastWritten \in SUBSET Nat /\ LastWritten # {} /\ LastWritten \subseteq There
        /\ There \subseteq 1..Len(logFiles) /\ Len(logFiles) \in Nat
    BY LatestExists DEF LastWritten, There, Indexes, LogTypeOK, LogFilesOf
  <1>2. Min(LastWritten) \in LastWritten
    BY <1>1, MinOfNats
  <1>3. Min(LastWritten) \in 1..Len(logFiles) /\ logFiles[Min(LastWritten)].there
    BY <1>1, <1>2 DEF There
  <1>4. ASSUME NEW newest \in There, Cardinality(LastWritten) <= 1,
               \A i \in 1..Len(logFiles) : logFiles[i].time <= logFiles[newest].time
        PROVE  Min(LastWritten) = newest
    <2>1. newest \in LastWritten
      BY <1>1, <1>4 DEF LastWritten
    <2>2. IsFiniteSet(LastWritten)
      <3>1. IsFiniteSet(1..Len(logFiles))
        BY <1>1, FS_Interval
      <3>2. QED
        BY <1>1, <3>1, FS_Subset
    <2>3. ASSUME Min(LastWritten) # newest PROVE FALSE
      <3> DEFINE two == {Min(LastWritten), newest}
      <3>1. IsFiniteSet({newest}) /\ Cardinality({newest}) = 1
        BY FS_Singleton
      <3>2. Cardinality({newest} \cup {Min(LastWritten)}) = 2
        BY <2>3, <3>1, FS_AddElement
      <3>3. {newest} \cup {Min(LastWritten)} \subseteq LastWritten
        BY <1>2, <2>1
      <3>4. 2 <= Cardinality(LastWritten) /\ Cardinality(LastWritten) \in Nat
        BY <2>2, <3>2, <3>3, FS_Subset, FS_CardinalityType
      <3>5. QED
        BY <1>4, <3>4
    <2>4. QED
      BY <2>3
  <1>5. QED
    BY <1>3, <1>4

LEMMA InitKeepsLog == LogInv /\ InitLog => LogInv'
  <1> SUFFICES ASSUME LogInv, InitLog PROVE LogInv'
    OBVIOUS
  <1> DEFINE n == Len(logFiles)
  <1>1. /\ LogTypeOK /\ LogFilesOf(logFiles) /\ n \in Nat /\ clock \in Nat /\ written \in Nat
        /\ logConfig # NoConfig /\ logAt = 0 /\ tied \in BOOLEAN
        /\ FilesApart(logFiles, written) /\ TimesArePast(logFiles, clock)
        /\ FileLimit \in Nat
    BY LogFilesAssumption DEF LogInv, LogTypeOK, LogFilesOf, InitLog
  <1>2. /\ logConfig' = logConfig /\ clock' = clock /\ written' = written
    BY DEF InitLog
  <1>3. Rotates' <=> Rotates
    BY <1>2 DEF Rotates
  <1>4. /\ n = (IF Rotates THEN logConfig.count ELSE 1) /\ n >= 1
        /\ Rotates => FileLimit # 0
    <2>1. n = (IF Rotates THEN logConfig.count ELSE 1)
      BY <1>1 DEF LogTypeOK
    <2>2. logConfig.count \in Nat /\ logConfig.size \in {0, FileLimit}
      BY <1>1 DEF LogTypeOK
    <2>3. Rotates => logConfig.count > 0 /\ logConfig.size > 0
      BY DEF Rotates, Limited
    <2>4. QED
      BY <1>1, <2>1, <2>2, <2>3
  <1>5. ASSUME NEW at \in 1..n, logAt' = at, logFiles' = logFiles, logFiles[at].there,
               Rotates => logFiles[at].size <= FileLimit,
               tied' \in BOOLEAN,
               Rotates /\ ~tied' => NewestIs(logFiles, at, written)
        PROVE  LogInv'
    <2>1. LogTypeOK'
      BY <1>1, <1>2, <1>3, <1>5 DEF LogTypeOK, LogFilesOf
    <2>2. Rotates /\ ~logFiles[1].there => written = 0
      BY DEF LogInv
    <2>3. QED
      BY <1>1, <1>2, <1>3, <1>5, <2>1, <2>2 DEF LogInv
  <1>6. ASSUME NEW at \in 1..n, logAt' = at, logFiles' = Renewed(logFiles, at, clock),
               at = 1 \/ logFiles[1].there,
               tied' \in BOOLEAN,
               ~Rotates => EntriesIn(logFiles, at) = {},
               Rotates /\ ~tied' => NewestIs(logFiles', at, written)
        PROVE  LogInv'
    <2> DEFINE g == Renewed(logFiles, at, clock)
    <2>1. LogFilesOf(g) /\ Len(g) = n /\ EntriesIn(g, at) = {}
      BY <1>1, RenewedFile
    <2>2. g[at].there /\ g[at].size = 0
      <3>1. g[at] = NewFile(clock)
        BY <1>1, RenewedFile
      <3>2. QED
        BY <1>1, <3>1, NewFileIsOne
    <2>3. FilesApart(g, written)
      BY <1>1, <1>6, RenewedIsApart
    <2>4. TimesArePast(g, clock)
      BY <1>1, RenewedIsPast
    <2>5. Rotates => FilesLimited(g)
      <3> SUFFICES ASSUME Rotates PROVE FilesLimited(g)
        OBVIOUS
      <3>1. FilesLimited(logFiles)
        BY DEF LogInv
      <3>2. QED
        BY <1>1, <3>1, RenewedIsLimited DEF FilesLimited
    <2>6. ~Rotates => \A i \in 1..n : EntriesIn(g, i) = 1..written
      BY <1>1, <1>4, <1>6, <2>1 DEF LogInv
    <2>7. g[1].there
      <3>1. CASE at = 1
        BY <2>2, <3>1
      <3>2. CASE at # 1
        BY <1>1, <1>4, <1>6, <3>2, OthersOld
      <3>3. QED
        BY <3>1, <3>2
    <2> HIDE DEF g
    <2>8. logFiles' = g
      BY <1>6 DEF g
    <2>9. LogTypeOK'
      <3>1. Len(logFiles') = n /\ LogFilesOf(logFiles')
        BY <2>1, <2>8
      <3>2. logConfig' # NoConfig => Len(logFiles') = (IF Rotates' THEN logConfig'.count ELSE 1)
        BY <1>2, <1>3, <1>4, <3>1
      <3>3. logAt' \in 0..Len(logFiles')
        BY <1>1, <1>6, <3>1
      <3>4. QED
        BY <1>1, <1>2, <1>6, <3>1, <3>2, <3>3 DEF LogTypeOK
    <2>10. QED
      BY <1>1, <1>2, <1>3, <1>6, <2>1, <2>2, <2>3, <2>4, <2>5, <2>6, <2>7, <2>8, <2>9 DEF LogInv
  <1>7. CASE ~Rotates \/ ~logFiles[1].there
    <2>1. OpenToAppend(1) /\ tied' = tied
      BY <1>7 DEF InitLog
    <2>2. CASE logFiles[1].there
      <3>1. logAt' = 1 /\ logFiles' = logFiles
        BY <2>1, <2>2 DEF OpenToAppend
      <3>2. ~Rotates
        BY <1>7, <2>2
      <3>3. QED
        BY <1>1, <1>4, <1>5, <2>1, <2>2, <3>1, <3>2
    <2>3. CASE ~logFiles[1].there
      <3>1. logAt' = 1 /\ logFiles' = Renewed(logFiles, 1, clock)
        BY <2>1, <2>3 DEF OpenToAppend, Renewed
      <3>2. \A i \in 1..n : ~logFiles[i].there /\ EntriesIn(logFiles, i) = {}
        BY <1>1, <2>3 DEF FilesApart
      <3>3. Rotates /\ ~tied' => NewestIs(logFiles', 1, written)
        <4> SUFFICES ASSUME Rotates PROVE NewestIs(logFiles', 1, written)
          OBVIOUS
        <4> DEFINE g == Renewed(logFiles, 1, clock)
        <4>1. LogFilesOf(g) /\ Len(g) = n /\ EntriesIn(g, 1) = {} /\ g[1] = NewFile(clock)
          BY <1>1, <1>4, RenewedFile
        <4>2. \A i \in 1..n : i # 1 => g[i] = logFiles[i] /\ EntriesIn(g, i) = EntriesIn(logFiles, i)
          BY <1>1, <1>4, OthersOld
        <4>3. written = 0
          BY <2>3 DEF LogInv
        <4>4. TimesArePast(g, clock)
          BY <1>1, <1>4, RenewedIsPast
        <4> HIDE DEF g
        <4>5. g[1].there /\ g[1].time = clock
          BY <1>1, <4>1, NewFileIsOne
        <4>6. \A i \in 1..n : EntriesIn(g, i) = {}
          BY <3>2, <4>1, <4>2
        <4>7. HeldIn(g) = {}
          BY <4>1, <4>6 DEF HeldIn
        <4>8. NewestIs(g, 1, written)
          BY <3>2, <4>1, <4>2, <4>3, <4>4, <4>5, <4>6, <4>7 DEF NewestIs, TimesArePast
        <4>9. QED
          BY <3>1, <4>8 DEF g
      <3>4. QED
        BY <1>1, <1>4, <1>6, <2>1, <3>1, <3>2, <3>3
    <2>4. QED
      BY <2>2, <2>3
  <1>8. CASE Rotates /\ logFiles[1].there
    <2> DEFINE use == Min(LastWritten)
    <2>1. There # {}
      BY <1>4, <1>8 DEF There, Indexes
    <2>2. use \in 1..n /\ logFiles[use].there
      BY <1>1, <2>1, UseIsLatest
    <2>3. /\ tied' = (tied \/ Cardinality(LastWritten) > 1)
          /\ IF logFiles[use].size < FileLimit THEN OpenToAppend(use)
             ELSE OpenTruncated(Following(use))
      BY <1>8 DEF InitLog
    <2>4. ~tied' => NewestIs(logFiles, use, written)
      <3> SUFFICES ASSUME ~tied' PROVE NewestIs(logFiles, use, written)
        OBVIOUS
      <3>1. ~tied /\ ~(Cardinality(LastWritten) > 1)
        BY <2>3
      <3>2. PICK newest \in 1..n : NewestIs(logFiles, newest, written)
        BY <1>8, <3>1 DEF LogInv
      <3>3. newest \in There
        BY <3>2 DEF NewestIs, There, Indexes
      <3>4. Cardinality(LastWritten) <= 1
        <4>1. IsFiniteSet(1..n)
          BY <1>1, FS_Interval
        <4>2. IsFiniteSet(LastWritten)
          BY <4>1, FS_Subset DEF LastWritten, There, Indexes
        <4>3. QED
          BY <3>1, <4>2, FS_CardinalityType
      <3>5. use = newest
        BY <1>1, <2>1, <3>2, <3>3, <3>4, UseIsLatest DEF NewestIs
      <3>6. QED
        BY <3>2, <3>5
    <2> HIDE DEF use
    <2>5. tied' \in BOOLEAN
      BY <2>3
    <2>6. logFiles[use].size \in Nat
      BY <1>1, <2>2, FileFields
    <2>7. CASE logFiles[use].size < FileLimit
      <3>1. logAt' = use /\ logFiles' = logFiles
        BY <2>2, <2>3, <2>7 DEF OpenToAppend
      <3>2. QED
        BY <1>1, <1>5, <2>2, <2>4, <2>5, <2>6, <2>7, <3>1
    <2>8. CASE ~(logFiles[use].size < FileLimit)
      <3> DEFINE at == Oldest(n, use)
      <3>1. at \in 1..n /\ Following(use) = at
        <4>1. n \in Nat \ {0}
          BY <1>1, <1>4
        <4>2. at \in 1..n
          BY <2>2, <4>1, RoundTheRotation
        <4>3. QED
          BY <4>2 DEF Following, Oldest
      <3>2. logAt' = at /\ logFiles' = Renewed(logFiles, at, clock)
        BY <2>3, <2>8, <3>1 DEF OpenTruncated, Renewed
      <3>3. ~tied' => NewestIs(logFiles', at, written)
        <4>1. FileLimit \in Nat \ {0} /\ logFiles[use].size >= FileLimit
          BY <1>1, <1>4, <1>8, <2>6, <2>8
        <4>2. QED
          BY <1>1, <2>2, <2>4, <3>2, <4>1, RenewedIsNewest
      <3> HIDE DEF at
      <3>4. QED
        BY <1>6, <1>8, <2>5, <3>1, <3>2, <3>3
    <2>9. QED
      BY <2>7, <2>8
  <1>9. QED
    BY <1>7, <1>8

LEMMA WriteKeepsLog == LogInv /\ WriteLogEntry => LogInv'
  <1> SUFFICES ASSUME LogInv, WriteLogEntry PROVE LogInv'
    OBVIOUS
  <1> DEFINE n == Len(logFiles)
  <1>1. /\ LogTypeOK /\ LogFilesOf(logFiles) /\ n \in Nat /\ clock \in Nat /\ written \in Nat
        /\ logAt \in 1..n /\ logFiles[logAt].there /\ tied \in BOOLEAN
        /\ FilesApart(logFiles, written) /\ TimesArePast(logFiles, clock)
        /\ FileLimit \in Nat /\ EntrySizes \subseteq Nat \ {0}
    BY LogFilesAssumption DEF LogInv, LogTypeOK, LogFilesOf, WriteLogEntry
  <1>2. logConfig' = logConfig /\ clock' = clock /\ tied' = tied
    BY DEF WriteLogEntry
  <1>3. Rotates' <=> Rotates
    BY <1>2 DEF Rotates
  <1>4. /\ logConfig # NoConfig /\ n = (IF Rotates THEN logConfig.count ELSE 1)
        /\ Rotates => logConfig.size > 0 /\ FileLimit \in Nat \ {0}
    <2>1. logConfig # NoConfig
      <3>1. logFiles = <<>> => n = 0
        BY EmptySeq
      <3>2. QED
        BY <1>1, <3>1 DEF LogTypeOK
    <2>2. logConfig.count \in Nat /\ logConfig.size \in {0, FileLimit}
      BY <1>1 DEF LogTypeOK
    <2>3. QED
      BY <1>1, <2>1, <2>2 DEF LogTypeOK, Rotates, Limited
  <1>5. logFiles[1].there
    BY <1>1 DEF FilesApart
  <1>6. PICK size \in EntrySizes :
          \/ /\ written' = written + 1
             /\ Rotated(Grown(logFiles, logAt, size, clock, written))
          \/ UNCHANGED <<written, logFiles, logAt>>
    BY DEF WriteLogEntry, Grown
  <1>7. CASE UNCHANGED <<written, logFiles, logAt>>
    <2>1. LogTypeOK'
      BY <1>1, <1>2, <1>3, <1>7 DEF LogTypeOK, LogFilesOf
    <2>2. QED
      BY <1>2, <1>3, <1>7, <2>1 DEF LogInv
  <1>8. CASE /\ written' = written + 1
             /\ Rotated(Grown(logFiles, logAt, size, clock, written))
    <2> DEFINE g == Grown(logFiles, logAt, size, clock, written)
    <2>0. size \in Nat \ {0}
      BY <1>1
    <2>1. /\ LogFilesOf(g) /\ Len(g) = n /\ g[logAt].size = logFiles[logAt].size + size
          /\ EntriesIn(g, logAt) = EntriesIn(logFiles, logAt) \cup {written + 1}
      BY <1>1, <2>0, GrownFile
    <2>2. g[logAt].there
      BY <1>1, GrownIsThere
    <2>3. \A i \in 1..n : i # logAt => g[i] = logFiles[i]
      BY <1>1, OthersUngrown
    <2>4. FilesApart(g, written + 1)
      BY <1>1, <2>0, GrownIsApart
    <2>5. TimesArePast(g, clock)
      BY <1>1, <2>0, GrownIsPast
    <2>6. ~Rotates => \A i \in 1..n : EntriesIn(g, i) = 1..written + 1
      <3> SUFFICES ASSUME ~Rotates PROVE \A i \in 1..n : EntriesIn(g, i) = 1..written + 1
        OBVIOUS
      <3>1. n = 1 /\ logAt = 1 /\ EntriesIn(logFiles, 1) = 1..written
        BY <1>1, <1>4 DEF LogInv
      <3>2. 1..written + 1 = 1..written \cup {written + 1}
        BY <1>1
      <3>3. EntriesIn(g, 1) = 1..written + 1
        BY <2>1, <3>1, <3>2
      <3> HIDE DEF g
      <3>4. \A i \in 1..n : i = 1
        BY <3>1
      <3>5. QED
        BY <3>3, <3>4
    <2>7. Rotates /\ ~tied => NewestIs(g, logAt, written + 1)
      <3> SUFFICES ASSUME Rotates, ~tied PROVE NewestIs(g, logAt, written + 1)
        OBVIOUS
      <3>1. NewestIs(logFiles, logAt, written)
        BY <1>1, <1>5 DEF LogInv
      <3>2. QED
        BY <1>1, <2>0, <3>1, GrownIsNewest
    <2>8. Rotates => FilesLimited(g)
      <3> SUFFICES ASSUME Rotates PROVE FilesLimited(g)
        OBVIOUS
      <3>1. FilesLimited(logFiles) /\ logFiles[logAt].size <= FileLimit
        BY <1>1 DEF LogInv
      <3>2. logFiles[logAt].size \in Nat
        BY <1>1, FileFields
      <3> HIDE DEF g
      <3>3. g[logAt].size <= FileLimit + size
        BY <1>1, <2>0, <2>1, <3>1, <3>2
      <3>4. QED
        BY <2>1, <2>3, <3>1, <3>3 DEF FilesLimited
    <2>9. g[1].there
      BY <1>1, <2>1, <2>2, <2>4 DEF FilesApart
    <2>10. g[logAt].size \in Nat
      BY <1>1, <2>1, FileFields
    <2>11. Rotated(g) /\ written' = written + 1
      BY <1>8
    <2> HIDE DEF g
    <2>12. CASE Rotates /\ TooLong(g[logAt].size)
      <3> DEFINE at == Oldest(n, logAt)
                 h == Renewed(g, at, clock)
      <3>1. at \in 1..n /\ Following(logAt) = at
        <4>1. n \in Nat \ {0}
          BY <1>1
        <4>2. at \in 1..n
          BY <1>1, <4>1, RoundTheRotation
        <4>3. QED
          BY <4>2 DEF Following, Oldest
      <3>2. logAt' = at /\ logFiles' = h
        BY <2>11, <2>12, <3>1 DEF Rotated, Renewed
      <3>3. LogFilesOf(h) /\ Len(h) = n
        BY <1>1, <2>1, <3>1, RenewedFile
      <3>4. h[at].there /\ h[at].size = 0
        <4>1. h[at] = NewFile(clock)
          BY <1>1, <2>1, <3>1, RenewedFile
        <4>2. QED
          BY <1>1, <4>1, NewFileIsOne
      <3>5. FilesApart(h, written + 1)
        BY <1>1, <2>1, <2>4, <2>9, <3>1, RenewedIsApart
      <3>6. TimesArePast(h, clock)
        BY <1>1, <2>1, <2>5, <3>1, RenewedIsPast
      <3>7. FilesLimited(h)
        BY <1>1, <2>1, <2>8, <2>12, <3>1, RenewedIsLimited DEF FilesLimited
      <3>8. ~tied => NewestIs(h, at, written + 1)
        <4>1. g[logAt].size >= FileLimit /\ FileLimit \in Nat \ {0}
          BY <1>1, <1>4, <2>10, <2>12 DEF TooLong
        <4>2. QED
          BY <1>1, <2>1, <2>4, <2>5, <2>7, <2>12, <4>1, RenewedIsNewest
      <3>9. h[1].there
        <4>1. CASE at = 1
          BY <3>4, <4>1
        <4>2. CASE at # 1
          <5>1. h[1] = g[1]
            BY <1>1, <2>1, <3>1, <4>2, OthersOld
          <5>2. QED
            BY <2>9, <5>1
        <4>3. QED
          BY <4>1, <4>2
      <3> HIDE DEF at, h
      <3>10. LogTypeOK'
        <4>1. Len(logFiles') = n /\ LogFilesOf(logFiles')
          BY <3>2, <3>3
        <4>2. logConfig' # NoConfig /\ Len(logFiles') = (IF Rotates' THEN logConfig'.count ELSE 1)
          BY <1>2, <1>3, <1>4, <4>1
        <4>3. logAt' \in 0..Len(logFiles') /\ written' \in Nat
          BY <1>1, <2>11, <3>1, <3>2, <4>1
        <4>4. QED
          BY <1>1, <1>2, <4>1, <4>2, <4>3 DEF LogTypeOK
      <3>11. QED
        BY <1>1, <1>2, <1>3, <2>11, <2>12, <3>1, <3>2, <3>3, <3>4, <3>5, <3>6, <3>7, <3>8, <3>9, <3>10
           DEF LogInv
    <2>13. CASE ~(Rotates /\ TooLong(g[logAt].size))
      <3>1. logAt' = logAt /\ logFiles' = g
        BY <2>11, <2>13 DEF Rotated
      <3>2. Rotates => g[logAt].size <= FileLimit
        BY <1>1, <1>4, <2>10, <2>13 DEF TooLong
      <3>3. LogTypeOK'
        <4>1. Len(logFiles') = n /\ LogFilesOf(logFiles')
          BY <2>1, <3>1
        <4>2. logConfig' # NoConfig /\ Len(logFiles') = (IF Rotates' THEN logConfig'.count ELSE 1)
          BY <1>2, <1>3, <1>4, <4>1
        <4>3. logAt' \in 0..Len(logFiles') /\ written' \in Nat
          BY <1>1, <2>11, <3>1, <4>1
        <4>4. QED
          BY <1>1, <1>2, <4>1, <4>2, <4>3 DEF LogTypeOK
      <3>4. QED
        BY <1>1, <1>2, <1>3, <2>1, <2>2, <2>4, <2>5, <2>6, <2>7, <2>8, <2>9, <2>11, <3>1, <3>2, <3>3
           DEF LogInv
    <2>14. QED
      BY <2>12, <2>13
  <1>9. QED
    BY <1>6, <1>7, <1>8

LEMMA ConfigureKeepsLog == LogInv /\ Configure => LogInv'
  <1> SUFFICES ASSUME LogInv, Configure PROVE LogInv'
    OBVIOUS
  <1>1. /\ LogTypeOK /\ logFiles = <<>> /\ written = 0 /\ logAt = 0 /\ clock \in Nat
        /\ tied \in BOOLEAN
    <2>1. Len(<<>>) = 0
      BY EmptySeq
    <2>2. QED
      BY <2>1 DEF LogInv, LogTypeOK, Configure
  <1>2. /\ logAt' = 0 /\ clock' = clock /\ written' = 0 /\ tied' = tied
    BY <1>1 DEF Configure
  <1>3. PICK levels \in (SUBSET (LogKinds \cup {"all"})) \ {{}}, total \in FileCounts,
             size \in {0, FileLimit} :
          /\ logConfig' = [levels |-> levels, count |-> total, size |-> size]
          /\ logFiles' = [i \in 1..(IF Limited(total, size) THEN total ELSE 1) |-> NoFile]
    BY DEF Configure
  <1> DEFINE n == IF Limited(total, size) THEN total ELSE 1
  <1>4. total \in Nat /\ n \in Nat /\ n >= 1 /\ (Rotates' <=> Limited(total, size))
    BY <1>3, LogFilesAssumption DEF Limited, Rotates
  <1>5. logFiles' = [i \in 1..n |-> NoFile]
    BY <1>3
  <1> HIDE DEF n
  <1>6. /\ logFiles' \in Seq(LogFile) /\ Len(logFiles') = n
        /\ \A i \in 1..n : logFiles'[i] = NoFile
    <2>1. NoFile \in LogFile
      BY NewFileIsOne
    <2>2. QED
      BY <1>4, <1>5, <2>1, IsASeq
  <1>7. /\ ~NoFile.there /\ NoFile.size = 0 /\ NoFile.time = 0 /\ ToSet(NoFile.entries) = {}
    BY NewFileIsOne DEF NoFile
  <1>8. LogTypeOK'
    <2>1. logConfig' \in [levels : SUBSET (LogKinds \cup {"all"}), count : Nat, size : {0, FileLimit}]
      BY <1>3, <1>4
    <2>2. logConfig' # NoConfig
      BY <1>3 DEF NoConfig
    <2>3. Len(logFiles') = (IF Rotates' THEN logConfig'.count ELSE 1)
      BY <1>3, <1>4, <1>6 DEF n
    <2>4. LogFilesOf(logFiles')
      BY <1>4, <1>6 DEF LogFilesOf
    <2>5. QED
      BY <1>1, <1>2, <1>4, <1>6, <2>1, <2>2, <2>3, <2>4 DEF LogTypeOK
  <1>9. \A i \in 1..n : EntriesIn(logFiles', i) = {}
    BY <1>6, <1>7 DEF EntriesIn
  <1>10. FilesApart(logFiles', 0) /\ TimesArePast(logFiles', clock)
    BY <1>1, <1>4, <1>6, <1>7, <1>9 DEF FilesApart, TimesArePast
  <1>11. Rotates' => FilesLimited(logFiles')
    <2>1. 0 <= FileLimit + 0
      BY LogFilesAssumption
    <2>2. QED
      BY <1>6, <1>7, <2>1 DEF FilesLimited
  <1>12. ~logFiles'[1].there
    BY <1>4, <1>6, <1>7
  <1>13. QED
    BY <1>2, <1>6, <1>8, <1>9, <1>10, <1>11, <1>12 DEF LogInv

LEMMA LogStep == LogInv /\ [LogFilesNext]_logFilesVars => LogInv'
  <1> SUFFICES ASSUME LogInv, [LogFilesNext]_logFilesVars PROVE LogInv'
    OBVIOUS
  <1>1. CASE UNCHANGED <<logConfig, logFiles, logAt, clock, written, tied>>
    <2>1. Rotates' <=> Rotates
      BY <1>1 DEF Rotates
    <2>2. LogTypeOK'
      BY <1>1, <2>1 DEF LogInv, LogTypeOK, LogFilesOf
    <2>3. QED
      BY <1>1, <2>1, <2>2 DEF LogInv
  <1>2. CASE ProcessEnds
    <2>1. logAt' = 0 /\ UNCHANGED <<logConfig, logFiles, clock, written, tied>>
      BY <1>2 DEF ProcessEnds
    <2>2. Rotates' <=> Rotates
      BY <2>1 DEF Rotates
    <2>3. LogTypeOK'
      BY <2>1, <2>2 DEF LogInv, LogTypeOK, LogFilesOf
    <2>4. QED
      BY <2>1, <2>2, <2>3 DEF LogInv
  <1>3. CASE SecondPasses
    <2>1. clock' = clock + 1 /\ UNCHANGED <<logConfig, logFiles, logAt, written, tied>>
      BY <1>3 DEF SecondPasses
    <2>2. Rotates' <=> Rotates
      BY <2>1 DEF Rotates
    <2>3. LogTypeOK'
      BY <2>1, <2>2 DEF LogInv, LogTypeOK, LogFilesOf
    <2>4. TimesArePast(logFiles', clock')
      <3>1. clock \in Nat /\ \A i \in 1..Len(logFiles) : logFiles[i].time \in Nat
        BY FileFields DEF LogInv, LogTypeOK
      <3>2. QED
        BY <2>1, <3>1 DEF LogInv, TimesArePast
    <2>5. QED
      BY <2>1, <2>2, <2>3, <2>4 DEF LogInv
  <1>4. QED
    BY <1>1, <1>2, <1>3, InitKeepsLog, WriteKeepsLog, ConfigureKeepsLog
       DEF LogFilesNext, logFilesVars, InitSyslog, InitEventLog, Configured, WriteToSystem, AddPiece

LEMMA LogIsKept == LogInv => NewestKept /\ FilesBounded /\ RotationFills
  <1> SUFFICES ASSUME LogInv PROVE NewestKept /\ FilesBounded /\ RotationFills
    OBVIOUS
  <1> DEFINE n == Len(logFiles)
  <1>1. /\ LogTypeOK /\ LogFilesOf(logFiles) /\ n \in Nat /\ written \in Nat
        /\ FilesApart(logFiles, written) /\ OnDisk = HeldIn(logFiles)
    BY DEF LogInv, LogTypeOK, LogFilesOf, OnDisk, HeldIn, EntriesIn, Indexes
  <1>2. FilesBounded
    <2>1. Rotates => FilesLimited(logFiles)
      BY DEF LogInv
    <2>2. \A i, j \in 1..n : i # j => EntriesIn(logFiles, i) \cap EntriesIn(logFiles, j) = {}
      BY <1>1 DEF FilesApart
    <2>3. QED
      BY <2>1, <2>2 DEF FilesBounded, FilesLimited, Indexes, EntriesIn
  <1>3. RotationFills
    <2> SUFFICES ASSUME Rotates, ~tied, NEW i \in There, i # logAt, logAt # 0
                 PROVE  logFiles[i].size >= FileLimit
      BY DEF RotationFills
    <2>1. i \in 1..n /\ logFiles[i].there
      BY DEF There, Indexes
    <2>2. logFiles[1].there
      BY <1>1, <2>1 DEF FilesApart
    <2>3. NewestIs(logFiles, logAt, written)
      BY <2>2 DEF LogInv
    <2>4. QED
      BY <2>1, <2>3 DEF NewestIs
  <1>4. NewestKept
    <2> SUFFICES ASSUME ~tied
                 PROVE  /\ \E first \in 1..written + 1 : HeldIn(logFiles) = first..written
                        /\ (n > 1 \/ logConfig.size = 0) => (written > 0 => written \in HeldIn(logFiles))
      BY <1>1 DEF NewestKept
    <2>1. HeldIn(logFiles) \subseteq 1..written
      BY <1>1 DEF FilesApart, HeldIn
    <2>2. CASE n = 0
      <3>1. written = 0 /\ HeldIn(logFiles) = {}
        <4>1. logConfig = NoConfig
          <5>1. Rotates => logConfig.count > 0
            BY DEF Rotates, Limited
          <5>2. logConfig.count \in Nat
            BY <1>1 DEF LogTypeOK
          <5>3. QED
            BY <1>1, <2>2, <5>1, <5>2 DEF LogTypeOK
        <4>2. QED
          BY <1>1, <2>2, <4>1 DEF LogTypeOK, HeldIn
      <3>2. 1 \in 1..written + 1 /\ 1..written = {}
        BY <3>1
      <3>3. QED
        BY <3>1, <3>2
    <2>3. CASE n # 0 /\ ~Rotates
      <3>1. \A i \in 1..n : EntriesIn(logFiles, i) = 1..written
        BY <2>3 DEF LogInv
      <3>2. 1 \in 1..n
        BY <1>1, <2>3
      <3>3. HeldIn(logFiles) = 1..written
        BY <3>1, <3>2 DEF HeldIn
      <3>4. 1 \in 1..written + 1 /\ (written > 0 => written \in 1..written)
        BY <1>1
      <3>5. QED
        BY <3>3, <3>4
    <2>4. CASE n # 0 /\ Rotates
      <3>1. logConfig.size # 0
        <4>1. logConfig.size > 0
          BY <2>4 DEF Rotates, Limited
        <4>2. QED
          BY <4>1
      <3>2. /\ \A x \in HeldIn(logFiles), y \in 1..written : x <= y => y \in HeldIn(logFiles)
            /\ written > 0 /\ n > 1 => written \in HeldIn(logFiles)
        <4>1. CASE logFiles[1].there
          BY <2>4, <4>1 DEF LogInv, NewestIs
        <4>2. CASE ~logFiles[1].there
          <5>1. written = 0
            BY <2>4, <4>2 DEF LogInv
          <5>2. QED
            BY <5>1
        <4>3. QED
          BY <4>1, <4>2
      <3>3. CASE HeldIn(logFiles) = {}
        <4>1. written + 1 \in 1..written + 1 /\ written + 1..written = {}
          BY <1>1
        <4>2. QED
          BY <3>1, <3>2, <3>3, <4>1
      <3>4. CASE HeldIn(logFiles) # {}
        <4> DEFINE first == Min(HeldIn(logFiles))
        <4>1. first \in HeldIn(logFiles) /\ \A y \in HeldIn(logFiles) : first <= y
          <5>1. HeldIn(logFiles) \in SUBSET Nat
            BY <1>1, <2>1
          <5>2. QED
            BY <3>4, <5>1, MinOfNats
        <4> HIDE DEF first
        <4>2. first \in 1..written + 1
          BY <1>1, <2>1, <4>1
        <4>3. \A y : y \in HeldIn(logFiles) <=> y \in first..written
          BY <1>1, <2>1, <3>2, <4>1
        <4>4. HeldIn(logFiles) = first..written
          BY <4>3
        <4>5. QED
          BY <3>1, <3>2, <4>2, <4>4
      <3>5. QED
        BY <3>3, <3>4
    <2>5. QED
      BY <2>2, <2>3, <2>4
  <1>5. QED
    BY <1>2, <1>3, <1>4

-----------------------------------------------------------------------------
(* The log of the system *)

Wants(calls, levels) == {k \in 1..Len(calls) : {calls[k], "all"} \cap levels # {}}
Wanted(log) == Wants(log.asked, log.levels)

Told == {"LOG_WARNING", "LOG_DEBUG", "LOG_INFO", "LOG_ERR", "ERROR", "WARNING", "INFORMATION"}

\* What was told are the answers to the calls whose level is asked for, in order.
SystemInv ==
  /\ systemLog \in [kind : {"none", "syslog", "event"}, levels : SUBSET (LogKinds \cup {"all"}),
                    named : BOOLEAN, options : SUBSET SyslogOptions, ready : BOOLEAN,
                    asked : Seq(LogKinds), told : Seq(Told)]
  /\ Len(systemLog.told) = Cardinality(Wanted(systemLog))
  /\ \A k \in Wanted(systemLog) : systemLog.asked[k] = "err" =>
       /\ Cardinality(Wanted(systemLog) \cap 1..k) \in 1..Len(systemLog.told)
       /\ systemLog.told[Cardinality(Wanted(systemLog) \cap 1..k)] \in {"LOG_ERR", "ERROR"}
  /\ systemLog.options # {} => systemLog.named

LEMMA ErrorsAreTold ==
  ASSUME NEW name, NEW level
  PROVE  /\ Priority(name, level) \in Told
         /\ level = "err" => Priority(name, level) \in {"LOG_ERR", "ERROR"}
  BY DEF Priority, SyslogPriority, EventType, Told

LEMMA WantedIsFinite ==
  ASSUME NEW calls \in Seq(LogKinds), NEW levels
  PROVE  IsFiniteSet(Wants(calls, levels)) /\ Cardinality(Wants(calls, levels)) \in Nat
  <1>1. IsFiniteSet(1..Len(calls))
    BY LenProperties, FS_Interval
  <1>2. QED
    BY <1>1, FS_Subset, FS_CardinalityType DEF Wants

LEMMA OneMoreWanted ==
  ASSUME NEW calls \in Seq(LogKinds), NEW levels, NEW level \in LogKinds
  PROVE  Wants(Append(calls, level), levels) =
           Wants(calls, levels) \cup (IF Selected(level, levels) THEN {Len(calls) + 1} ELSE {})
  <1> DEFINE more == Append(calls, level)
             n == Len(calls)
  <1>1. /\ Len(more) = n + 1 /\ n \in Nat
        /\ more[n + 1] = level /\ \A k \in 1..n : more[k] = calls[k]
    BY AppendProperties, LenProperties
  <1>2. Selected(level, levels) <=> {level, "all"} \cap levels # {}
    BY DEF Selected
  <1>3. \A k : k \in 1..n + 1 <=> k \in 1..n \/ k = n + 1
    BY <1>1
  <1> HIDE DEF more, n
  <1>4. n + 1 \in Wants(more, levels) <=> Selected(level, levels)
    BY <1>1, <1>2, <1>3 DEF Wants
  <1>5. \A k \in 1..n : k \in Wants(more, levels) <=> k \in Wants(calls, levels)
    BY <1>1, <1>3 DEF Wants, n
  <1>6. Wants(more, levels) \subseteq 1..n + 1 /\ Wants(calls, levels) \subseteq 1..n
    BY <1>1 DEF Wants, n
  <1>7. \A k : k \in Wants(more, levels) <=>
          k \in Wants(calls, levels) \/ (k = n + 1 /\ Selected(level, levels))
    <2>1. ~(n + 1 \in 1..n)
      BY <1>1
    <2>2. QED
      BY <1>3, <1>4, <1>5, <1>6, <2>1
  <1>8. QED
    BY <1>7 DEF more, n

LEMMA WriteTellsSystem == SystemInv /\ WriteToSystem => SystemInv'
  <1> SUFFICES ASSUME SystemInv, WriteToSystem PROVE SystemInv'
    OBVIOUS
  <1> DEFINE n == Len(systemLog.asked)
             m == Len(systemLog.told)
             old == Wanted(systemLog)
  <1>1. PICK level \in LogKinds :
          systemLog' =
            [systemLog EXCEPT !.asked = Append(systemLog.asked, level),
                              !.told = IF Selected(level, systemLog.levels)
                                       THEN Append(systemLog.told, Priority(systemLog.kind, level))
                                       ELSE systemLog.told]
    BY DEF WriteToSystem
  <1> DEFINE calls == Append(systemLog.asked, level)
             heard == IF Selected(level, systemLog.levels)
                     THEN Append(systemLog.told, Priority(systemLog.kind, level))
                     ELSE systemLog.told
  <1>2. /\ systemLog.asked \in Seq(LogKinds) /\ systemLog.told \in Seq(Told)
        /\ m = Cardinality(old) /\ m \in Nat /\ n \in Nat
    BY LenProperties DEF SystemInv
  <1>3. calls \in Seq(LogKinds)
    BY <1>2, AppendProperties
  <1>4. /\ heard \in Seq(Told) /\ Len(heard) = (IF Selected(level, systemLog.levels) THEN m + 1 ELSE m)
        /\ \A k \in 1..m : heard[k] = systemLog.told[k]
        /\ Selected(level, systemLog.levels) => heard[m + 1] = Priority(systemLog.kind, level)
    <2>1. Priority(systemLog.kind, level) \in Told
      BY ErrorsAreTold
    <2>2. QED
      BY <1>2, <2>1, AppendProperties
  <1>5. systemLog' = [systemLog EXCEPT !.asked = calls, !.told = heard]
    BY <1>1
  <1>6. calls = Append(systemLog.asked, level)
    OBVIOUS
  <1> HIDE DEF calls, heard
  <1>7. /\ systemLog'.asked = calls /\ systemLog'.told = heard
        /\ systemLog'.levels = systemLog.levels /\ systemLog'.options = systemLog.options
        /\ systemLog'.named = systemLog.named
        /\ systemLog' \in [kind : {"none", "syslog", "event"},
                           levels : SUBSET (LogKinds \cup {"all"}),
                           named : BOOLEAN, options : SUBSET SyslogOptions, ready : BOOLEAN,
                           asked : Seq(LogKinds), told : Seq(Told)]
    BY <1>3, <1>4, <1>5 DEF SystemInv
  <1> DEFINE new == Wanted(systemLog')
  <1>8. /\ \A k \in 1..n : systemLog'.asked[k] = systemLog.asked[k]
        /\ systemLog'.asked[n + 1] = level
        /\ old \subseteq 1..n /\ IsFiniteSet(old)
        /\ new = old \cup (IF Selected(level, systemLog.levels) THEN {n + 1} ELSE {})
    <2>1. /\ \A k \in 1..n : calls[k] = systemLog.asked[k]
          /\ calls[n + 1] = level
      BY <1>2, <1>6, AppendProperties
    <2>2. old \subseteq 1..n /\ IsFiniteSet(old)
      BY <1>2, WantedIsFinite DEF Wanted, Wants
    <2>3. new = Wants(Append(systemLog.asked, level), systemLog.levels)
      BY <1>6, <1>7 DEF Wanted
    <2>4. QED
      BY <1>2, <1>7, <2>1, <2>2, <2>3, OneMoreWanted DEF Wanted
  <1>9. \A k \in old : /\ new \cap 1..k = old \cap 1..k
                       /\ systemLog.asked[k] = "err" =>
                            /\ Cardinality(old \cap 1..k) \in 1..m
                            /\ systemLog.told[Cardinality(old \cap 1..k)] \in {"LOG_ERR", "ERROR"}
    <2> TAKE k \in old
    <2>1. k \in 1..n /\ ~(n + 1 \in 1..k)
      BY <1>2, <1>8
    <2>2. QED
      BY <1>8, <2>1 DEF SystemInv
  <1> HIDE DEF new, old, n, m
  <1>10. CASE Selected(level, systemLog.levels)
    <2>1. new = old \cup {n + 1} /\ ~(n + 1 \in old)
      BY <1>2, <1>8, <1>10
    <2>2. Cardinality(new) = m + 1
      BY <1>2, <1>8, <2>1, FS_AddElement
    <2>3. new \cap 1..(n + 1) = new
      <3>1. \A k \in old : k \in 1..n /\ k \in 1..n + 1
        BY <1>2, <1>8
      <3>2. n + 1 \in 1..n + 1
        BY <1>2
      <3>3. QED
        BY <2>1, <3>1, <3>2
    <2>4. Len(heard) = m + 1
      BY <1>4, <1>10
    <2>5. \A k \in new : systemLog'.asked[k] = "err" =>
            /\ Cardinality(new \cap 1..k) \in 1..Len(heard)
            /\ heard[Cardinality(new \cap 1..k)] \in {"LOG_ERR", "ERROR"}
      <3> TAKE k \in new
      <3> SUFFICES ASSUME systemLog'.asked[k] = "err"
                   PROVE  /\ Cardinality(new \cap 1..k) \in 1..Len(heard)
                          /\ heard[Cardinality(new \cap 1..k)] \in {"LOG_ERR", "ERROR"}
        OBVIOUS
      <3>1. CASE k = n + 1
        <4>1. Cardinality(new \cap 1..k) = m + 1
          BY <2>2, <2>3, <3>1
        <4>2. heard[m + 1] \in {"LOG_ERR", "ERROR"}
          BY <1>4, <1>8, <1>10, <3>1, ErrorsAreTold
        <4>3. QED
          BY <1>2, <2>4, <4>1, <4>2
      <3>2. CASE k \in old
        <4>1. systemLog.asked[k] = "err"
          BY <1>8, <3>2
        <4> DEFINE c == Cardinality(old \cap 1..k)
        <4>2. c \in 1..m /\ systemLog.told[c] \in {"LOG_ERR", "ERROR"}
          BY <1>9, <3>2, <4>1
        <4>3. Cardinality(new \cap 1..k) = c
          BY <1>9, <3>2
        <4> HIDE DEF c
        <4>4. QED
          BY <1>2, <1>4, <2>4, <4>2, <4>3
      <3>3. QED
        BY <2>1, <3>1, <3>2
    <2>6. QED
      BY <1>2, <1>7, <2>2, <2>4, <2>5 DEF SystemInv, new
  <1>11. CASE ~Selected(level, systemLog.levels)
    <2>1. new = old /\ Len(heard) = m
      BY <1>4, <1>8, <1>11
    <2>2. \A k \in new : systemLog'.asked[k] = "err" =>
            /\ Cardinality(new \cap 1..k) \in 1..Len(heard)
            /\ heard[Cardinality(new \cap 1..k)] \in {"LOG_ERR", "ERROR"}
      <3> TAKE k \in new
      <3>1. systemLog'.asked[k] = systemLog.asked[k]
        BY <1>8, <2>1
      <3> DEFINE c == Cardinality(old \cap 1..k)
      <3>2. systemLog.asked[k] = "err" => c \in 1..m /\ systemLog.told[c] \in {"LOG_ERR", "ERROR"}
        BY <1>9, <2>1
      <3> HIDE DEF c
      <3>3. QED
        BY <1>4, <2>1, <3>1, <3>2 DEF c
    <2>3. Cardinality(new) = m
      BY <1>2, <2>1
    <2>4. QED
      BY <1>7, <2>1, <2>2, <2>3 DEF SystemInv, new
  <1>12. QED
    BY <1>10, <1>11

LEMMA ConfigureTellsSystem ==
  SystemInv /\ (InitSyslog \/ InitEventLog) => SystemInv'
  <1> SUFFICES ASSUME SystemInv, InitSyslog \/ InitEventLog PROVE SystemInv'
    OBVIOUS
  <1>1. PICK name \in {"syslog", "event"}, levels \in SUBSET (LogKinds \cup {"all"}),
             named \in BOOLEAN, options \in SUBSET SyslogOptions, ready \in BOOLEAN :
          /\ systemLog' = [NoSystemLog EXCEPT !.kind = name, !.levels = levels, !.named = named,
                                              !.options = options, !.ready = ready]
          /\ options # {} => named
    <2>1. CASE InitSyslog
      <3>1. PICK levels \in SUBSET (LogKinds \cup {"all"}), server \in BOOLEAN,
                 said \in [SyslogOptions -> {"absent", "true", "false"}] :
              Configured("syslog", levels, server,
                         {o \in SyslogOptions : server /\ said[o] = "true"},
                         levels # {} \/ server \/ \E o \in SyslogOptions : said[o] # "absent")
        BY <2>1 DEF InitSyslog
      <3> DEFINE options == {o \in SyslogOptions : server /\ said[o] = "true"}
                 ready == levels # {} \/ server \/ \E o \in SyslogOptions : said[o] # "absent"
      <3>2. options \in SUBSET SyslogOptions /\ (options # {} => server) /\ ready \in BOOLEAN
        OBVIOUS
      <3>3. Configured("syslog", levels, server, options, ready)
        BY <3>1
      <3> HIDE DEF options, ready
      <3>4. QED
        BY <3>2, <3>3 DEF Configured
    <2>2. CASE InitEventLog
      <3>1. PICK levels \in SUBSET (LogKinds \cup {"all"}), values \in SUBSET {"server", "source", "dll"} :
              Configured("event", levels, values = {"server", "source", "dll"}, {},
                         values = {"server", "source", "dll"})
        BY <2>2 DEF InitEventLog
      <3> DEFINE whole == values = {"server", "source", "dll"}
      <3>2. whole \in BOOLEAN /\ Configured("event", levels, whole, {}, whole)
        BY <3>1
      <3> HIDE DEF whole
      <3>3. QED
        BY <3>2 DEF Configured
    <2>3. QED
      BY <2>1, <2>2
  <1>2. NoSystemLog = [kind |-> "none", levels |-> {}, named |-> FALSE, options |-> {},
                       ready |-> FALSE, asked |-> <<>>, told |-> <<>>]
    BY DEF NoSystemLog
  <1>3. <<>> \in Seq(LogKinds) /\ <<>> \in Seq(Told) /\ Len(<<>>) = 0
    BY EmptySeq
  <1>4. /\ systemLog'.asked = <<>> /\ systemLog'.told = <<>>
        /\ systemLog'.options = options /\ systemLog'.named = named
        /\ systemLog' \in [kind : {"none", "syslog", "event"},
                           levels : SUBSET (LogKinds \cup {"all"}),
                           named : BOOLEAN, options : SUBSET SyslogOptions, ready : BOOLEAN,
                           asked : Seq(LogKinds), told : Seq(Told)]
    BY <1>1, <1>2, <1>3
  <1>5. Wanted(systemLog') = {} /\ Cardinality({}) = 0
    BY <1>3, <1>4, FS_EmptySet DEF Wanted, Wants
  <1>6. QED
    BY <1>1, <1>3, <1>4, <1>5 DEF SystemInv

LEMMA SystemInvInit == LogFilesInit => SystemInv
  <1> SUFFICES ASSUME LogFilesInit PROVE SystemInv
    OBVIOUS
  <1>1. systemLog = [kind |-> "none", levels |-> {}, named |-> FALSE, options |-> {},
                     ready |-> FALSE, asked |-> <<>>, told |-> <<>>]
    BY DEF LogFilesInit, NoSystemLog
  <1>2. <<>> \in Seq(LogKinds) /\ <<>> \in Seq(Told) /\ Len(<<>>) = 0
    BY EmptySeq
  <1>3. Wanted(systemLog) = {} /\ Cardinality({}) = 0
    BY <1>1, <1>2, FS_EmptySet DEF Wanted, Wants
  <1>4. QED
    BY <1>1, <1>2, <1>3 DEF SystemInv

LEMMA SystemStep == SystemInv /\ [LogFilesNext]_logFilesVars => SystemInv'
  <1> SUFFICES ASSUME SystemInv, [LogFilesNext]_logFilesVars PROVE SystemInv'
    OBVIOUS
  <1>1. CASE UNCHANGED systemLog
    BY <1>1 DEF SystemInv, Wanted, Wants
  <1>2. QED
    BY <1>1, WriteTellsSystem, ConfigureTellsSystem
       DEF LogFilesNext, logFilesVars, Configure, InitLog, WriteLogEntry, ProcessEnds,
           SecondPasses, AddPiece

LEMMA SystemHears == SystemInv => SystemIsTold
  <1> SUFFICES ASSUME SystemInv PROVE SystemIsTold
    OBVIOUS
  <1>1. /\ DOMAIN systemLog.asked = 1..Len(systemLog.asked)
        /\ DOMAIN systemLog.told = 1..Len(systemLog.told)
    BY LenProperties DEF SystemInv
  <1>2. QED
    BY <1>1 DEF SystemInv, SystemIsTold, Wanted, Wants

\* Whatever is written, and however often the process begins again: what is on
\* the disk is what was written last, unless a restart had to choose among files
\* of one second; no file is longer than the limit and an entry, only full ones
\* are left behind, and the log of the system is told what was asked for.
THEOREM LogsAreKept ==
  LogFilesSpec => [](NewestKept /\ FilesBounded /\ RotationFills /\ SystemIsTold)
  <1>1. LogFilesInit => LogInv /\ SystemInv
    BY LogInvInit, SystemInvInit
  <1>2. LogInv /\ SystemInv /\ [LogFilesNext]_logFilesVars => (LogInv /\ SystemInv)'
    BY LogStep, SystemStep
  <1>3. LogInv /\ SystemInv => NewestKept /\ FilesBounded /\ RotationFills /\ SystemIsTold
    BY LogIsKept, SystemHears
  <1>4. QED
    BY <1>1, <1>2, <1>3, PTL DEF LogFilesSpec

-----------------------------------------------------------------------------
(* The objects and the logs of a run, whichever it is about *)

\* What the run checks of components, paths, counters, references, conduits,
\* libraries and the names of semaphores, for all values of the constants.
THEOREM ObjectsAreExact == Spec => []ObjectsExact
  <1>1. Init => /\ CompInit /\ PathInit /\ CounterInit
                /\ RefInit /\ ConduitInit /\ DllInit /\ NamesInit
    BY DEF Init
  <1>2. [Next]_<<subject, wordVars, fileSystemVars, objectVars>>
          => /\ [CompNext]_compVars /\ [PathNext]_pathVars /\ [CounterNext]_counterVars
             /\ [RefNext]_refVars /\ [ConduitNext]_conduitVars
             /\ [DllNext]_dllVars /\ [NamesNext]_nameVars
    BY DEF Next, wordVars, fileSystemVars, objectVars
  <1>3. Spec => /\ CompSpec /\ PathSpec /\ CounterSpec
                /\ RefSpec /\ ConduitSpec /\ DllSpec /\ NamesSpec
    BY <1>1, <1>2, PTL
       DEF Spec, CompSpec, PathSpec, CounterSpec, RefSpec, ConduitSpec, DllSpec, NamesSpec
  <1>4. /\ PeersFound /\ ClosedOnce /\ PathsUnderRoot /\ CountersSurvive
        /\ DeletedWhenFree /\ EachCalledOnce /\ OpensAreLoaders /\ NamesSound
        => ObjectsExact
    BY DEF ObjectsExact
  <1>5. QED
    BY <1>3, <1>4, ComponentsAreSafe, PathsAreRooted, CountersAreKept, RefIsSafe,
       ListenersAreCalled, LibraryIsSafe, NamesAreSafe, PTL

\* What the run checks of the logs, for all values of the constants.
THEOREM LogsAreExact == Spec => []LogsExact
  <1>1. Init => LogFilesInit
    BY DEF Init
  <1>2. [Next]_<<subject, wordVars, fileSystemVars, objectVars>> => [LogFilesNext]_logFilesVars
    BY DEF Next, wordVars, fileSystemVars, objectVars
  <1>3. Spec => LogFilesSpec
    BY <1>1, <1>2, PTL DEF Spec, LogFilesSpec
  <1>4. NewestKept /\ FilesBounded /\ RotationFills /\ SystemIsTold => LogsExact
    BY DEF LogsExact
  <1>5. QED
    BY <1>3, <1>4, LogsAreKept, PTL
=============================================================================
