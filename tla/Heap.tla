-------------------------------- MODULE Heap --------------------------------
(***************************************************************************)
(* Heap<Key, Type> (src/h/util/UtilHeapInlines.h): a binary heap in a      *)
(* std::vector and a std::map from each key to the iterator of its entry.  *)
(*                                                                         *)
(* Positions are counted from 1.  An iterator is a position and the        *)
(* capacity of the buffer it points into: a vector moves its elements when *)
(* it grows, it never shrinks, and an iterator into the old buffer is      *)
(* dangling.  Values are compared by <, as the TypeCompare of the users.   *)
(***************************************************************************)
EXTENDS Naturals, Sequences, SequencesExt, Functions, TLC

CONSTANTS
  Keys,
  Values,
  GrowSize,  \* GROW_SIZE, the capacity the vector starts with
  NoEntry    \* nothing was popped yet

ASSUME HeapAssumption ==
  /\ Values \subseteq Nat
  /\ GrowSize \in Nat \ {0}

VARIABLES
  heap,      \* _heap
  lookup,    \* _lookup
  capacity,  \* _heap.capacity()
  popped,    \* what pop returned last
  loop,      \* "none", or the loop that runs: "down" or "up"
  iter,      \* its downIter or upIter, as a position
  item,      \* the key that heapify or insert was called for
  again      \* how often build still calls heapify

loopVars == <<loop, iter, item>>
heapVars == <<heap, lookup, capacity, popped, loop, iter, item, again>>

HeapInit ==
  /\ heap = <<>>
  /\ lookup = [k \in {} |-> 0]
  /\ capacity = GrowSize
  /\ popped = NoEntry
  /\ loop = "none" /\ iter = 0 /\ item = NoEntry
  /\ again = 0

\* No operation is under way.
Settled == loop = "none" /\ again = 0

-----------------------------------------------------------------------------
(* The private members.  The loops of down and up take a step for each     *)
(* iteration, and nothing else is done to the heap before they are over.   *)

Less(a, b) == a.val < b.val

\* exchange swaps two entries and the iterators of their keys.
Exchange(i, j) ==
  /\ heap' = [heap EXCEPT ![i] = heap[j], ![j] = heap[i]]
  /\ lookup' = [lookup EXCEPT ![heap[i].key] = lookup[heap[j].key],
                              ![heap[j].key] = lookup[heap[i].key]]

\* heapify begins with down.
Heapify(k, pos) == loop' = "down" /\ iter' = pos /\ item' = k

\* Mutant of GoesUp: heapify only lets an entry sink.
StaysDown == loop' = "none" /\ UNCHANGED <<iter, item>>

\* heapify goes on with up, from where _lookup says the key is.
GoesUp == loop' = "up" /\ iter' = lookup[item].pos /\ UNCHANGED item

\* An iteration of down: the child that is taken is the right one when the two
\* are equal, and a child that equals its parent is exchanged with it.
Left(i) == IF 2 * i <= Len(heap) /\ ~Less(heap[2 * i], heap[i]) THEN 2 * i ELSE i
Largest(i) ==
  IF 2 * i + 1 <= Len(heap) /\ ~Less(heap[2 * i + 1], heap[Left(i)]) THEN 2 * i + 1 ELSE Left(i)

Down ==
  /\ loop = "down"
  /\ \/ /\ Largest(iter) # iter
        /\ Exchange(iter, Largest(iter))
        /\ iter' = Largest(iter)
        /\ UNCHANGED <<loop, item>>
     \/ /\ Largest(iter) = iter
        /\ GoesUp
        /\ UNCHANGED <<heap, lookup>>
  /\ UNCHANGED <<capacity, popped, again>>

\* An iteration of up.
Rises == iter > 1 /\ Less(heap[iter \div 2], heap[iter])

Up ==
  /\ loop = "up"
  /\ \/ /\ Rises
        /\ Exchange(iter, iter \div 2)
        /\ iter' = iter \div 2
        /\ UNCHANGED <<loop, item>>
     \/ /\ ~Rises
        /\ loop' = "none"
        /\ UNCHANGED <<heap, lookup, iter, item>>
  /\ UNCHANGED <<capacity, popped, again>>

\* remove(iterator): the last entry takes the place of the removed one.
Removed(k) ==
  LET last == heap[Len(heap)]
      place == lookup[k]
  IN IF last.key = k
     THEN /\ heap' = Front(heap)
          /\ lookup' = Restrict(lookup, DOMAIN lookup \ {k})
          /\ UNCHANGED loopVars
     ELSE /\ heap' = Front([heap EXCEPT ![place.pos] = last])
          /\ lookup' = Restrict([lookup EXCEPT ![last.key] = place], DOMAIN lookup \ {k})
          /\ Heapify(last.key, place.pos)

KeysOf(h) == {h[i].key : i \in DOMAIN h}

\* The iterators of all entries of a vector, in a buffer of this capacity.
Iterators(h, cap) ==
  [k \in KeysOf(h) |-> [pos |-> CHOOSE i \in DOMAIN h : h[i].key = k, cap |-> cap]]

\* insert: all iterators are renewed when the vector had to grow.
Inserted(entry) ==
  LET longer == Append(heap, entry)
      size == Len(heap) + 1
  IN /\ heap' = longer
     /\ capacity' = IF Len(heap) = capacity THEN 2 * capacity ELSE capacity
     /\ lookup' = IF Len(heap) = capacity THEN Iterators(longer, 2 * capacity)
                  ELSE [k \in DOMAIN lookup \cup {entry.key} |->
                          IF k = entry.key THEN [pos |-> size, cap |-> capacity] ELSE lookup[k]]
     /\ loop' = "up" /\ iter' = size /\ item' = entry.key

-----------------------------------------------------------------------------
(* The operations *)

\* add and push: an entry whose key is already there is not added.
AddKey(k, v) ==
  /\ Settled
  /\ k \notin DOMAIN lookup
  /\ Inserted([key |-> k, val |-> v])
  /\ UNCHANGED <<popped, again>>

RemoveKey(k) ==
  /\ Settled
  /\ k \in DOMAIN lookup
  /\ Removed(k)
  /\ UNCHANGED <<capacity, popped, again>>

Pop ==
  /\ Settled
  /\ heap # <<>>
  /\ popped' = Head(heap)
  /\ Removed(Head(heap).key)
  /\ UNCHANGED <<capacity, again>>

\* A user changes a value through the pointer of find and calls heapify.
Change(k, v) ==
  /\ Settled
  /\ k \in DOMAIN lookup
  /\ heap' = [heap EXCEPT ![lookup[k].pos].val = v]
  /\ Heapify(k, lookup[k].pos)
  /\ UNCHANGED <<lookup, capacity, popped, again>>

\* build: its loop counts the size down and never moves its index, which with
\* less than two entries is before the first one.
Build ==
  /\ Settled
  /\ Len(heap) >= 2
  /\ again' = Len(heap)
  /\ UNCHANGED <<heap, lookup, capacity, popped, loopVars>>

BuildAgain ==
  /\ loop = "none" /\ again > 0
  /\ again' = again - 1
  /\ LET k == heap[Len(heap) \div 2].key IN Heapify(k, lookup[k].pos)
  /\ UNCHANGED <<heap, lookup, capacity, popped>>

HeapNext ==
  \/ \E k \in Keys, v \in Values : AddKey(k, v) \/ Change(k, v)
  \/ \E k \in Keys : RemoveKey(k)
  \/ Pop
  \/ Build \/ BuildAgain
  \/ Down \/ Up

HeapSpec == HeapInit /\ [][HeapNext]_heapVars

\* The keys are only compared for equality.
KeySymmetry == Permutations(Keys)

-----------------------------------------------------------------------------
(* Properties *)

\* check_heap (UtilHeapInlines.h:336), which a debug build asserts after each
\* operation: no entry is greater than its parent.  remove and heapify rely on
\* sifting one entry both ways being enough.
HeapOrder ==
  loop = "none" => \A i \in 2..Len(heap) : ~Less(heap[i \div 2], heap[i])

\* "ASSERT_D( (*deleteIter).second->first == key )" (UtilHeapInlines.h:139):
\* every iterator kept in the map points to the entry of its key, in the buffer
\* the vector has now, and every entry has one.
LookupExact ==
  /\ DOMAIN lookup = KeysOf(heap)
  /\ Cardinality(DOMAIN lookup) = Len(heap)
  /\ \A k \in DOMAIN lookup :
       /\ lookup[k].cap = capacity
       /\ lookup[k].pos \in DOMAIN heap
       /\ heap[lookup[k].pos].key = k

\* Whatever the sequence of operations, the heap is a map from which the
\* greatest value is popped.  The loops do not change it.
MapOf(h) == [k \in KeysOf(h) |-> h[CHOOSE i \in DOMAIN h : h[i].key = k].val]
AsMap == MapOf(heap)
PM == INSTANCE PriorityMap WITH entries <- AsMap
ImplementsPriorityMap == PM!Spec

\* A loop that goes on has come nearer to the end of the vector, or to the head.
LoopMoves ==
  /\ loop = "down" /\ loop' = "down" => iter' > iter /\ iter' <= Len(heap)
  /\ loop = "up" /\ loop' = "up" => iter' < iter /\ iter' >= 1

\* Between operations the entries are in order, the iterators are always exact,
\* and the loops end.
HeapCorrect ==
  [](HeapOrder /\ LookupExact) /\ [][LoopMoves]_heapVars /\ ImplementsPriorityMap
=============================================================================
