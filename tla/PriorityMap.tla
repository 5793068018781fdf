---------------------------- MODULE PriorityMap ----------------------------
(***************************************************************************)
(* What a Heap promises its users (src/h/util/UtilHeap.h): a map from keys *)
(* to values from which the greatest value can be popped.                  *)
(***************************************************************************)
EXTENDS Naturals, Functions

CONSTANTS Keys, Values, NoEntry

VARIABLES
  entries,  \* the map
  popped    \* the entry popped last

pmVars == <<entries, popped>>

Init ==
  /\ entries = [k \in {} |-> 0]
  /\ popped = NoEntry

\* An entry is added, or given another value.
Put(k, v) ==
  /\ entries' = [x \in DOMAIN entries \cup {k} |-> IF x = k THEN v ELSE entries[x]]
  /\ UNCHANGED popped

Drop(k) ==
  /\ k \in DOMAIN entries
  /\ entries' = Restrict(entries, DOMAIN entries \ {k})
  /\ UNCHANGED popped

Pop(k) ==
  /\ k \in DOMAIN entries
  /\ \A x \in DOMAIN entries : entries[x] <= entries[k]
  /\ entries' = Restrict(entries, DOMAIN entries \ {k})
  /\ popped' = [key |-> k, val |-> entries[k]]

Next ==
  \E k \in Keys :
    \/ \E v \in Values : Put(k, v)
    \/ Drop(k)
    \/ Pop(k)

Spec == Init /\ [][Next]_pmVars
=============================================================================
