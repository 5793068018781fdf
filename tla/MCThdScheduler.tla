--------------------------- MODULE MCThdScheduler ---------------------------
(* Instances of ThdScheduler for TLC: two items, one of which is preferred  *)
(* when both are due at one time, or which are then equal for the heap.     *)
EXTENDS ThdScheduler

CONSTANTS a, b

TwoItems == {a, b}
TwoPriorities == {[x \in TwoItems |-> 0],
                  [x \in TwoItems |-> IF x = a THEN 1 ELSE 0]}
OnePriority == {[x \in TwoItems |-> 0]}
=============================================================================
