---------------------------- MODULE ClosableQueue ----------------------------
(***************************************************************************)
(* What a ThdQueue promises its users (src/h/thd/ThdQueue.h): one shared   *)
(* queue, from which every item is received at most once, by one thread,   *)
(* in the order of the queue; it can be closed, once and for good, and a   *)
(* closed queue neither accepts nor delivers anything.                     *)
(***************************************************************************)
EXTENDS Naturals, Sequences, SequencesExt

CONSTANTS
  Threads,  \* the users of the queue
  Items,    \* what they exchange: numbers, the priorities
  NoItem    \* the value of an object nothing was received into

VARIABLES
  isFifo,  \* arrival order, or the greatest item first
  queue,   \* the items, oldest first
  closed,
  got      \* the item each thread received last

cqVars == <<isFifo, queue, closed, got>>

\* The place of the item that is received next: front() or top().
FrontIndex(q) ==
  IF isFifo THEN 1
  ELSE CHOOSE i \in 1..Len(q) : \A j \in 1..Len(q) : q[j] <= q[i]

Init ==
  /\ isFifo \in BOOLEAN
  /\ queue = <<>>
  /\ closed = FALSE
  /\ got = [t \in Threads |-> NoItem]

Put(x) ==
  /\ ~closed
  /\ queue' = Append(queue, x)
  /\ UNCHANGED <<isFifo, closed, got>>

Take(t) ==
  /\ ~closed
  /\ queue # <<>>
  /\ got' = [got EXCEPT ![t] = queue[FrontIndex(queue)]]
  /\ queue' = RemoveAt(queue, FrontIndex(queue))
  /\ UNCHANGED <<isFifo, closed>>

Close ==
  /\ ~closed
  /\ closed' = TRUE
  /\ UNCHANGED <<isFifo, queue, got>>

Next ==
  \/ \E x \in Items : Put(x)
  \/ \E t \in Threads : Take(t)
  \/ Close

Spec == Init /\ [][Next]_cqVars
=============================================================================
