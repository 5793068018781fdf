----------------------------- MODULE EventObject -----------------------------
(***************************************************************************)
(* What a ThdEvent promises (src/h/thd/ThdEvent.h): a flag that threads    *)
(* wait for.  A thread returns with success only while the flag is up; an  *)
(* automatic event is taken down by the thread it releases, a manual one   *)
(* stays up until somebody resets it.                                      *)
(***************************************************************************)
CONSTANT Threads

VARIABLES
  manualReset,
  signalled,
  waiting      \* the threads that wait for the flag

eoVars == <<manualReset, signalled, waiting>>

Init ==
  /\ manualReset \in BOOLEAN
  /\ signalled = FALSE
  /\ waiting = {}

Wait(t) ==
  /\ ~signalled
  /\ waiting' = waiting \cup {t}
  /\ UNCHANGED <<manualReset, signalled>>

\* With success; a thread that finds the flag up never waited.
Release(t) ==
  /\ signalled
  /\ signalled' = manualReset
  /\ waiting' = waiting \ {t}
  /\ UNCHANGED manualReset

\* A timeout takes nothing.
GiveUp(t) ==
  /\ waiting' = waiting \ {t}
  /\ UNCHANGED <<manualReset, signalled>>

Set ==
  /\ signalled' = TRUE
  /\ UNCHANGED <<manualReset, waiting>>

Clear ==
  /\ signalled' = FALSE
  /\ UNCHANGED <<manualReset, waiting>>

Next ==
  \/ \E t \in Threads : Wait(t) \/ Release(t) \/ GiveUp(t)
  \/ Set
  \/ Clear

Spec == Init /\ [][Next]_eoVars
=============================================================================
