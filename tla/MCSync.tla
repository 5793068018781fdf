------------------------------- MODULE MCSync -------------------------------
(* One object of a synchronisation class, used by a few threads: a          *)
(* semaphore, an event or a read-write lock.  The three classes share       *)
(* nothing; an execution is about one of them, and the others stay as they  *)
(* were constructed.                                                        *)
EXTENDS ThdSemaphore, ThdEvent, ThdRWLock

VARIABLE class

Classes == {"ThdSemaphore", "ThdEvent", "ThdRWLock"}

Init ==
  /\ class \in Classes
  /\ SemInit
  /\ EvInit
  /\ RWInit
  /\ class # "ThdEvent" => manualReset
  /\ class # "ThdRWLock" => autoLocks

Next ==
  \/ class = "ThdSemaphore" /\ SemNext /\ UNCHANGED <<class, evVars, rwVars>>
  \/ class = "ThdEvent" /\ EvNext /\ UNCHANGED <<class, semVars, rwVars>>
  \/ class = "ThdRWLock" /\ RWNext /\ UNCHANGED <<class, semVars, evVars>>

Spec == Init /\ [][Next]_<<class, semVars, evVars, rwVars>>

\* No thread is inside an operation of an object that an execution is not about.
FairSpec ==
  /\ Spec
  /\ \A t \in Threads : SemThreadFairness(t) /\ EvFairness(t) /\ RWFairness(t)

\* Nobody waits for ever: abandon returns, a waiter meets the signal that is
\* there for it, and while somebody waits for a lock somebody gets in.
SyncProgress == AbandonReturns /\ WaiterMeetsSignal /\ SomebodyEnters
=============================================================================
