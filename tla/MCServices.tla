----------------------------- MODULE MCServices -----------------------------
(* The services a program built on the library runs in threads of its own:  *)
(* the thread pool, the logger and a client that posts over HTTP.  An       *)
(* execution is about one of them, and the others stay as they were         *)
(* constructed.                                                             *)
EXTENDS ThdPool, StdLogger, NetHttpPost

VARIABLE service

Services == {"ThdPool", "StdLogger", "NetHttpPost"}

ThreeMessages ==
  {[id |-> 1, level |-> 0, inResource |-> FALSE],
   [id |-> 2, level |-> 1, inResource |-> TRUE],
   [id |-> 3, level |-> 2, inResource |-> TRUE]}

Init ==
  /\ service \in Services
  /\ PoolInit
  /\ LogInit
  /\ NetInit
  /\ maxSize \in IF service = "ThdPool" THEN {0, MaxPoolSize} ELSE {0}
  /\ service # "StdLogger" => logLevel = 1 /\ logThread = "none"

Next ==
  /\ UNCHANGED service
  /\ \/ service = "ThdPool" /\ PoolNext /\ UNCHANGED <<logVars, netVars>>
     \/ service = "StdLogger" /\ LogNext /\ UNCHANGED <<poolVars, netVars>>
     \/ service = "NetHttpPost" /\ NetNext /\ UNCHANGED <<poolVars, logVars>>

Spec == Init /\ [][Next]_<<service, poolVars, logVars, netVars>>

FairSpec == Spec /\ PoolFairness /\ LogFairness /\ NetFairness

\* What is handed to a service gets done: a runner of a pool runs, a message
\* is written, a request returns.
ServicesProgress == PooledRuns /\ SubmittedIsWritten /\ PostReturns
=============================================================================
