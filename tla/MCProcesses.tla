----------------------------- MODULE MCProcesses -----------------------------
(* How what runs starts and ends: the threads of the library, in both       *)
(* builds of it, and the program itself as a daemon of Unix or a service of *)
(* Windows.  An execution is about one of them, and the others stay as they *)
(* were constructed.                                                        *)
EXTENDS ThdThread, UnixDaemon, NTService

VARIABLE process

Init ==
  /\ process \in {"ThdThread", "UnixDaemon", "NTService"}
  /\ ThreadInit
  /\ DaemonInit
  /\ NTInit
  /\ process # "ThdThread" => ~joins
  /\ process # "UnixDaemon" => ~background /\ ~joinsSignals /\ ~remembers
  /\ process # "NTService" => ~ntService.remembers

Next ==
  /\ UNCHANGED process
  /\ \/ process = "ThdThread" /\ ThreadNext /\ UNCHANGED <<daemonVars, ntVars>>
     \/ process = "UnixDaemon" /\ DaemonNext /\ UNCHANGED <<threadVars, ntVars>>
     \/ process = "NTService" /\ NTNext /\ UNCHANGED <<threadVars, daemonVars>>

Spec == Init /\ [][Next]_<<process, threadVars, daemonVars, ntVars>>

DaemonFairness ==
  /\ WF_daemonVars(process = "UnixDaemon" /\ DaemonMainGoesOn)
  /\ WF_daemonVars(process = "UnixDaemon" /\ SigStep)

NTFairness ==
  /\ WF_ntVars(process = "NTService" /\ NTMainGoesOn)
  /\ WF_ntVars(process = "NTService" /\ WatcherStep)
  /\ WF_ntVars(process = "NTService" /\ HandlerStep)

\* The threads of the process an execution is about run.  (A thread nobody
\* creates has no step to take; a daemon and a service start by themselves.)
FairSpec ==
  /\ Spec
  /\ \A t \in Threads : ThreadFairness(t)
  /\ DaemonFairness
  /\ NTFairness

\* The creation of a thread returns and a released thread runs to its end; a
\* daemon that agreed to stop ends, and a stopped service says so.
ProcessesProgress == CreateReturns /\ ReleasedRuns /\ StopEnds /\ StopIsTold
=============================================================================
