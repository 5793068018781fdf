----------------------------- MODULE MCRpcParts -----------------------------
(* The parts of RPC around the server: the server of contents with its      *)
(* transports, the client's calls and the dispatcher.  An execution is      *)
(* about one of them, and the others stay as they were constructed.         *)
EXTENDS ContentServer, RpcClient, RpcDispatch

VARIABLE part

Parts == {"ContentServer", "RpcClient", "RpcDispatch"}

TwoNames == [t \in {"t1", "t2"} |-> IF t = "t1" THEN "a" ELSE "b"]

Init ==
  /\ part \in Parts
  /\ ContentInit
  /\ ClientInit
  /\ part # "RpcClient" => \A c \in Callers : side[c] = "client"
  /\ DispatchInit

Next ==
  /\ UNCHANGED part
  /\ \/ part = "ContentServer" /\ ContentNext /\ UNCHANGED <<clientVars, dispatchVars>>
     \/ part = "RpcClient" /\ ClientNext /\ UNCHANGED <<contentVars, dispatchVars>>
     \/ part = "RpcDispatch" /\ DispatchNext /\ UNCHANGED <<contentVars, clientVars>>

Spec == Init /\ [][Next]_<<part, contentVars, clientVars, dispatchVars>>

FairSpec == Spec /\ ContentFairness /\ ClientFairness /\ DispatchFairness

\* The owner's commands, the calls and the dispatches return.
PartsProgress == OwnerReturns /\ CallsReturn /\ AbortReturns /\ DispatchEnds
=============================================================================
