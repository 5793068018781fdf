---------------------------- MODULE RpcDispatch ----------------------------
(***************************************************************************)
(* RpcDispatcher (src/src/rpc/RpcDispatcher.cpp) and RpcInterface          *)
(* (src/src/rpc/RpcInterface.cpp): worker threads dispatch the             *)
(* instructions of a request document, one after the other, to the methods *)
(* of the interfaces of a tenant, while other threads add and remove       *)
(* interfaces and methods.  Reference counts keep what a worker has looked *)
(* up; objects are the pointers, names what they are found by.             *)
(***************************************************************************)
EXTENDS Naturals, Sequences, FiniteSets, FiniteSetsExt

CONSTANTS
  DispatchWorkers,
  Tenants,       \* with the default one
  DefaultTenant,
  Interfaces,    \* interface objects; all have the same name
  Methods,       \* method objects; all have the same name
  NoObject,
  MaxDispatches  \* bound: instructions of a request, and calls at all

ASSUME RpcDispatchAssumption ==
  /\ DefaultTenant \in Tenants
  /\ NoObject \notin Interfaces \cup Methods /\ Interfaces \cap Methods = {}
  /\ MaxDispatches \in Nat

VARIABLES
  tenants,     \* _tenants: for each tenant that has a map the interface in it
  methods,     \* _methods of each interface
  lost,        \* objects whose last reference is gone
  dispatching, \* where each worker is
  request,     \* the instructions it was given
  at,          \* the one it works on
  tenancy,     \* of the request
  callee,      \* the interface it looked up
  method,      \* the method it looked up
  results,     \* what the response document says so far
  calls        \* history: the methods called, for each worker and instruction

dispatchVars == <<tenants, methods, lost, dispatching, request, at, tenancy, callee,
                  method, results, calls>>

(***************************************************************************)
(* An instruction: it has attributes or none, an object that is named or   *)
(* not, and is known or not; and a method that is known or not.            *)
(***************************************************************************)
Instructions == {"no attributes", "no object", "other object", "other method", "call"}

DispatchInit ==
  /\ tenants = [t \in {} |-> NoObject]
  /\ methods = [i \in Interfaces |-> NoObject]
  /\ lost = {}
  /\ dispatching = [w \in DispatchWorkers |-> "idle"]
  /\ request = [w \in DispatchWorkers |-> <<>>]
  /\ at = [w \in DispatchWorkers |-> 0]
  /\ tenancy = [w \in DispatchWorkers |-> DefaultTenant]
  /\ callee = [w \in DispatchWorkers |-> NoObject]
  /\ method = [w \in DispatchWorkers |-> NoObject]
  /\ results = [w \in DispatchWorkers |-> <<>>]
  /\ calls = {}

\* What holds a reference to an interface: the maps and the workers; to a
\* method: the interfaces that live and the workers.  An interface that was not
\* added yet belongs to who makes it.
HeldInterfaces(maps, held) == {maps[t] : t \in DOMAIN maps} \cup {held[w] : w \in DispatchWorkers}

HeldMethods(living, table, held) ==
  {table[i] : i \in living} \cup {held[w] : w \in DispatchWorkers}

\* An object that was referenced, and is not any more.
Release ==
  LET unheld == HeldInterfaces(tenants, callee) \ HeldInterfaces(tenants', callee')
      unused == HeldMethods(Interfaces \ lost, methods, method)
                  \ HeldMethods(Interfaces \ (lost \cup unheld), methods', method')
  IN lost' = lost \cup ((unheld \cup unused) \ {NoObject})

\* The map of the tenant, or the default one.
TenantOf(t) == IF t \in DOMAIN tenants THEN t ELSE DefaultTenant

-----------------------------------------------------------------------------
(* Administration *)

\* A map is made for a tenant that had none: from then on the default map is
\* not looked at for it.
AddInterface(t, i) ==
  /\ i \notin lost
  /\ tenants' = [u \in DOMAIN tenants \cup {t} |-> IF u = t THEN i ELSE tenants[u]]
  /\ UNCHANGED <<methods, dispatching, request, at, tenancy, callee, method, results, calls>>
  /\ Release

\* A tenant without a map: the interface of the default one is removed.  Before
\* the first addInterface the iterator at the end is used, which is undefined.
RemoveInterface(t) ==
  /\ TenantOf(t) \in DOMAIN tenants
  /\ tenants' = [tenants EXCEPT ![TenantOf(t)] = NoObject]
  /\ UNCHANGED <<methods, dispatching, request, at, tenancy, callee, method, results, calls>>
  /\ Release

\* Before the interface is added, or as long as somebody has it.
AddMethod(i, m) ==
  /\ {i, m} \cap lost = {}
  /\ methods' = [methods EXCEPT ![i] = m]
  /\ UNCHANGED <<tenants, dispatching, request, at, tenancy, callee, method, results, calls>>
  /\ Release

RemoveMethod(i) ==
  /\ i \notin lost
  /\ methods' = [methods EXCEPT ![i] = NoObject]
  /\ UNCHANGED <<tenants, dispatching, request, at, tenancy, callee, method, results, calls>>
  /\ Release

-----------------------------------------------------------------------------
(* dispatch *)

DispatchMove(w, from, to) ==
  /\ dispatching[w] = from
  /\ dispatching' = [dispatching EXCEPT ![w] = to]

\* addProcessingInstruction of the result
Answer(w, r) == results' = [results EXCEPT ![w] = Append(@, r)]

\* A document without instructions has one result all the same.
Dispatch(w, t, instructions) ==
  /\ DispatchMove(w, "idle", IF instructions = <<>> THEN "done" ELSE "next")
  /\ request' = [request EXCEPT ![w] = instructions]
  /\ at' = [at EXCEPT ![w] = 1]
  /\ tenancy' = [tenancy EXCEPT ![w] = t]
  /\ IF instructions = <<>> THEN Answer(w, "keParamError") ELSE UNCHANGED results
  /\ UNCHANGED <<tenants, methods, lost, callee, method, calls>>

Instruction(w) == request[w][at[w]]
After(w) == IF at[w] = Len(request[w]) THEN "done" ELSE "next"

\* No attributes, or no object: the next instruction follows.
BadInstruction(w) ==
  /\ dispatching[w] = "next" /\ Instruction(w) \in {"no attributes", "no object"}
  /\ DispatchMove(w, "next", After(w))
  /\ at' = [at EXCEPT ![w] = @ + 1]
  /\ Answer(w, IF Instruction(w) = "no object" THEN "keNoRpcObjectParam" ELSE "keParamError")
  /\ UNCHANGED <<tenants, methods, lost, request, tenancy, callee, method, calls>>

Found(w) ==
  IF Instruction(w) = "other object" \/ TenantOf(tenancy[w]) \notin DOMAIN tenants
  THEN NoObject ELSE tenants[TenantOf(tenancy[w])]

\* The lookup, under the lock of the dispatcher.
FindInterface(w) ==
  /\ dispatching[w] = "next" /\ Instruction(w) \notin {"no attributes", "no object"}
  /\ Found(w) # NoObject
  /\ dispatching' = [dispatching EXCEPT ![w] = "found"]
  /\ callee' = [callee EXCEPT ![w] = Found(w)]
  /\ UNCHANGED <<tenants, methods, lost, request, at, tenancy, method, results, calls>>

NoInterface(w) ==
  /\ dispatching[w] = "next" /\ Instruction(w) \notin {"no attributes", "no object"}
  /\ Found(w) = NoObject
  /\ dispatching' = [dispatching EXCEPT ![w] = After(w)]
  /\ at' = [at EXCEPT ![w] = @ + 1]
  /\ Answer(w, "keNoRpcObject")
  /\ UNCHANGED <<tenants, methods, lost, request, tenancy, callee, method, calls>>

\* RpcInterface::dispatch: the lookup under the lock of the interface.
FindMethod(w) ==
  /\ dispatching[w] = "found" /\ Instruction(w) = "call" /\ methods[callee[w]] # NoObject
  /\ DispatchMove(w, "found", "calling")
  /\ method' = [method EXCEPT ![w] = methods[callee[w]]]
  /\ UNCHANGED <<tenants, methods, lost, request, at, tenancy, callee, results, calls>>

\* The result is keParamError, not keNoRpcMethod.
NoMethod(w) ==
  /\ dispatching[w] = "found"
  /\ Instruction(w) = "other method" \/ methods[callee[w]] = NoObject
  /\ DispatchMove(w, "found", After(w))
  /\ at' = [at EXCEPT ![w] = @ + 1]
  /\ Answer(w, "keParamError")
  /\ callee' = [callee EXCEPT ![w] = NoObject]
  /\ UNCHANGED <<tenants, methods, request, tenancy, method, calls>>
  /\ Release

\* Mutant: the method is looked up again for the call.
CallMethodAgain(w) ==
  /\ DispatchMove(w, "calling", After(w))
  /\ at' = [at EXCEPT ![w] = @ + 1]
  /\ calls' = calls \cup {[worker |-> w, at |-> at[w], method |-> methods[callee[w]]]}
  /\ \E r \in {"keOk", "keOk and node", "keError"} : Answer(w, r)
  /\ method' = [method EXCEPT ![w] = NoObject]
  /\ callee' = [callee EXCEPT ![w] = NoObject]
  /\ UNCHANGED <<tenants, methods, request, tenancy>>
  /\ Release

\* callMethod, without a lock.  A node it made goes into the response, by name.
CallMethod(w) ==
  /\ DispatchMove(w, "calling", After(w))
  /\ at' = [at EXCEPT ![w] = @ + 1]
  /\ calls' = calls \cup {[worker |-> w, at |-> at[w], method |-> method[w]]}
  /\ \E r \in {"keOk", "keOk and node", "keError"} : Answer(w, r)
  /\ method' = [method EXCEPT ![w] = NoObject]
  /\ callee' = [callee EXCEPT ![w] = NoObject]
  /\ UNCHANGED <<tenants, methods, request, tenancy>>
  /\ Release

-----------------------------------------------------------------------------

DispatchStep(w) ==
  \/ BadInstruction(w)
  \/ FindInterface(w)
  \/ NoInterface(w)
  \/ FindMethod(w)
  \/ NoMethod(w)
  \/ CallMethod(w)

DispatchNext ==
  \/ \E w \in DispatchWorkers :
       \/ \E t \in Tenants, n \in 0..MaxDispatches :
            \E instructions \in [1..n -> Instructions] : Dispatch(w, t, instructions)
       \/ DispatchStep(w)
  \/ \E i \in Interfaces :
       \/ \E t \in Tenants : AddInterface(t, i)
       \/ \E m \in Methods : AddMethod(i, m)
       \/ RemoveMethod(i)
  \/ \E t \in Tenants : RemoveInterface(t)

DispatchFairness == \A w \in DispatchWorkers : WF_dispatchVars(DispatchStep(w))

DispatchSpec == DispatchInit /\ [][DispatchNext]_dispatchVars

-----------------------------------------------------------------------------
(* Properties *)

\* What a worker looked up is not destroyed under it, however the interfaces and
\* methods are removed or replaced meanwhile. (RpcDispatcher.cpp:207-229,
\* RpcInterface.cpp:147-160)
CalleeLives ==
  /\ \A w \in DispatchWorkers : {callee[w], method[w]} \cap lost = {}
  /\ \A c \in calls : c.method # NoObject

\* The response has one result for every instruction, in their order, the first
\* for the first: a method was called for exactly those that were looked up with
\* success.  (RpcDispatcher.cpp:174-284)
OneResultEach ==
  \A w \in DispatchWorkers :
    LET rs == results[w] IN
    /\ dispatching[w] # "done" => Len(rs) = at[w] - (IF dispatching[w] = "idle" THEN 0 ELSE 1)
    /\ dispatching[w] = "done" => Len(rs) = Max({1, Len(request[w])})
    /\ \A i \in 1..Len(rs) :
         (\E c \in calls : c.worker = w /\ c.at = i)
           <=> rs[i] \in {"keOk", "keOk and node", "keError"}

\* Every request is answered, whatever is removed meanwhile.
DispatchEnds == \A w \in DispatchWorkers : dispatching[w] = "next" ~> dispatching[w] = "done"

\* The object a dispatch calls is not destroyed under it, and every
\* instruction gets one result, in order.
DispatchSafe == CalleeLives /\ OneResultEach
=============================================================================
