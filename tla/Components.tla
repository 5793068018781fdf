----------------------------- MODULE Components -----------------------------
(***************************************************************************)
(* SysComponentLoader, SysContext, SysPathMgr and SysCounterMgr: the       *)
(* components a document names are created, initialised in the order of    *)
(* its instructions, post-initialised in the order of their addresses, and *)
(* closed in the order of their names when the context goes.  An instance  *)
(* is named by the place of its instruction, 0 is no instance.             *)
(* A path is a sequence of directories and variables; a table of paths     *)
(* holds the resolved ones.  The loops that close components, that resolve *)
(* a path and that save counters take a step for each iteration.           *)
(***************************************************************************)
EXTENDS Naturals, Sequences, FiniteSets, SequencesExt

CONSTANTS
  ComponentNames,   \* the names, in the order of the context's map
  InitTakes,        \* component -> the components init takes from the context
  PostInitTakes,    \* component -> those postInit takes if it has none
  MaxInstructions,  \* bound on the instructions of a document
  PathTags,         \* the tags of configured paths: variables
  PathDirs,         \* directories of configured paths
  MaxPathEntries,   \* bound on the configured paths
  CounterNames,     \* the names of counters, in the order of their map
  MaxCounters,      \* bound on the nodes of a configuration
  MaxCount          \* bound on the values of a counter

ASSUME ComponentsAssumption ==
  /\ MaxInstructions \in Nat /\ MaxPathEntries \in Nat
  /\ MaxCounters \in Nat /\ MaxCount \in Nat
  /\ {InitTakes, PostInitTakes} \subseteq [Range(ComponentNames) -> SUBSET Range(ComponentNames)]
  /\ ComponentNames \in Seq(Range(ComponentNames)) /\ IsInjective(ComponentNames)
  /\ CounterNames \in Seq(Range(CounterNames))
  /\ PathDirs \cap (PathTags \cup {"$root"}) = {} /\ "/" \notin PathTags

VARIABLES
  document,    \* the names in the processing instructions
  compPhase,   \* "loading", "posting", "running", "closing", "gone"
  nextPI,      \* the instruction that is next
  lucky,       \* the instances whose init returned 0
  posted,      \* those postInit was called on
  components,  \* _components: name -> instance
  held,        \* instance -> name -> the instance it holds
  closesNext,  \* the place of ~SysContext's iterator in the order of the names
  closings     \* the instances closed, in order

compVars ==
  <<document, compPhase, nextPI, lucky, posted, components, held, closesNext, closings>>

VARIABLES
  pathEntries, \* the configured paths that are still to be added
  pathTable,   \* _paths: variable -> resolved path
  pathPhase,   \* "adding", "resolving", "done"
  dirsLeft,    \* resolve: what its tokenizer has left
  buildPath    \* resolve: the path so far

pathVars == <<pathEntries, pathTable, pathPhase, dirsLeft, buildPath>>

VARIABLES
  counterNodes, \* the nodes of the configuration: [name, value]
  counters,     \* _counters: name -> value
  counterPhase, \* "off", "up", "saving", "saved"
  savesNext     \* the place of update's iterator in the order of the names

counterVars == <<counterNodes, counters, counterPhase, savesNext>>

Known == Range(ComponentNames)
Holds(i, n) == held[i][n] # 0
DocumentOf == 1..Len(document)

-----------------------------------------------------------------------------
(* SysComponentLoader::createComponentContext *)

CompInit ==
  /\ document \in BoundedSeq(Known, MaxInstructions)
  /\ compPhase = "loading" /\ nextPI = 1
  /\ lucky = {} /\ posted = {} /\ closings = <<>> /\ closesNext = 1
  /\ components = [n \in Known |-> 0]
  /\ held = [i \in DocumentOf |-> [n \in Known |-> 0]]

\* SysContext::addComponent: a second of a name takes the place of the first.
AddComponent(n, i) == [components EXCEPT ![n] = i]

Takes(i, wanted) ==
  [held EXCEPT ![i] = [n \in Known |-> IF n \in wanted /\ @[n] = 0 THEN components[n] ELSE @[n]]]

\* createObject and init: one that does not return 0 is let go of.
LoadComponent ==
  /\ compPhase = "loading" /\ nextPI <= Len(document)
  /\ nextPI' = nextPI + 1
  /\ \/ /\ components' = AddComponent(document[nextPI], nextPI)
        /\ lucky' = lucky \cup {nextPI}
        /\ held' = Takes(nextPI, InitTakes[document[nextPI]])
     \/ UNCHANGED <<components, lucky, held>>
  /\ UNCHANGED <<document, compPhase, posted, closesNext, closings>>

AllLoaded ==
  /\ compPhase = "loading" /\ nextPI > Len(document)
  /\ compPhase' = "posting"
  /\ UNCHANGED <<document, nextPI, lucky, posted, components, held, closesNext, closings>>

Posting == compPhase = "posting"

\* The map of the lucky ones is ordered by their addresses.
PostInit1(i) ==
  /\ Posting
  /\ i \in lucky \ posted
  /\ posted' = posted \cup {i}
  /\ held' = Takes(i, PostInitTakes[document[i]])
  /\ UNCHANGED <<document, compPhase, nextPI, lucky, components, closesNext, closings>>

AllPosted ==
  /\ Posting /\ compPhase = "posting" /\ posted = lucky
  /\ compPhase' = "running"
  /\ UNCHANGED <<document, nextPI, lucky, posted, components, held, closesNext, closings>>

\* SysContext::removeComponent: it is the caller's.
RemoveComponent(n) ==
  /\ compPhase = "running" /\ components[n] # 0
  /\ components' = [components EXCEPT ![n] = 0]
  /\ UNCHANGED <<document, compPhase, nextPI, lucky, posted, held, closesNext, closings>>

ContextGoes ==
  /\ compPhase = "running"
  /\ compPhase' = "closing"
  /\ UNCHANGED <<document, nextPI, lucky, posted, components, held, closesNext, closings>>

\* ~SysContext: those that are in the map, in the order of their names.
ClosesNext ==
  /\ compPhase = "closing" /\ closesNext <= Len(ComponentNames)
  /\ closesNext' = closesNext + 1
  /\ LET i == components[ComponentNames[closesNext]]
     IN closings' = IF i = 0 THEN closings ELSE Append(closings, i)
  /\ UNCHANGED <<document, compPhase, nextPI, lucky, posted, components, held>>

AllClosed ==
  /\ compPhase = "closing" /\ closesNext > Len(ComponentNames)
  /\ compPhase' = "gone"
  /\ UNCHANGED <<document, nextPI, lucky, posted, components, held, closesNext, closings>>

CompNext ==
  \/ LoadComponent \/ AllLoaded \/ AllPosted \/ ContextGoes \/ ClosesNext \/ AllClosed
  \/ \E i \in DocumentOf : PostInit1(i)
  \/ \E n \in Known : RemoveComponent(n)

CompSpec == CompInit /\ [][CompNext]_compVars

-----------------------------------------------------------------------------
(* SysPathMgr *)

RootTag == "$root"
RootPath == <<"/">>
PathVariables == PathTags \cup {RootTag}

\* A path that does not begin with a $ is under the root.
FromRoot(path) == IF path # <<>> /\ path[1] \in PathVariables THEN <<>> ELSE RootPath

PathTexts == {p \in BoundedSeq(PathDirs \cup PathVariables, 2) : p # <<>>}

PathInit ==
  /\ pathEntries \in BoundedSeq([tag : PathVariables, path : PathTexts], MaxPathEntries)
  /\ pathTable = [v \in {RootTag} |-> RootPath]
  /\ pathPhase = "adding" /\ dirsLeft = <<>> /\ buildPath = <<>>

\* add begins with resolve.
ResolvePath ==
  /\ pathPhase = "adding" /\ pathEntries # <<>>
  /\ pathPhase' = "resolving"
  /\ dirsLeft' = Head(pathEntries).path
  /\ buildPath' = FromRoot(Head(pathEntries).path)
  /\ UNCHANGED <<pathEntries, pathTable>>

\* The next token of resolve's loop; an unknown variable ends it with nothing.
ResolveToken ==
  /\ pathPhase = "resolving" /\ dirsLeft # <<>>
  /\ \/ /\ Head(dirsLeft) \in PathVariables \ DOMAIN pathTable
        /\ dirsLeft' = <<>> /\ buildPath' = <<>>
     \/ /\ Head(dirsLeft) \in DOMAIN pathTable
        /\ dirsLeft' = Tail(dirsLeft) /\ buildPath' = buildPath \o pathTable[Head(dirsLeft)]
     \/ /\ Head(dirsLeft) \notin PathVariables
        /\ dirsLeft' = Tail(dirsLeft) /\ buildPath' = Append(buildPath, Head(dirsLeft))
  /\ UNCHANGED <<pathEntries, pathTable, pathPhase>>

\* The rest of add: the directory is there or can be made, or it is not and
\* cannot; the empty path is none.
AddPath ==
  /\ pathPhase = "resolving" /\ dirsLeft = <<>>
  /\ pathPhase' = "adding"
  /\ pathEntries' = Tail(pathEntries)
  /\ \/ /\ buildPath # <<>>
        /\ LET tag == Head(pathEntries).tag
           IN pathTable' = [v \in DOMAIN pathTable \cup {tag} |->
                              IF v = tag THEN buildPath ELSE pathTable[v]]
     \/ UNCHANGED pathTable
  /\ UNCHANGED <<dirsLeft, buildPath>>

PathsAdded ==
  /\ pathPhase = "adding" /\ pathEntries = <<>>
  /\ pathPhase' = "done"
  /\ UNCHANGED <<pathEntries, pathTable, dirsLeft, buildPath>>

PathNext == ResolvePath \/ ResolveToken \/ AddPath \/ PathsAdded

PathSpec == PathInit /\ [][PathNext]_pathVars

-----------------------------------------------------------------------------
(* SysCounterMgr *)

CounterSet == Range(CounterNames)
NamedNodes(nodes) == {k \in 1..Len(nodes) : nodes[k].name # ""}

NodesOf(nodes, n) == {k \in 1..Len(nodes) : nodes[k].name = n}

\* init: the last node of a name counts; without a node it fails.
LastNode(nodes, n) == CHOOSE k \in NodesOf(nodes, n) : \A j \in NodesOf(nodes, n) : j <= k

Loaded(nodes) ==
  [n \in {nodes[k].name : k \in NamedNodes(nodes)} |-> nodes[LastNode(nodes, n)].value]

CounterInit ==
  /\ counterNodes \in BoundedSeq([name : CounterSet \cup {""}, value : {0, 1}], MaxCounters)
  /\ counters = [n \in {} |-> 0]
  /\ counterPhase = "off" /\ savesNext = 1

LoadCounters ==
  /\ counterPhase = "off" /\ counterNodes # <<>>
  /\ counterPhase' = "up"
  /\ counters' = Loaded(counterNodes)
  /\ UNCHANGED <<counterNodes, savesNext>>

\* operator[] makes a counter of 0; the caller increments it.
Counts(n) ==
  /\ counterPhase \in {"up", "saved"}
  /\ n \in DOMAIN counters => counters[n] < MaxCount
  /\ counters' = [m \in DOMAIN counters \cup {n} |->
                    IF m # n THEN counters[m] ELSE IF n \in DOMAIN counters THEN counters[n] + 1 ELSE 1]
  /\ counterPhase' = "up"
  /\ UNCHANGED <<counterNodes, savesNext>>

\* findNodeByAttribute: the first node of a name.
FirstNode(nodes, n) == CHOOSE k \in NodesOf(nodes, n) : \A j \in NodesOf(nodes, n) : k <= j

\* update, for one counter: the first node of its name, or a new one.
Saved(nodes, n) ==
  LET new == [name |-> n, value |-> counters[n]]
  IN IF NodesOf(nodes, n) = {} THEN Append(nodes, new)
     ELSE [nodes EXCEPT ![FirstNode(nodes, n)] = new]

BeginSave ==
  /\ counterPhase = "up"
  /\ counterPhase' = "saving"
  /\ savesNext' = 1
  /\ UNCHANGED <<counterNodes, counters>>

\* update's loop over the map, which has no step for a name that is not in it.
SaveCounter ==
  /\ counterPhase = "saving" /\ savesNext <= Len(CounterNames)
  /\ savesNext' = savesNext + 1
  /\ LET n == CounterNames[savesNext]
     IN counterNodes' = IF n \in DOMAIN counters THEN Saved(counterNodes, n) ELSE counterNodes
  /\ UNCHANGED <<counters, counterPhase>>

EndSave ==
  /\ counterPhase = "saving" /\ savesNext > Len(CounterNames)
  /\ counterPhase' = "saved"
  /\ UNCHANGED <<counterNodes, counters, savesNext>>

CounterNext ==
  \/ LoadCounters \/ BeginSave \/ SaveCounter \/ EndSave
  \/ \E n \in CounterSet : Counts(n)

CounterSpec == CounterInit /\ [][CounterNext]_counterVars

-----------------------------------------------------------------------------
(* Properties *)

\* Once the context is there, a component holds another that its postInit asks
\* for if the document has it at all, and one that only its init asks for if
\* an instruction before its own named it.
\* (SysComponentLoader.cpp:80-139, SysPathMgr.cpp:334-344, RpcServer.cpp:387-397)
PeersFound ==
  compPhase = "running" =>
    \A i \in lucky :
      /\ \A n \in PostInitTakes[document[i]] :
           (\E j \in lucky : document[j] = n) => Holds(i, n)
      /\ \A n \in InitTakes[document[i]] \ PostInitTakes[document[i]] :
           Holds(i, n) <=> \E j \in lucky : j < i /\ document[j] = n

\* Each component is closed once when the context goes, unless another of its
\* name came after it or it was taken out, and in the order of the names: none
\* before the RPC server, whose requests may use the others.
\* (SysContext.cpp:70-85)
ComesBefore(m, n) ==
  \E j, k \in 1..Len(ComponentNames) :
    j < k /\ ComponentNames[j] = m /\ ComponentNames[k] = n

ClosedOnce ==
  compPhase = "gone" =>
    /\ IsInjective(closings) /\ Range(closings) = {components[n] : n \in Known} \ {0}
    /\ \A j, k \in 1..Len(closings) :
         j < k => ComesBefore(document[closings[j]], document[closings[k]])
    /\ \A k \in 1..Len(closings) : \A j \in lucky :
         document[j] = document[closings[k]] => j <= closings[k]

\* A path of the table lies under the root as its text goes, and has no
\* variable left in it.  (SysPathMgr.cpp:146-178, :272-330)
PathsUnderRoot ==
  \A v \in DOMAIN pathTable :
    IsPrefix(RootPath, pathTable[v]) /\ Range(pathTable[v]) \cap PathVariables = {}

\* The counters that were saved are those the next run starts with, unless two
\* nodes had the same name; init takes none without a name.
\* (SysCounterMgr.cpp:92-195)
CountersSurvive ==
  (counterPhase = "saved"
     /\ \A j, k \in NamedNodes(counterNodes) :
          counterNodes[j].name = counterNodes[k].name => j = k)
    => Loaded(counterNodes) = [n \in DOMAIN counters \ {""} |-> counters[n]]
=============================================================================
