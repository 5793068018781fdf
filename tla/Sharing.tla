------------------------------ MODULE Sharing ------------------------------
(***************************************************************************)
(* What objects share: RefCountedPtr and AutoPtr, whose counts several     *)
(* threads change; Conduit, which calls a list of listeners that may       *)
(* change the list; DllLoader, whose library the system counts; and the    *)
(* names by which the system knows the semaphores that the queues and the  *)
(* locks of all processes make.                                            *)
(* Each thread has pointers of its own.  Object 1 has a member that points *)
(* to object 2, so that to let go of one may let go of both.               *)
(***************************************************************************)
EXTENDS Naturals, Sequences, FiniteSets, SequencesExt

CONSTANTS
  Sharers,       \* threads
  MaxAssigns,    \* bound on the assignments
  Listeners,     \* the listeners of a conduit
  MaxNotifies,   \* bound on the changes of the list
  Loaders,       \* DllLoaders, of one library
  Processes,     \* processes that use the library
  MaxMade        \* bound on the objects with a semaphore that are made

ASSUME SharingAssumption ==
  /\ {MaxAssigns, MaxNotifies, MaxMade} \subseteq Nat
  /\ IsFiniteSet(Sharers) /\ Sharers # {} /\ IsFiniteSet(Loaders)

VARIABLES
  kind,        \* "RefCountedPtr", "AutoPtr"
  pointers,    \* thread -> slot -> the object, 0 is NULL
  refCount,       \* object -> its counter
  alive,       \* the objects that are not deleted
  deletions,   \* object -> how often it was deleted
  releasing,   \* thread -> where operator= or the destructor is
  assigns,     \* how many assignments were begun
  misused      \* was a pointer read after its object was deleted

refVars == <<kind, pointers, refCount, alive, deletions, releasing, assigns, misused>>

VARIABLES
  listeners,   \* _listeners
  notifying,   \* the place of notify's iterator, 0 outside it
  called,      \* listener -> how often this notify called it
  present,     \* listener -> how often it was in the list this notify began
               \* with, 0 if it was added or removed since
  listChanges,     \* how many changes of the list were made
  undefinedIt  \* was the iterator invalidated

conduitVars == <<listeners, notifying, called, present, listChanges, undefinedIt>>

VARIABLES
  opened,      \* loader -> _dllHandle is not NULL
  opens,       \* dlopen's count of the library
  loaderThere  \* the loaders that exist

dllVars == <<opened, opens, loaderThere>>

VARIABLES
  instances,   \* process -> _gUnnamedInstCtr
  numbered,    \* process -> the names taken for objects being constructed
  semObjects,  \* the objects: [by, name, sem], where sem 0 is SEM_FAILED
  semNames,    \* what the system has: [name, sem]
  made,        \* how many objects were made, which also numbers semaphores
  ended,       \* the processes that have not begun, or are over
  disturbed    \* did two processes run at once, or did one crash

nameVars == <<instances, numbered, semObjects, semNames, made, ended, disturbed>>

SharedObjects == {1, 2}
Slots == {1, 2}
NoRelease == [at |-> "idle", slot |-> 1, from |-> "none", object |-> 0, last |-> FALSE]

-----------------------------------------------------------------------------
(* RefCountedPtr, AutoPtr *)

\* Each thread was given a copy of a pointer to object 1.
RefInit ==
  /\ kind \in {"RefCountedPtr", "AutoPtr"}
  /\ pointers = [t \in Sharers |-> [s \in Slots |-> IF s = 1 THEN 1 ELSE 0]]
  /\ refCount = [o \in SharedObjects |-> IF o = 1 THEN Cardinality(Sharers) ELSE 1]
  /\ alive = SharedObjects
  /\ deletions = [o \in SharedObjects |-> 0]
  /\ releasing = [t \in Sharers |-> NoRelease]
  /\ assigns = 0 /\ misused = FALSE

\* The source of an assignment: the other pointer of the thread, the member of
\* the object this one points to, or none (NULL, or the destructor).
Sources == {"slot", "member", "none"}

SourceObject(t, s, from) ==
  CASE from = "slot" -> pointers[t][3 - s]
    [] from = "member" -> IF pointers[t][s] = 1 THEN 2 ELSE 0
    [] OTHER -> 0

\* operator=: an AutoPtr compares the objects, a RefCountedPtr the pointers.
Assign(t, s, from) ==
  /\ releasing[t].at = "idle" /\ assigns < MaxAssigns
  /\ assigns' = assigns + 1
  /\ from = "member" => pointers[t][s] = 1
  /\ kind = "AutoPtr" => pointers[t][s] # SourceObject(t, s, from)
  /\ releasing' = [releasing EXCEPT ![t] =
       [at |-> IF pointers[t][s] = 0 THEN "acquiring" ELSE "releasing", slot |-> s,
        from |-> from, object |-> pointers[t][s], last |-> FALSE]]
  /\ UNCHANGED <<kind, pointers, refCount, alive, deletions, misused>>

\* --_count, in one step: its result says who deletes.
DecrementCount(t) ==
  /\ releasing[t].at = "releasing"
  /\ LET o == releasing[t].object
     IN /\ refCount' = [refCount EXCEPT ![o] = @ - 1]
        /\ releasing' = [releasing EXCEPT ![t].at = "deciding", ![t].last = refCount[o] = 1]
  /\ UNCHANGED <<kind, pointers, alive, deletions, assigns, misused>>

\* Mutant: the count is read once more.
IsLastNow(t) == refCount[releasing[t].object] = 0

IsLast(t) == releasing[t].last

\* delete: object 1 takes its member with it.
DeletesObject(t) ==
  /\ releasing[t].at = "deciding"
  /\ LET o == releasing[t].object IN
     IF ~IsLast(t)
     THEN /\ releasing' = [releasing EXCEPT ![t].at = "acquiring"]
          /\ UNCHANGED <<alive, deletions>>
     ELSE /\ alive' = alive \ {o}
          /\ deletions' = [deletions EXCEPT ![o] = @ + 1]
          /\ releasing' =
               [releasing EXCEPT ![t] = IF o = 1 THEN [@ EXCEPT !.at = "releasing", !.object = 2]
                                                 ELSE [@ EXCEPT !.at = "acquiring"]]
  /\ UNCHANGED <<kind, pointers, refCount, assigns, misused>>

\* acquire reads the source only now; the member of a deleted object is not
\* there any more.
Acquire(t) ==
  /\ releasing[t].at = "acquiring"
  /\ LET s == releasing[t].slot
         lost == releasing[t].from = "member" /\ 1 \notin alive
         o == SourceObject(t, s, releasing[t].from)
     IN /\ misused' = (misused \/ lost)
        /\ pointers' = [pointers EXCEPT ![t][s] = o]
        /\ refCount' = IF o = 0 \/ lost THEN refCount ELSE [refCount EXCEPT ![o] = @ + 1]
        /\ releasing' = [releasing EXCEPT ![t] = NoRelease]
  /\ UNCHANGED <<kind, alive, deletions, assigns>>

RefNext ==
  \E t \in Sharers :
    \/ \E s \in Slots, from \in Sources : Assign(t, s, from)
    \/ DecrementCount(t) \/ DeletesObject(t) \/ Acquire(t)

RefSpec == RefInit /\ [][RefNext]_refVars

-----------------------------------------------------------------------------
(* Conduit *)

ConduitInit ==
  /\ listeners \in [1..3 -> Listeners]
  /\ notifying = 0 /\ listChanges = 0 /\ undefinedIt = FALSE
  /\ called = [l \in Listeners |-> 0] /\ present = [l \in Listeners |-> 0]

Places(l, list) == {k \in 1..Len(list) : list[k] = l}

Notify ==
  /\ notifying = 0 /\ listChanges < MaxNotifies
  /\ notifying' = 1
  /\ listChanges' = listChanges + 1
  /\ called' = [l \in Listeners |-> 0]
  /\ present' = [l \in Listeners |-> Cardinality(Places(l, listeners))]
  /\ UNCHANGED <<listeners, undefinedIt>>

\* doNotify of the listener the iterator is at, up to end() of now.
Calls ==
  /\ notifying \in 1..Len(listeners) /\ ~undefinedIt
  /\ called' = [called EXCEPT ![listeners[notifying]] = @ + 1]
  /\ notifying' = notifying + 1
  /\ UNCHANGED <<listeners, present, listChanges, undefinedIt>>

NotifyEnds ==
  /\ notifying > Len(listeners) /\ ~undefinedIt
  /\ notifying' = 0
  /\ UNCHANGED <<listeners, called, present, listChanges, undefinedIt>>

Erased(k) == RemoveAt(listeners, k)

\* removeListener, from a callback (the one before notifying) or outside: the
\* first of its kind.  What is erased at or before the iterator takes it along.
RemoveListener(l) ==
  /\ listChanges < MaxNotifies /\ ~undefinedIt
  /\ \E k \in 1..Len(listeners) :
       /\ listeners[k] = l /\ \A j \in 1..(k - 1) : listeners[j] # l
       /\ listeners' = Erased(k)
       /\ undefinedIt' = (notifying # 0 /\ k < notifying)
  /\ listChanges' = listChanges + 1
  /\ present' = [present EXCEPT ![l] = 0]
  /\ UNCHANGED <<notifying, called>>

\* push_back: a vector that grows may move.
AddListener(l) ==
  /\ listChanges < MaxNotifies /\ ~undefinedIt /\ Len(listeners) < 4
  /\ listChanges' = listChanges + 1
  /\ listeners' = Append(listeners, l)
  /\ present' = [present EXCEPT ![l] = 0]
  /\ undefinedIt' \in {FALSE, notifying # 0}
  /\ UNCHANGED <<notifying, called>>

ConduitNext ==
  \/ Notify \/ Calls \/ NotifyEnds
  \/ \E l \in Listeners : RemoveListener(l) \/ AddListener(l)

ConduitSpec == ConduitInit /\ [][ConduitNext]_conduitVars

-----------------------------------------------------------------------------
(* DllLoader *)

DllInit ==
  /\ opened = [l \in Loaders |-> FALSE]
  /\ opens = 0
  /\ loaderThere = {}

\* openFile, after dlclose of what was open: dlopen may fail.
Reopens(l, closed) ==
  \E ok \in BOOLEAN :
    /\ opened' = [opened EXCEPT ![l] = ok]
    /\ opens' = opens - (IF closed THEN 1 ELSE 0) + (IF ok THEN 1 ELSE 0)

MakesLoader(l) ==
  /\ l \notin loaderThere
  /\ loaderThere' = loaderThere \cup {l}
  /\ Reopens(l, FALSE)

ClosesFirst(l) == opened[l]

AssignsLoader(l, rhs) ==
  /\ {l, rhs} \subseteq loaderThere /\ l # rhs
  /\ Reopens(l, ClosesFirst(l))
  /\ UNCHANGED loaderThere

DestroysLoader(l) ==
  /\ l \in loaderThere
  /\ loaderThere' = loaderThere \ {l}
  /\ opened' = [opened EXCEPT ![l] = FALSE]
  /\ opens' = opens - (IF opened[l] THEN 1 ELSE 0)

DllNext ==
  \E l \in Loaders : \/ MakesLoader(l) \/ DestroysLoader(l)
                     \/ \E rhs \in Loaders : AssignsLoader(l, rhs)

DllSpec == DllInit /\ [][DllNext]_dllVars

-----------------------------------------------------------------------------
(* The names of semaphores *)

NamesInit ==
  /\ instances = [p \in Processes |-> 0]
  /\ numbered = [p \in Processes |-> {}]
  /\ semObjects = {} /\ semNames = {}
  /\ made = 0 /\ ended = Processes /\ disturbed = FALSE

\* Every process counts from 0.
Starts(p) ==
  /\ p \in ended
  /\ ended' = ended \ {p}
  /\ instances' = [instances EXCEPT ![p] = 0]
  /\ disturbed' = (disturbed \/ ended # Processes)
  /\ UNCHANGED <<numbered, semObjects, semNames, made>>

NextNumber(n, taken) == n + 1

\* The constructor of a queue, a deque or a lock, in any thread: one step
\* takes the number, and another opens the semaphore.
TakesNumber(p) ==
  /\ p \notin ended /\ made + Cardinality(numbered[p]) < MaxMade
  /\ Cardinality(numbered[p]) < 2
  /\ numbered' = [numbered EXCEPT ![p] = @ \cup {instances[p]}]
  /\ instances' = [instances EXCEPT ![p] = NextNumber(@, numbered[p])]
  /\ UNCHANGED <<semObjects, semNames, made, ended, disturbed>>

OpensTaken(name) == 0

\* sem_open with O_CREAT and O_EXCL.  The object keeps the name even when that
\* fails, and no constructor looks at the result.
CreatesSemaphore(p, name) ==
  /\ name \in numbered[p]
  /\ numbered' = [numbered EXCEPT ![p] = @ \ {name}]
  /\ made' = made + 1
  /\ IF \E e \in semNames : e.name = name
     THEN /\ semObjects' = semObjects \cup {[by |-> p, name |-> name, sem |-> OpensTaken(name)]}
          /\ UNCHANGED semNames
     ELSE /\ semObjects' = semObjects \cup {[by |-> p, name |-> name, sem |-> made + 1]}
          /\ semNames' = semNames \cup {[name |-> name, sem |-> made + 1]}
  /\ UNCHANGED <<instances, ended, disturbed>>

Unlinked(name) == {e \in semNames : e.name # name}

\* The destructor unlinks the name, whoever made the semaphore it stands for.
DestroysSemaphore(o) ==
  /\ semObjects' = semObjects \ {o}
  /\ semNames' = Unlinked(o.name)
  /\ UNCHANGED <<instances, numbered, made, ended, disturbed>>

\* A process ends when its objects are destroyed, or crashes: the system closes
\* its semaphores, but their names stay.
ProcessIsOver(p) ==
  /\ p \notin ended
  /\ ended' = ended \cup {p}
  /\ numbered' = [numbered EXCEPT ![p] = {}]
  /\ semObjects' = {o \in semObjects : o.by # p}
  /\ disturbed' = (disturbed \/ semObjects' # semObjects \/ numbered[p] # {})
  /\ UNCHANGED <<instances, semNames, made>>

NamesNext ==
  \/ \E p \in Processes :
       \/ Starts(p) \/ TakesNumber(p) \/ ProcessIsOver(p)
       \/ \E name \in numbered[p] : CreatesSemaphore(p, name)
  \/ \E o \in semObjects : DestroysSemaphore(o)

NamesSpec == NamesInit /\ [][NamesNext]_nameVars

-----------------------------------------------------------------------------
(* Properties *)

\* Does this pointer count as one to the object?
Keeps(t, s, o) ==
  /\ pointers[t][s] = o
  /\ releasing[t].at # "idle" /\ releasing[t].slot = s
       => releasing[t].at = "releasing" /\ releasing[t].object = o

Holders(o) == {h \in Sharers \X Slots : Keeps(h[1], h[2], o)}

\* Unless a pointer was assigned from a member of the object it let go of, an
\* object is deleted at most once, and not while a pointer points to it.
\* (UtilRefCountedPtrInlines.h:101-127, :261-286, UtilAutoPtrInlines.h:113-158)
DeletedWhenFree ==
  ~misused => \A o \in SharedObjects :
    /\ deletions[o] <= 1
    /\ Holders(o) # {} => o \in alive
    /\ (\A t \in Sharers : releasing[t].at = "idle") /\ o = 1
         => refCount[o] = Cardinality(Holders(o)) /\ (o \in alive <=> refCount[o] > 0)

\* A listener that is neither added nor removed while notify runs is called as
\* often as it was in the list, if nobody removed one that had been called.
\* (fwkConduit.h:98-126)
EachCalledOnce ==
  (notifying > Len(listeners) /\ ~undefinedIt) =>
    \A l \in Listeners : present[l] # 0 => called[l] = present[l]

\* The library stays loaded as often as there are loaders that have it.
\* (UtilDllLoader.cpp:97-137)
OpensAreLoaders == opens = Cardinality({l \in loaderThere : opened[l]})

\* No two objects ever have one semaphore, whichever processes made them.  And
\* as long as one process runs at a time and none crashes, every object has a
\* semaphore and the names in the system are those of the objects.  (Two
\* processes at once, or the names of a crash, leave objects without one.)
\* (ThdSemaphore.cpp:202-248, ThdQueue.h:107-109)
NamesSound ==
  /\ \A o, q \in semObjects : o.sem = q.sem /\ o.sem # 0 => o = q
  /\ ~disturbed => semNames = {[name |-> o.name, sem |-> o.sem] : o \in semObjects}
=============================================================================
