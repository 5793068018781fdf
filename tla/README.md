# A TLA+ model of cslib

cslib is a C++ library of the early 2000s for servers on UNIX and Windows: threads and
their synchronisation, a work scheduler, logging, sockets and HTTP, remote procedure calls
in XML over HTTP, serialization, and a container of components that are loaded from a
configuration file. This directory models it as it is built for UNIX (pthreads), with the
Windows service where the two differ.

Paths below are relative to the root of the repository's sources; `PROJECT.json` maps
every definition to the lines it stands for.

## Inventory

| Part | State | Operations | Talks to | Hard behaviour |
|---|---|---|---|---|
| `ThdSemaphore` | a POSIX semaphore and its name, `_abandoned`, `_waiters` | increment, decrement, abandon | queue, deque, read-write lock | abandon against decrement, interrupted waits, the limit of the count, names left behind |
| `ThdEvent` | flag, mutex, condition | wait, timed wait, signal, reset | thread creation, scheduler, transport, logger | flag and notification are two steps; timeouts, spurious wakeups |
| `ThdRWLock`, auto locks | `_readCount`, `_readLock`, `_dataLock` | acquire and release for read and write | message cache of the logger | first and last reader, failing decrement |
| `ThdQueue` | container, guard, semaphore, `_down` | insert, remove, down | pool, scheduler, logger, RPC server | tokens against items, down against remove |
| `ThdDeque` | the same, and items can be taken back | and removeItem | pool | tokens of erased items |
| `ThdThread`, `ThdManager` | Startup on the creator's stack, two events | create, release, delete, run | everything that has threads | handshake, failing init, lifetimes |
| `ThdScheduler` | heap, event, queue, threads | add, remove, signal, shutdown | heap, event, queue, pool | wake-up for a new head, timers, ends |
| `Heap` | vector and map of iterators | add, remove, pop, heapify, build | scheduler | iterators after growth, order after removal |
| `ThdPool` | three queues, worker threads | run, enqueue, dequeue, add | RPC server, scheduler, transports | pools made on first use, threads that could not be made, destruction |
| `RpcServer` | status, transports, message queue, dispatcher | start, stop, shutdown, queueMessage, doWork, sendRequest | transport, pool, dispatcher | requests while starting and stopping |
| `RpcHttpTransport` | status, four events, pending posts | control, processRequest, sendRequest, sendResponse, abort | server, sockets | handshake of control and listener, an answer for each post, retries |
| `RpcDispatcher`, `RpcInterface` | interfaces and methods of each tenant | dispatch, add, remove | server | removal between lookup and call |
| `RpcContentServer`, `NetSocketServer`, `RpcClient` | transports, their threads and posts | start, stop, shutdown, call | sockets | several transports, references; not built |
| `StdLogger` | queue, exit event, message cache | logMessage, processMessages | queue, read-write lock | end of the writer thread, order |
| `StdFileImpl`, system logs, formats | files, sizes, times | log, rotate, format | logger, files | restart in the middle of a rotation |
| `HttpClientPost`, `HttpSerPost`, `Socket` | buffers, `m_abort`, mutexes | send, abort, read, respond | transports | input in pieces, abort against send, closed connections |
| HTTP texts | content, forms, URLs | generate, parse | posts | what is sent is what is read |
| components (`Sys*`) | context, registry, paths, counters | load, init, postInit, close | everything | order, failing components, peers |
| conduits, reference counts, loaders | lists, counts, handles | notify, add, remove, assign | - | a listener that removes itself, two threads that let go |
| serialization | buffers, files, mappings | size, write, read | - | partial input, versions |
| daemon, signals | signal mask, signal thread, service | run, stop | service | a signal before, during and after the service |
| Windows service | registry, statuses, watcher, handler | install, run, control | service manager | three threads that tell a status |
| `Date`, `ScheduleTime`, deadlines | - | arithmetic, texts | scheduler, event | leap days, parts of a second |
| strings, patterns, `Mapping`, files, XML | objects, files, nodes | parse, edit, match, copy, build, select | all | loops that end, ownership, failures between two steps |

What makes each part correct: a semaphore lets no decrement succeed once it is abandoned,
counts its waiters exactly, and abandon returns; an event never leaves a waiter asleep on a
raised flag, and an automatic one releases one thread for a signal; a lock excludes; a
queue delivers every item to one thread, in order, and never pops an empty container; what
is taken back from a deque, or from a pool, is never received or run; newWorkerThread returns
in every case, and the new thread uses nothing that is gone; the scheduler never sleeps past
the head of its heap; the heap is a priority map whose iterators are exact; the RPC server
starts and stops without losing an event, answers a queued request once, and leaves nobody
behind when it is destroyed; a call that succeeds was executed; a dispatch calls no object
that is gone; messages are written in the order they were submitted; an abort in time ends
its request, and nothing short passes for a whole message; a daemon that agreed to stop
stops; a component finds its peers and is closed once; files, dates, texts, documents and
streams read back as what was written.

## Modules

Threads and synchronisation:

| Module | Models |
|---|---|
| `ThreadSet` | the threads that share an object (constants) |
| `ThdSemaphore`, `ThdEvent`, `ThdRWLock` | `src/thd/ThdSemaphore.cpp`, `ThdEvent.cpp`, `ThdRWLock.cpp` with `h/thd/ThdAutoLock.h` |
| `ThdQueue`, `ThdDeque` | `h/thd/ThdQueue.h`, `h/thd/ThdDeque.h`, over all of `ThdSemaphore` |
| `EventObject`, `ClosableQueue`, `PriorityMap` | what an event, a queue and a heap promise: abstract specifications |
| `ThdThread` | `src/thd/ThdThread.cpp`, `ThdManager.cpp` |
| `Heap` | `h/util/UtilHeapInlines.h` |
| `ThdScheduler` | `src/thd/ThdScheduler.cpp`, over the promises of heap, event and queue |
| `ThdPool` | `src/thd/ThdPool.cpp`, over the promise of the queue |

RPC, HTTP and logging:

| Module | Models |
|---|---|
| `RpcHttpTransport` | the server side of `src/rpc/http/RpcHttpTransport.cpp`, what it uses of `Socket` and `HttpSerPost` |
| `RpcServer` | `src/rpc/RpcServer.cpp` with `RpcHttpTransport` |
| `RpcClient` | `sendRequest` of the servers and transports, `RpcClient.cpp`, over a network that loses |
| `RpcDispatch` | `src/rpc/RpcDispatcher.cpp`, `RpcInterface.cpp` |
| `ContentServer` | `src/rpc/RpcContentHandlerServer.cpp` with the server side of `src/net/NetSocketServer.cpp` |
| `NetHttpPost` | `src/net/NetHttpClientPost.cpp` and `NetHttpSerPost.cpp`, over `NetSocket.cpp` |
| `HttpText` | `src/net/NetHttpContent.cpp`, `NetHttpUtils.cpp` |
| `StdLogger` | `src/log/LogStdLogger.cpp` |
| `LogFiles` | `src/log/LogStdFileImpl.cpp`, the system logs, the formats |

Processes:

| Module | Models |
|---|---|
| `UnixDaemon` | `src/svr/unix/UnixDaemonMain.cpp`, `UnixSignalHandler.cpp` |
| `NTService` | `src/svr/nt/CService.cpp`, `CServiceInstall.cpp`, `NTServiceMain.cpp` |

Data:

| Module | Models |
|---|---|
| `StringText` | `h/util/UtilStringTokenizer.h`, `src/util/UtilStringUtils.cpp` |
| `Mapping` | `src/util/UtilMapping.cpp` |
| `Files` | `src/util/UtilPattern.cpp`, `src/file/*` |
| `Dates` | `src/lang/Date.cpp`, `ScheduleTime.cpp`, `toTimeVal` of `ThdManager.cpp` |
| `DomTree` | `src/xml/XmlDomUtils.cpp` and its writer |
| `Serialization` | `h/ser/*`, `src/ser/*`, `src/util/UtilStreaming.cpp` |
| `Sharing` | `RefCountedPtr`, `AutoPtr`, `Conduit`, `DllLoader`, names of semaphores |
| `Components` | `src/sys/SysComponentLoader.cpp`, `SysContext.cpp`, `SysPathMgr.cpp`, `SysCounterMgr.cpp` |

The theorems are in `ThdSyncProofs` (`ThdEvent`, `ThdRWLock`, `ThdScheduler`,
`Heap`), `ThdQueueProofs`
(`ThdSemaphore`, `ThdQueue`, `ThdDeque`, `ThdPool`), `ProcessesProofs` (`ThdThread`,
`UnixDaemon`, `NTService`), `RpcServerProofs`, `RpcPartsProofs` (`RpcClient`, `RpcDispatch`,
`ContentServer`), `NetHttpPostProofs`, `DataProofs` (`Sharing`, `Components`, `StringText`,
`Mapping`, `Dates`) and at the end of `StdLogger`; `MC*` put together what a run checks.
`MCSync`, `MCQueues`, `MCProcesses`, `MCServices`, `MCRpcParts` and `MCData` extend several
modules that share nothing; a variable chosen in `Init` (`class`, `process`, `service`, `part`,
`subject`) says which of them an execution is about, and the others stay as they were
constructed. Their fairness is about a step of the one an execution is about: what does not
start takes no step it could be owed.

How state and actions correspond to the code:

* A thread inside an operation has a program counter (`semPc`, `evPc`, `rwPc`, `pc`, ...).
  What a thread does between taking and leaving a mutex is one step, because nobody else
  sees the state in between; every access outside of a mutex is a step of its own.
* `ThdQueue` and `ThdDeque` extend `ThdSemaphore` and use its actions, so that a step of
  the queue is a step of its semaphore with all its interleavings. `_guard` is a variable,
  as `down` holds it across the steps of `abandon`.
* A thread that blocks (`sem_wait`, `pthread_cond_wait`, a mutex) is a thread whose action
  is not enabled. `sem_wait` may also fail at any time (`DecrementInterrupted`): the library
  installs no signal handlers, its applications may. A condition variable may wake
  spuriously (`WakeSpurious`).
* `ThdScheduler` uses the three components by what they promise, `PriorityMap`,
  `EventObject` and `ClosableQueue`, each of which the component is shown to implement.
  `ThdPool` and `StdLogger` use queues that close in the same way.
* An operation of `Heap` is its first step and then one for each iteration of `down` and `up`
  (`loop`, `iter`); nothing else is done to the heap before the loop is over, so that the order
  within an operation can be stated, and proved without recursion. In `Components` the loops of
  `~SysContext`, `SysPathMgr::resolve` and `SysCounterMgr::update` are steps too (`closesNext`,
  `dirsLeft`, `savesNext`), and in `Sharing` that of `notify` (`notifying`).
* `RpcServer` extends `RpcHttpTransport` and adds its owner, its queue, its workers and the
  threads that call `sendRequest`. The
  four events are flags, as `EventObject` promises of manual ones, and the queue is a
  sequence that closes, as `ClosableQueue` promises. `Call` and `CtlReturn` are the call of
  `control`: by the owner from `commandAll`, or by whoever destroys the transport, which is
  the owner in `shutdown` or the last worker or caller that held a reference.
  `AbortAllClientPosts` is the end of a shutdown: a step that is enabled when no call is pending
  (`PendingClient`), as the code waits for each without a timeout. The listener and the workers
  may be missing from the start (`none`), because `ThdPool::add` does not tell that it could not make
  a thread. `getTransport` takes no lock: while `clear` runs it finds the entry, nothing or memory
  that is gone (`lost`). `ContentServer` takes the same events for granted, and is about several
  transports and the references to them; its listener reads a request in steps of their own, and
  never ends the read of a client that says nothing (`stuck`).
* A connection of `NetHttpPost` is a sequence of units that the kernel cuts anywhere, may
  close between any two, and delivers in order. `RpcClient` stands on it: an attempt is a
  send that may fail before or after the server has carried the request out, or never end, when the
  server keeps the connection and says nothing (`AttemptHangs`). There `abortAllClientPosts` is the
  loop that it is: the count, the lock, and for each post `abortSend` and its wait for the mutex of
  the send, with the lock kept from who adds, removes or looks at the status (`GuardFree`).
* `connect` fails in three ways that leave different sockets: the host is not known (`HostUnknown`),
  `::socket` fails and takes the descriptor of the connection before with it (`SocketFails`), or the
  connection is refused.
* Whether `pthread_join` is compiled is the variable `joins` of `ThdThread` (`joinsSignals` of
  `UnixDaemon`): the call is the argument of `ASSERT_D`, which is empty unless `_DEBUG` is
  defined.
* A string is a sequence of characters, of which there are as few kinds as the code tells
  apart; a path is a sequence of names; a stream is a sequence of numbers. `Files` and
  `LogFiles` take an operation apart where a full disk, another process or the end of the
  process can come between two of its steps. A copy has the buffer of its stream (`held`): a block is
  kept in it or written with what is there, and the destructor writes the rest, or loses it.
* Behaviour of the code that is undefined is a choice in the model where the build decides it
  (which of two equal heads the heap has, what the second `pthread_join` does), and an end of
  what is promised where nothing can be said (a listener that removes itself from the conduit
  that is notifying it).

## Runs

| Run | Instance | Question |
|---|---|---|
| `queues` | 3 threads on a FIFO queue, 2 on a priority queue or a deque, 2 items | delivery, tokens, down |
| `sync` | 3 threads on a semaphore, an event or a lock | promises of the three classes |
| `processes` | 2 creators of threads, with and without join; a daemon and 3 signals; a service with 2 installations and 2 controls | how threads and programs start and end |
| `scheduler` | 2 items, 2 workers, 2 adds, 3 seconds, equal and different priorities | timer and head of the heap |
| `heap` | 6 keys, 3 values in a vector that grows at 3 | heap and its lookup |
| `services` | 2 users of a pool of at most 2, 2 runners; 2 threads that log 3 messages; 2 threads that post over 2 connections | pool, logger and HTTP post |
| `rpc` | 2 clients and one that may send nothing, a worker, a caller of `sendRequest`, 2 starts | start, stop, shutdown, answers |
| `rpc_parts` | 2 transports and 3 calls of their owner, a worker and a caller; 2 attempts of a call on each of 3 classes; a worker, 2 interfaces and 2 tenants | content server, client, dispatcher |
| `data` | texts of up to 4 characters, 5 nodes, 4 log entries, 6 file trees, 8 years, 6 components, ... | the sequential parts, each against what it should compute |

What the names of composed properties stand for:

* `SyncProgress`: `AbandonReturns`, `WaiterMeetsSignal`, `SomebodyEnters`. `QueuesProgress`:
  `DownReturns`, and `WaitingMeetsItem` of the deque.
* `ThreadSafe`: `StartupUntilFlag`, `ObjectOutlivesChild`, `FailedNeverRuns`, `JoinWaitsForExit`.
  `DaemonSafe`: `HandlerInUse`, `SignalsHeard`. `NTSafe`: `RunsAsInstalled`, `WatcherOver`.
  `ProcessesProgress`: `CreateReturns`, `ReleasedRuns`, `StopEnds`, `StopIsTold`.
* `PoolSafe`: `TakenNeverRuns`, `PoolMadeOnce`. `LogSafe`: `WrittenInOrder`,
  `BegunThreadAwaited`. `PostSafe`: `AbortInTime`, `ReplyIsWhole`. `ServicesProgress`:
  `PooledRuns`, `SubmittedIsWritten`, `PostReturns`.
* `ContentSafe`: `StoppedTransports`, `ContentAnsweredOnce`, `ListenerHasObject`. `CallSafe`:
  `SuccessMeansExecuted`, `QuietAfterStop`, `PostsAreCalls`. `DispatchSafe`: `CalleeLives`,
  `OneResultEach`. `PartsProgress`: `OwnerReturns`, `CallsReturn`, `AbortReturns`,
  `DispatchEnds`. `RpcProgress`: `ControlReturns`, `QueuedIsAnswered`.
* Where the code waits without a timeout for somebody outside of the program, a property of progress
  names him: `ControlReturns` and `OwnerReturns` exclude a client that keeps the listener in its
  read, and a listener that the pool could not make; `CallsReturn` and `AbortReturns` a remote server
  that keeps a connection and sends nothing; `QueuedIsAnswered` that, a crash, a pool without a
  worker, and a transport that is destroyed after an error. That the shutdown in the destructor of a
  transport never meets such a call is part of `DestroyedIsQuiet` and of `ListenerHasObject`:
  `sendRequest` holds a reference as long as it runs. `MoveKeepsData` excludes a move that said it
  succeeded although a file did not open, or although the last blocks were lost in the destructor of
  the stream.
* Some properties cover less than their name may suggest. `SomebodyEnters` takes a reader at
  `_readLock` for one who gets on; that nobody waits for everybody there is TLC's check for deadlock
  in `sync`. `WatcherOver` is about what the watcher tells, not the order among the three threads.
  `PoolSafe` and `PooledRuns` begin the destructor when no user is inside the pool. `NamesSound`
  asks for all names only without crashes and neighbours; with them, that no two objects share one.
* Those of `MCData` are listed there by subject. Most compare what the code computes with a
  definition of what it is for: tokens with the fields between delimiters, a matcher with the
  set of names its pattern describes, a date with the count of days, the files of a rotation
  with the entries that were written, a generated content with the parsed one.

Bounds. Three threads are enough to have two in one operation and a third to come in
between; every operation touches one object. Two items are enough for an order and for a
token without its item. `SemValueMax`, `MaxInserts`, `MaxSignals` and `MaxInterrupts` stop
counters that nothing in the code stops; `sync` lets the semaphore reach its limit, where
`sem_post` fails and `increment` ignores it. Six keys grow a vector of capacity 3 and give
removed entries whose replacement must rise and others where it must sink. Two adds put a
second head before the first. A pool of 0 makes a thread for each runner and one of 2 leaves
a runner in the queue with one at work. Two posters meet in one `HttpClientPost`, where one
aborts the other and the next send finds the socket the last one left; `MaxConns` of 2 is one
connection after another. Two transports are enough for one that fails while the other is
started, stopped, replaced or held by a worker; three calls of the owner are `init` and two more, such
as a stop and a start or a shutdown. One worker and one caller are two who
may hold the last reference beside the owner. Two attempts give one that is lost or late
and one that succeeds. Three signals are one before, one while and one after the
service is asked. The bounds of `MCData` (`MaxText`, `MaxLines`, `MaxEntries`, `MaxDomNodes`,
`MaxFormat`, `MaxInstructions`, `MaxAssigns`, `MaxMade`, ...) are the length of the texts and
the number of the calls: long enough for a delimiter at both ends and two in a row, for a file
that is rotated twice and a restart between, for an element below an element, for a duplicate
instruction beside another, and for a reference that is given up by two threads. `SomeYears`
holds two leap years, one of them the turn of a century, and the turns between eight years; what the code does
in the centuries that are none is listed below.

Deadlock is checked in `sync`, where calls can always be made, and in `heap`; in the other runs
the system may come to an end (everything down, all threads exited, time over).

Fairness. A thread that can run does, weakly fair per thread; a waiting thread takes a
token that stays there. `ThdRWLock` assumes strong fairness for taking `_readLock` in
release, and `NetHttpPost` for the threads that post, since the holders of a mutex take turns.
No run assumes that anybody calls an operation, that a signal arrives or that a wait fails. In
`rpc` and `rpc_parts` the thread that calls `control`, the listener and each worker go on until
they wait; nobody has to connect, the client named in `Silent` never sends, and a call that hangs at
its server never comes back. A server of
`NetHttpPost` goes on or closes, which is what `PostReturns` needs: the code has no timeout
while it waits for a reply. `scheduler` assumes that time goes on and that `execute` returns;
`services` that a runner of the pools returns, but not the runner of a permanent thread;
`processes` that a service ends when it was asked to, and not otherwise.

### What the code does not do

These runs end in a counterexample: the property is what a comment says.

| Run | Comment | What happens |
|---|---|---|
| `queue_stranded` | "signal all threads waiting on a queues to return", `src/thd/ThdPool.cpp:135` | a remover between its look at `_abandoned` and `_waiters++` is not seen by `abandon` and waits for ever |
| `scheduler_dies` | "all items in the heap that need to be are popped", `src/thd/ThdScheduler.cpp:233` | a deadline of exactly one second in microseconds is refused, the thread leaves |
| `rpc_stop` | "processRequest will return and block on the trigger", `src/rpc/http/RpcHttpTransport.cpp:274` | the listener is in `readRequest` of a client that sends nothing, and does not come back |

`PROJECT.json` lists, with the comments they contradict, what the properties of passing runs
exclude by a premise: a reader whose wait was interrupted joins beside a writer (`Exclusion`), a
transport that failed to listen is destroyed under its thread (`DestroyedIsQuiet`), a copy that lost
its last blocks or could not read its source is told as a success, and the source removed
(`MoveKeepsData`), a server waits for a listener that was never made (`ControlReturns`), the join of
`ThdThread.cpp:216` is inside an assertion that no build compiles (`JoinWaitsForExit`), and
others. Further behaviour that the models show, and that a reader of the properties should
know, by module:

* `ThdScheduler`: `shutdown` waits for nobody, although its comment says that it blocks until all
  threads have exited.
* `Heap`: the loop of `build` sifts the entry in the middle as often as there are entries, and with
  one entry takes the one before the first.
* `RpcServer`: a request that comes before `start` has set the status is not answered; `start`
  returns true when a transport could not listen; `shutdown` takes the dispatcher from under a
  worker, and clears the map of transports while `getTransport` looks into it without a lock; without
  a listener `init` never returns, without workers it succeeds.
* `RpcClient`: the retries go on after `abortAllClientPosts`, which itself waits for every attempt,
  with the lock of the transport, and for ever when a server says nothing; `callMethod` never assigns the node
  of the response; a result without its attribute is `keOk`, and a method that nobody has gives
  `keParamError`; only the first instruction of a response is read.
* `RpcDispatch`: removing an interface of a tenant that is unknown removes the default tenant's.
* `ContentServer`: the destructor does not wait for a listener whose `listen` failed; `control`
  returns true when it did; `getTransport` takes no lock; one client that says nothing keeps the
  commands of all transports behind it in the order of the names waiting.
* `NetHttpPost`: an abort that comes before `doSend`, or while the reply is awaited, has no
  effect; a refused connect leaks its descriptor, and one on a socket that is still open the old
  one; an aborted send leaves the socket connected.
* `HttpText`: a URL without `//` loses the first character of its host; a port wraps at 16 bits;
  a colon in the path is taken for the port's; a `+` in a form becomes a blank; a `%` at the end is
  dropped; a request whose path holds a blank is taken with the part before it when the next word has
  a slash.
* `ThdPool`: a pool of several threads is never rebuilt when some could not be made, while the system
  thread is tried again by the next runner; the destructor drops the permanent threads without having
  told them to stop.
* `StdLogger`: a destructor that comes before the thread has reset `_exitEvent` does not wait for it.
* `LogFiles`: a restart within a second of a rollover may choose the wrong file and truncate the
  newest; a rotation of one file truncates what was just written; the options of the system log are
  ignored without a server.
* `UnixDaemon`: a signal that is pending when the signal thread unblocks, or a second one while
  `stop` or `waitforstop` runs, has its default action; a stop before `start` is lost; a `stop` that
  returns -1 leaves a service nobody can stop; a service whose `init` fails while its stop is awaited
  is never left, as handler and thread wait for each other; where nothing joins the handler is
  deleted under its thread; when the signal thread cannot be made the signals stay blocked and nobody
  takes them.
* `NTService`: a service that ends by itself waits 10 seconds for the watcher; a stop between RUNNING
  and `start` is lost; after a failing `PreInit` the last `SetStatus` has no handle; a failed
  initialisation is reported as STOPPED with exit code 0; a crash between `CreateService` and the
  registry leaves a service without parameters, and to install it again changes nothing.
* `Mapping`: text without `=` is parsed for ever; a file is read up to a line of more than 1023
  characters and reported as read; a section is found by a part of its name; to assign a part of a
  mapping to its owner reads what was deleted.
* `StringText`: `findAllTokens` never ends when the text begins with a delimiter;
  `findCaseless` puts neither text into lower case; `trimFront` leaves text that is all pattern as it
  is, and `trimBack` reads before it.
* `Files`: `fileCopy` returns true when one of the files does not open, after it has emptied the
  destination if that did, and when the destructor of the stream could not write the last blocks;
  `fileMove` then deletes the source; moving a file to itself deletes it; `rmdir` follows a link out of its tree, and a dangling
  one for ever; `mkdirs` takes a file that is in the way, or a dangling link, for
  a directory.
* `Dates`: 30 December of a leap year reads as the 31st, and days of the centuries that are not
  leap years are wrong; `addYears` from 29 February; `ScheduleTime` drops parts of a second; a
  negative difference is taken for a huge one.
* `Serialization`: a string is read back with its terminator, so that keys of a map are not found; an
  empty string leaves what the target held; a read that fails leaves the target half read.
* `Sharing`: `operator=` releases before it acquires; `operator+` and `operator-` of
  `InterLockedLong` change their argument; a process that meets the semaphore name of another
  uses `SEM_FAILED` as a pointer and then unlinks the other's name.
* `Components`: of two instructions of one name the first instance is never closed; `SysPathMgr::add`
  always returns false; `SysCounterMgr` cannot start without a counter.

## Proofs

For any set of threads, any items and any limits:

* `SemTypeCorrect`, `SemNoSuccessAfterAbandon` (`ThdQueueProofs`). That `_waiters` is a
  natural number is not inductive: a decrement of it is only safe because it counts exactly
  the threads at `sem_wait`. `SemInv` is the types and that count; a lemma for one step of
  the semaphore is used again by the queue.
* `QueueTypeCorrect`, `QueueTokens`, `QueuePopHasItem`, `QueueImplements`
  (`ThdQueueProofs`). `QueueInv` adds to the types: where a thread may be in the semaphore
  when it is at a place of the queue (`PcsAgree`), who holds `_guard`, that only down
  abandons, that the queue is no longer than the number of inserts, and that while the
  queue is up tokens and items match. The last needs all the others: a step of the semaphore
  keeps it only if the semaphore is not abandoned, and `InsertSignal` only if the semaphore
  is not at its limit. That a pop finds an item follows, and from that the refinement of
  `ClosableQueue`.
* `EvNoLostSignal`, `EvOneReleasePerSignal`, `EvImplementsEventObject` (`ThdSyncProofs`). For a
  manual event the first is not inductive: a woken thread leaves and the flag stays up. What
  helps is that nobody goes to sleep on a raised flag, so that whoever still sleeps on one has
  the broadcast ahead of him (`BroadcastToCome`). The refinement needs only the types.
* `RWExclusion` (`ThdSyncProofs`). That a reader who joins finds no writer depends on where
  the token of `_dataLock` is, and that on `_readCount` being the number of readers. `RWInv`
  says this as long as no wait was interrupted, and that only the first reader keeps
  `_readLock`, alone; the proof counts the threads at each place before and after a step.
* `RWWritersExclusive` (`ThdSyncProofs`). Here waits are interrupted and `RWInv` says little.
  A first reader who is interrupted leaves `_readCount` above the number of readers, and then it
  never comes down to 0: nobody gives back a token that nobody took. Until then the readers
  together hold one token if there are any, and `Covered` counts it (`WritersInv`).
* `SchedTypeCorrect`, `SchedTimerCoversHead` (`ThdSyncProofs`). The second is inductive
  with the types. The argument is in `NotHeadCovered` (an item that is added without a signal
  has some other item at or before its time, which the timer covers already) and `DrainFinds`
  (the head the scheduler thread finds is an earliest entry; that there is a head is
  `HeadExists`, by well-foundedness of the finite heap).
* `HeapIsCorrect` (`ThdSyncProofs`), for any keys, values and operations: `HeapOrder` between
  operations, `LookupExact` in every state, `LoopMoves`, and the refinement of `PriorityMap`, which
  the scheduler is proved over. `HeapInv` says what the order is while a loop runs: only the entry
  it follows may be greater than its parent and, in `down`, less than its children (`OrderBut`), and
  its children are in order with its parent (`OrderAcross`), without which an exchange could leave
  two others out of order. `Points` makes the iterator of each entry its own place, from which the
  map stays the same under an exchange (`SwapKeeps`), and loses or gains one key (`WithoutEntry`,
  `WithEntry`). That the first entry is the greatest (`HeadIsGreatest`) is an induction along the
  parents, from the well-foundedness of the naturals.
* `RpcAnsweredOnce`, `RpcStoppedIsQuiet`, `RpcDestroyedIsQuiet` (`RpcServerProofs`). For the
  first, `AnswerInv` says that a request is owed its answer by at most one of the listener that
  reads it, the map of pending posts and the worker that took it out of the map, and by nobody
  once it is answered. For the second, `QuietInv` says for each place of the owner within start
  and stop where the listener can be, what the status is and which events can be up
  (`StartPhase`, `StopPhase`); a stale `_startedEvent` or `_stoppedEvent` breaks exactly that.
  For the third, `DestroyInv` adds that the destructor finds the listener parked, or gone after
  it failed to listen, or never made, and follows it through the calls of the destructor (`ShutPhase`).
  That a destructor begins only when nobody holds a reference is what keeps pending calls out of it.
* `LogIsSafe` (at the end of `StdLogger`): types, `WrittenInOrder` and `BegunThreadAwaited`.
  `LogInv` says that what was submitted is what is written, then what the thread or the owner of
  `_lock` has in hand (`InHand`), then `_mq`; that only one of the two ever writes; and that a
  thread that has begun keeps `_exitEvent` down until it leaves.

* `ErasedIsNeverReceived` (`ThdQueueProofs`). `DequeInv`: an item is not inserted yet, in the deque at
  one place, received, or taken back, and never two of these. It stands on no property of the
  semaphore: an item can be taken back while its token is on the way, and the remover that gets the
  token finds what is there.
* `PoolIsSafe` (`ThdQueueProofs`). `RunnerInv` says the same of runners: a user brings it, one queue
  holds it, one worker runs it, or it was taken back. `MadeInv` is about pools made on first use: the
  entries of a pool are the first ones, who makes them holds the guard, and without the guard a pool
  that was made has all of them. `DownInOrder` is the order in which the destructor takes the queues
  down, which the other two need where it and a first use meet.
* `ThreadIsSafe` (`ProcessesProofs`). `CreatorKnows` and `ChildKnows` relate the places of the two
  threads over the startup condition: the child that may still notify has a creator that waits for
  it. `Joined` counts the joins, one on the way out of a failing `create` and one by the owner.
* `DaemonIsSafe` (`ProcessesProofs`). `MainKnows` is what the first thread has set up at each of its
  places, `SigKnows` that nothing is pending while the signal thread takes signals, and that it
  leaves only with an answer to its `stop`.
* `NTIsSafe` (`ProcessesProofs`). `NTInv`: the registry holds the parameters of the last
  installation or none (`RegistryKnows`), what each thread still has to tell, and, as long as
  there was no exception (`NoException`), that the last status is told at the end and that without a
  timeout the watcher ends before the events are closed.
* `CallIsSafe` (`RpcPartsProofs`). `AttemptsCounted`: what was carried out and what is under way are
  together no more than the attempts, and the attempt that is being posted is in neither. With
  `ReplyKnows` an answer exists only where the method ran; `LateKnows` says who can still post on a
  transport that went down.
* `DispatchIsSafe` (`RpcPartsProofs`). `ReferenceInv`: nothing in a map of a tenant, in the table of
  an interface that lives or in the hands of a worker has lost its last reference, which an
  interface must have before its methods do (`ReleaseKeepsHeld`). `ResultInv`: one result for every
  instruction behind the worker, and the calls are those whose results tell of one.
* `ContentIsSafe` (`RpcPartsProofs`), for any finite set of transports. `MachineInv` says for each
  transport which places of the listener, status and events go with the command that somebody waits
  for (`Obeys`), and who that can be: the owner for what is in the map, the destructor of who dropped
  the last reference for what is not (`Owned`), and that nobody uses what is being destroyed
  (`UsersKnow`). That a transport without an object has no listener,
  but for one whose `listen` failed, is in it. `PlanInv` and `StatusInv` are about what is left of the
  owner's call: a status of a stop comes behind commands that stop all of the map, and what they
  have stopped stays so until a start that ends with the status Started (`StopsAll`,
  `StoppedQuiet`); what sets Shutdown has dropped everything before. `PostInv` follows a post from
  the listener's hand into `_pendingServer` and out of it once. That the plans of the five calls are
  such plans is shown piece by piece, from lemmas about concatenation (`JoinedFits`,
  `BehindCommands`, `SetBehindDrops`).
* `PostIsSafe` (`NetHttpPostProofs`). `AbortInv`: between lock and unlock `send` owns the mutex, and an
  abort that met it in time is still set when it looks. `SocketInv`: connections are made one after
  the other and the server serves the one it accepted. `Exchanges` is what makes a reply the whole
  reply: between the connect and the close a connection carries the request of the thread that made it,
  cut as it may be between what is read and what is in the socket, and at most one message back,
  written when the request was read or given up. A connect that finds no host or no socket leaves the
  old connections as they are (`NoSocketKeepsSockets`). It needs both of the others, as two threads use one
  `HttpClientPost` and the socket of the last one.
* `LoopsGetOn` (`DataProofs`), the action property `LoopsAdvance`. Every loop moves because a search
  that finds something finds it at or behind where it began, and the first of it (`MinOfNats`, from
  the well-foundedness of the naturals). `TokInv`: a search of the whole delimiter comes back to 0
  only on a text that begins with it, the one on which `findAllTokens` never ends. For the parser,
  a search behind the blanks finds the same `=` as one before them (`ParseMoves`).
* `ObjectsAreExact` (`DataProofs`), the invariant `ObjectsExact`. It puts together what is proved of
  each component for its own specification:
  * `RefIsSafe`. `RefInv`: a count is the number of pointers that keep the object, by cardinality,
    and one for the member of an object that is not destroyed yet; who found the last reference is
    the only one who did (`Lives`), between its decrement and its deletion.
  * `LibraryIsSafe`, `NamesAreSafe`. A copied loader and a closed one change the set of loaders that
    have the library by one (`DllInv`). `NamesInv` adds who is between taking a number and creating
    the semaphore with it.
  * `ListenersAreCalled`. `CalledSoFar`: a listener that nobody added or removed is in the list as
    often as it was when `notify` began, and was called as often as it is in it before the iterator.
    An erased place moves up what is behind it, which is a bijection of the others' places
    (`OthersAfterErase`); an erased place before the iterator is where the iterator is undefined.
  * `ComponentsAreSafe`. `CompInv`: an instance holds just what it asked for of those that were there
    when its `init` and, once it was run, its `postInit` asked (`HoldsItsPeers`), and until the
    context closes the table of components has the names of the instances. `CloseInv`: the table
    has the latest of each name, and those the iterator of `~SysContext` has passed were closed, in
    the order of their names.
  * `PathsAreRooted`. `BuildsRooted`: what `resolve` has built is under the root, or it has nothing
    yet and a variable is next, whose path is under the root.
  * `CountersAreKept`. `CounterInv`: a node that has a name has that of a counter, and the first node
    of each name that the iterator of `update` has passed has its counter's value; to save another
    leaves that node alone (`SavedNodes`).
* `LogsAreExact` (`DataProofs`), the invariant `LogsExact`: the rotation of files over restarts, and
  the log of the system. `NewestIs` orders the files by how far they are `Behind` the newest one
  around the rotation: their entries are later and their times not earlier the nearer they are, and
  all but the newest are full. A rotation then overwrites the oldest entries (`RenewedIsNewest`), and
  a restart whose latest time is that of one file finds the newest (`UseIsLatest`). Without the order
  of the entries no invariant says why the file that is overwritten has nothing new in it; once a
  restart chose among files of one second (`tied`) nothing of it is left but the limits. `SystemInv`
  counts the calls whose level is asked for up to each of them.
* `DeadlinesAreSafe`, `InstantsAreClose` (`DataProofs`), for every moment and length, which the runs
  take from a few. `InstantInv` bounds by the number of slips what was left out; with a zone of
  whole seconds the way over the local clock leaves out no more.

Assumptions: the constants' (`SemAssumption`, `ThdQueueAssumption`, `ThreadsAssumption`,
`EventAssumption`, `RWLockAssumption`, `SchedulerAssumption`, `HeapAssumption`, `ThdPoolAssumption`,
`TransportAssumption`, `NTServiceAssumption`, `RpcClientAssumption`, `RpcDispatchAssumption`,
`ContentServerAssumption`, `NetHttpPostAssumption`, `StdLoggerAssumption`,
`StringTextAssumption`, `MappingAssumption`, `SharingAssumption`, `ComponentsAssumption`,
`DatesAssumption`, `LogFilesAssumption`), among them that the semaphore can count as many items as are inserted, that
the bound on the size of a pool is not 0, that the heap's values are numbers, that
the names of components differ, as the keys of a map do, and no directory is a variable of paths, that an interface is no method, that the transports of
a content server, the threads that share objects and the loaders of a library are finitely many,
and that the zone is whole seconds, as `tm_gmtoff` is. The bounds of the runs (`MaxSignals`,
`MaxInterrupts`, `MaxClock`, `MaxStarts`, ...) are arbitrary numbers there.

Only model-checked: everything about liveness (fairness is out of the prover's reach: the
`*Progress` properties), and the recursive algorithms of the sequential parts (`Dates`,
`StringText`, `Files`, ...), whose results are defined by recursion over data: the `*Exact`
invariants of `data` but `ObjectsExact` and `LogsExact`, and but for the parts of `DatesExact` that `DataProofs`
proves. Every other invariant that a run checks is a theorem.

## Not modelled

* Mutex, critical section and waitable timer: a mutex is a call of pthread, and its use is in the
  modules of those that lock it; the timer is not part of the UNIX build.
* `Bootstrap` and the factories of objects: they fill a static map before `main` does anything, and
  nothing changes it later. What the loader of components takes from it is in `Components`.
* `RpcHttpAuthenticator`: it computes a string, and nothing in the library asks for it.
* In `RpcServer`, transports that are added to or removed from a server that runs: `ContentServer`
  has several transports, in loops of the same shape.
* `setFormat` of the loggers, `updateComponentContext` and the options of sockets: what they change is read by nothing that is modelled.
* In `Dates`, `setDST`, `setSTD`, `weekOfYear`, the streams, `strftime`'s formats and the difference
  of two `ScheduleTime`s.
* In `Serialization`, sets, pointers and the counters that a caller may supply: the loops are those
  of vectors and maps.
* `String` (it is `std::basic_string`) and the conversions between character sets, which are the
  operating system's.
* The copy constructor of `Heap`, which keeps iterators into the vector it copied, and which nothing
  calls; `ThdSemaphore::open`, which has no caller either.
* Priorities and stack sizes of threads, `size()` and `isDown()`, which change nothing.
* `FileIterImpWin32` and the other files for Windows beside the service, `SysSecurity`: no build for
  UNIX compiles them. The parsing of XML is that of Xerces.

## Plan

Done: threads and synchronisation with their proofs; the RPC server and its transport; pool, logger,
HTTP posts, client, dispatcher and content server; daemon and service; the sequential parts.

The safety invariants of all concurrent parts, of the heap, and of components and shared objects are
proved. Left, in this order:

1. The types of `RpcServer`, which no proof needs as a whole.
2. An abstract specification of an exchange of requests and answers, which `RpcServer` and
   `RpcClient` implement, each from its side, and the proof of it.
3. The composition of `ThdPool` with `RpcServer`, whose workers are its threads.
