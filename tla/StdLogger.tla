----------------------------- MODULE StdLogger -----------------------------
(***************************************************************************)
(* StdLogger (src/src/log/LogStdLogger.cpp): logMessage writes to the      *)
(* implementations itself, under _lock, or, in threaded mode, leaves the   *)
(* message in _mq for the thread in processMessages.                       *)
(*                                                                         *)
(* _mq is a closable queue (see ClosableQueue).  _exitEvent is constructed *)
(* signalled; the thread resets it when it starts and signals it at its    *)
(* end, in two steps as everywhere (see ThdEvent): the flag, and then the  *)
(* event is touched again.  The read-write lock of the cache is atomic     *)
(* here; that it excludes is shown for ThdRWLock, and that an acquisition  *)
(* may fail is kept.                                                       *)
(***************************************************************************)
EXTENDS Naturals, Sequences, SequencesExt, FiniteSets, TLAPS

CONSTANTS
  Loggers,   \* the threads that log
  Messages,  \* what they log: [id, level, inResource]
  LogLevels, \* the values _mLogLevel is given
  NoMessage

ASSUME StdLoggerAssumption == NoMessage \notin Messages \cup Loggers

VARIABLES
  logLevel,   \* _mLogLevel
  logThread,  \* where the thread in processMessages is
  logQ,       \* _mq
  logDown,    \* it is down
  logItem,      \* the item of processMessages
  exitEvent,  \* _exitEvent is signalled
  logging,    \* where each caller is
  item,       \* what it logs
  logLock,    \* the owner of _lock
  stringCache,\* the ids in _stringCache
  written,    \* what the implementations got, in order
  submitted,  \* what passed the level, in the order of submission
  logDtor     \* how far ~StdLogger is

callerVars == <<logging, item, stringCache>>
logQVars == <<logQ, logDown, submitted>>
threadVars == <<logThread, exitEvent, logItem>>
logVars == <<callerVars, logQVars, threadVars, logLevel, logLock, written, logDtor>>

(***************************************************************************)
(* The thread                                                              *)
(* none       not threaded, or newWorkerThread returned NULL               *)
(* starting   released, not yet at _exitEvent.reset                        *)
(* waiting    in _mq.remove                                                *)
(* writing    in logOne                                                    *)
(* leaving    out of the loop, before the flag of _exitEvent               *)
(* notifying  in _exitEvent.signal, behind the flag                        *)
(***************************************************************************)
LogThreadPcs == {"none", "starting", "waiting", "writing", "leaving", "notifying", "exited",
  "crashed"}

LoggingPlaces == {"idle", "missed", "formatting", "writing", "gone"}

LogTypeOK ==
  /\ logLevel \in LogLevels
  /\ logThread \in LogThreadPcs
  /\ logQ \in Seq(Messages)
  /\ logDown \in BOOLEAN /\ exitEvent \in BOOLEAN
  /\ logging \in [Loggers -> LoggingPlaces]
  /\ logLock \in Loggers \cup {NoMessage}
  /\ logDtor \in {"none", "waiting", "done"}

\* init: the level is what the configuration says, and the thread is made when
\* it says "threaded".
LogInit ==
  /\ logLevel \in LogLevels
  /\ logThread \in {"none", "starting"}
  /\ logQ = <<>>
  /\ logDown = FALSE
  /\ logItem = NoMessage
  /\ exitEvent = TRUE
  /\ logging = [l \in Loggers |-> "idle"]
  /\ item = [l \in Loggers |-> NoMessage]
  /\ logLock = NoMessage
  /\ stringCache = {}
  /\ written = <<>>
  /\ submitted = <<>>
  /\ logDtor = "none"

\* _runner # NULL
Threaded == logThread # "none"

LogMove(l, from, to) ==
  /\ logging[l] = from
  /\ logging' = [logging EXCEPT ![l] = to]

Logged == {item[l] : l \in Loggers} \cup ToSet(submitted)

-----------------------------------------------------------------------------
(* logMessage *)

\* By text, or by an id that is in the cache.  A failed acquireReadLock drops
\* the message.
LogMessage(l, m) ==
  /\ logDtor = "none"
  /\ logging[l] = "idle"
  /\ m \notin Logged
  /\ \/ /\ ~m.inResource \/ m.id \in stringCache
        /\ logging' = [logging EXCEPT ![l] = "formatting"]
     \/ /\ m.inResource /\ m.id \notin stringCache
        /\ logging' = [logging EXCEPT ![l] = "missed"]
     \/ /\ m.inResource
        /\ logging' = [logging EXCEPT ![l] = "gone"]
  /\ item' = [item EXCEPT ![l] = m]
  /\ UNCHANGED <<logQVars, threadVars, logLevel, logLock, stringCache, written,
                 logDtor>>

\* getCacheMessage between its two locks: several callers may fetch the same
\* string and insert it again.  An empty string is not found.
FetchString(l) ==
  /\ logging[l] = "missed"
  /\ \/ /\ stringCache' = stringCache \cup {item[l].id}
        /\ logging' = [logging EXCEPT ![l] = "formatting"]
     \/ logging' = [logging EXCEPT ![l] = "gone"] /\ UNCHANGED stringCache
  /\ UNCHANGED <<logQVars, threadVars, logLevel, item, logLock, written, logDtor>>

Passes(m) == logLevel >= m.level

\* Mutant: two callers write at a time.
SubmitUnlocked(l) ==
  /\ LogMove(l, "formatting", "writing")
  /\ Passes(item[l])
  /\ submitted' = Append(submitted, item[l])
  /\ logLock' = l
  /\ UNCHANGED <<threadVars, logLevel, logQ, logDown, item, stringCache, written,
                 logDtor>>

Submit(l) ==
  /\ LogMove(l, "formatting", IF Threaded THEN "gone" ELSE "writing")
  /\ Passes(item[l])
  /\ submitted' = Append(submitted, item[l])
  /\ IF Threaded
     THEN /\ logQ' = Append(logQ, item[l])
          /\ UNCHANGED logLock
     ELSE /\ logLock = NoMessage
          /\ logLock' = l
          /\ UNCHANGED logQ
  /\ UNCHANGED <<threadVars, logLevel, logDown, item, stringCache, written, logDtor>>

Filtered(l) ==
  /\ LogMove(l, "formatting", "gone")
  /\ ~Passes(item[l])
  /\ UNCHANGED <<logQVars, threadVars, logLevel, item, logLock, stringCache, written,
                 logDtor>>

\* logOne, under _lock
WriteOne(l) ==
  /\ LogMove(l, "writing", "gone")
  /\ written' = Append(written, item[l])
  /\ logLock' = NoMessage
  /\ UNCHANGED <<logQVars, threadVars, logLevel, item, stringCache, logDtor>>

LogReturns(l) ==
  /\ LogMove(l, "gone", "idle")
  /\ item' = [item EXCEPT ![l] = NoMessage]
  /\ UNCHANGED <<logQVars, threadVars, logLevel, logLock, stringCache, written,
                 logDtor>>

-----------------------------------------------------------------------------
(* processMessages *)

ThreadMove(from, to) == logThread = from /\ logThread' = to

ProcessBegin ==
  /\ logDtor # "done"
  /\ ThreadMove("starting", "waiting")
  /\ exitEvent' = FALSE
  /\ UNCHANGED <<callerVars, logQVars, logLevel, logItem, logLock, written, logDtor>>

\* The logger is gone: what reset does to a destroyed event is undefined.
ProcessBeginsLate ==
  /\ logDtor = "done"
  /\ ThreadMove("starting", "crashed")
  /\ UNCHANGED <<callerVars, logQVars, logLevel, logItem, exitEvent, logLock, written,
                 logDtor>>

ProcessTake ==
  /\ ~logDown /\ logQ # <<>>
  /\ ThreadMove("waiting", "writing")
  /\ logItem' = Head(logQ)
  /\ logQ' = Tail(logQ)
  /\ UNCHANGED <<callerVars, logLevel, logDown, exitEvent, logLock, written, submitted,
                 logDtor>>

ProcessWrite ==
  /\ ThreadMove("writing", "waiting")
  /\ written' = Append(written, logItem)
  /\ logItem' = NoMessage
  /\ UNCHANGED <<callerVars, logQVars, logLevel, exitEvent, logLock, logDtor>>

ProcessLeave ==
  /\ logDown
  /\ ThreadMove("waiting", "leaving")
  /\ UNCHANGED <<callerVars, logQVars, logLevel, logItem, exitEvent, logLock, written,
                 logDtor>>

ProcessSetsExit ==
  /\ ThreadMove("leaving", "notifying")
  /\ exitEvent' = TRUE
  /\ UNCHANGED <<callerVars, logQVars, logLevel, logItem, logLock, written, logDtor>>

ProcessEnds ==
  /\ ThreadMove("notifying", "exited")
  /\ UNCHANGED <<callerVars, logQVars, logLevel, logItem, exitEvent, logLock, written,
                 logDtor>>

-----------------------------------------------------------------------------
(* ~StdLogger *)

\* Nobody may be in logMessage.
LogDestructs ==
  /\ logDtor = "none"
  /\ \A l \in Loggers : logging[l] = "idle"
  /\ logDtor' = "waiting"
  /\ logDown' = TRUE
  /\ UNCHANGED <<callerVars, threadVars, logLevel, logQ, logLock, written, submitted>>

LogDestroyed ==
  /\ logDtor = "waiting"
  /\ exitEvent
  /\ logDtor' = "done"
  /\ UNCHANGED <<callerVars, logQVars, threadVars, logLevel, logLock, written>>

-----------------------------------------------------------------------------

LogCaller(l) ==
  \/ FetchString(l)
  \/ Submit(l)
  \/ Filtered(l)
  \/ WriteOne(l)
  \/ LogReturns(l)

LogThread ==
  \/ ProcessBegin
  \/ ProcessBeginsLate
  \/ ProcessTake
  \/ ProcessWrite
  \/ ProcessLeave
  \/ ProcessSetsExit
  \/ ProcessEnds

LogNext ==
  \/ \E l \in Loggers, m \in Messages : LogMessage(l, m)
  \/ \E l \in Loggers : LogCaller(l)
  \/ LogThread
  \/ LogDestructs
  \/ LogDestroyed

\* A caller that is in logMessage goes on, and so does the thread; nobody has
\* to log or to destroy the logger.
LogFairness ==
  /\ \A l \in Loggers : WF_logVars(LogCaller(l))
  /\ WF_logVars(LogThread)
  /\ WF_logVars(LogDestroyed)

LogSpec == LogInit /\ [][LogNext]_logVars

-----------------------------------------------------------------------------
(* Properties *)

\* Whatever passes the level reaches the implementations once and in the order
\* in which it was submitted, by the callers themselves or by the thread: what
\* is written is always an initial part of what was submitted.
WrittenInOrder == IsPrefix(written, submitted)

\* A message that passed the level is written, unless the logger goes down
\* first: then what is left in the queue is lost.  (LogStdLogger.cpp:113-118)
SubmittedIsWritten ==
  []<>(logDtor # "none" \/ ToSet(submitted) \subseteq ToSet(written))

\* The destructor waits for a thread that had begun: it never takes the queue
\* and the implementations away from one that still uses them.  The one that
\* had not begun (starting) is not waited for: _exitEvent is signalled until
\* then.  (LogStdLogger.cpp:105-118, 206)
BegunThreadAwaited ==
  logDtor = "done" => logThread \in {"none", "starting", "notifying", "exited", "crashed"}

\* Messages are written in the order the callers queued them, and a logger
\* that is destroyed waits for a thread that has begun.
LogSafe == LogTypeOK /\ WrittenInOrder /\ BegunThreadAwaited
-----------------------------------------------------------------------------
(* Proofs                                                                  *)
(*                                                                         *)
(* What was submitted is what is written, then what the thread or the      *)
(* owner of _lock is writing, then the queue.                              *)

Typed ==
  /\ LogTypeOK
  /\ item \in [Loggers -> Messages \cup {NoMessage}]
  /\ \A l \in Loggers : logging[l] # "idle" => item[l] \in Messages
  /\ logThread = "writing" => logItem \in Messages
  /\ written \in Seq(Messages)
  /\ submitted \in Seq(Messages)

\* With no thread the callers write, one at a time.
Direct ==
  /\ logThread = "none" => logQ = <<>>
  /\ \A l \in Loggers : logging[l] = "writing" => ~Threaded /\ logLock = l
  /\ logLock # NoMessage => ~Threaded /\ logging[logLock] = "writing"

InHand ==
  IF logThread = "writing" THEN <<logItem>>
  ELSE IF logLock # NoMessage THEN <<item[logLock]>>
  ELSE <<>>

\* A thread that has begun keeps _exitEvent down until it leaves.
Begun ==
  logThread \in {"waiting", "writing", "leaving"} => ~exitEvent /\ logDtor # "done"

LogInv ==
  /\ Typed
  /\ Direct
  /\ Begun
  /\ submitted = (written \o InHand) \o logQ

LEMMA Concats ==
  ASSUME NEW S, NEW w \in Seq(S), NEW q \in Seq(S), NEW x \in S
  PROVE  /\ w \o <<>> = w
         /\ Append(w, x) = w \o <<x>>
         /\ Append(w, x) \in Seq(S)
         /\ q # <<>> => w \o q = (w \o <<Head(q)>>) \o Tail(q)
  <1>1. w \o <<>> = w
    OBVIOUS
  <1>2. Append(w, x) = w \o <<x>>
    OBVIOUS
  <1>3. Append(w, x) \in Seq(S)
    OBVIOUS
  <1>4. q # <<>> => w \o q = (w \o <<Head(q)>>) \o Tail(q)
    OBVIOUS
  <1>5. QED
    BY <1>1, <1>2, <1>3, <1>4

LEMMA AppendConcat ==
  \A w, q \in Seq(Messages), x \in Messages : Append(w \o q, x) = w \o Append(q, x)
  OBVIOUS

LEMMA PrefixOfConcat ==
  ASSUME NEW S, NEW w \in Seq(S), NEW h \in Seq(S), NEW q \in Seq(S)
  PROVE  IsPrefix(w, (w \o h) \o q)
  BY DEF IsPrefix

LEMMA LogInvInit == LogInit => LogInv
  <1> SUFFICES ASSUME LogInit PROVE LogInv
    OBVIOUS
  <1> USE StdLoggerAssumption DEF LogInit
  <1>1. Typed
    <2>1. LogTypeOK
      <3>1. logDown \in BOOLEAN /\ exitEvent \in BOOLEAN
        OBVIOUS
      <3>2. logging \in [Loggers -> LoggingPlaces]
        BY DEF LoggingPlaces
      <3>3. logQ \in Seq(Messages) /\ logThread \in LogThreadPcs
        BY DEF LogThreadPcs
      <3>4. QED
        BY <3>1, <3>2, <3>3 DEF LogTypeOK
    <2>2. \A l \in Loggers : logging[l] = "idle"
      OBVIOUS
    <2>3. QED
      BY <2>1, <2>2 DEF Typed
  <1>2. Direct /\ Begun
    BY DEF Direct, Begun, Threaded
  <1>3. submitted = (written \o InHand) \o logQ
    BY DEF InHand
  <1>4. QED
    BY <1>1, <1>2, <1>3 DEF LogInv

\* A step of a caller.  Only the submission and the end of the writing touch
\* the sequences.
LEMMA LogCallerStep ==
  ASSUME LogInv, NEW l \in Loggers,
         (\E m \in Messages : LogMessage(l, m)) \/ LogCaller(l)
  PROVE  LogInv'
  <1> USE StdLoggerAssumption DEF LogInv
  <1>1. CASE \E m \in Messages : LogMessage(l, m)
    <2>1. Typed'
      <3>1. LogTypeOK'
        BY <1>1 DEF LogMessage, Typed, LogTypeOK, logQVars, threadVars, LoggingPlaces
      <3>2. QED
        BY <1>1, <3>1 DEF LogMessage, Typed, LogTypeOK, logQVars, threadVars
    <2>2. Direct' /\ Begun'
      BY <1>1 DEF LogMessage, Typed, LogTypeOK, Direct, Begun, Threaded, logQVars, threadVars,
                  LoggingPlaces
    <2>3. InHand' = InHand
      BY <1>1 DEF LogMessage, Typed, LogTypeOK, Direct, InHand, threadVars
    <2>4. QED
      BY <1>1, <2>1, <2>2, <2>3 DEF LogMessage, logQVars
  <1>2. CASE FetchString(l) \/ Filtered(l) \/ LogReturns(l)
    <2> USE <1>2 DEF FetchString, Filtered, LogReturns, LogMove, logQVars, threadVars
    <2>1. Typed'
      BY DEF Typed, LogTypeOK, LoggingPlaces
    <2>2. Direct' /\ Begun'
      BY DEF Typed, LogTypeOK, Direct, Begun, Threaded, LoggingPlaces
    <2>3. InHand' = InHand
      BY DEF Typed, LogTypeOK, Direct, InHand
    <2>4. QED
      BY <2>1, <2>2, <2>3
  <1>3. CASE Submit(l)
    <2>1. item[l] \in Messages
      BY <1>3 DEF Submit, LogMove, Typed, LogTypeOK
    <2>2. Typed' /\ Direct' /\ Begun'
      <3>1. Append(submitted, item[l]) \in Seq(Messages) /\ Append(logQ, item[l]) \in Seq(Messages)
        BY <2>1, Concats DEF Typed, LogTypeOK
      <3>2. Typed'
        BY <1>3, <3>1 DEF Submit, LogMove, Typed, LogTypeOK, threadVars, LoggingPlaces
      <3>3. Direct' /\ Begun'
        BY <1>3 DEF Submit, LogMove, Typed, LogTypeOK, Direct, Begun, Threaded, threadVars,
                    LoggingPlaces
      <3>4. QED
        BY <3>2, <3>3
    <2>3. InHand \in Seq(Messages) /\ written \o InHand \in Seq(Messages)
      BY DEF InHand, Typed, LogTypeOK, Direct
    <2>4. CASE Threaded
      <3>1. /\ submitted' = Append(submitted, item[l]) /\ logQ' = Append(logQ, item[l])
            /\ written' = written /\ InHand' = InHand
        BY <1>3, <2>4 DEF Submit, Direct, InHand, threadVars
      <3>2. Append((written \o InHand) \o logQ, item[l])
              = (written \o InHand) \o Append(logQ, item[l])
        <4>1. logQ \in Seq(Messages) /\ written \o InHand \in Seq(Messages)
          BY <2>3 DEF Typed, LogTypeOK
        <4>2. QED
          BY <2>1, <4>1, AppendConcat
      <3>3. QED
        BY <2>2, <3>1, <3>2
    <2>5. CASE ~Threaded
      <3>1. /\ submitted' = Append(submitted, item[l]) /\ logQ' = <<>> /\ logQ = <<>>
            /\ written' = written /\ InHand = <<>> /\ InHand' = <<item[l]>>
        BY <1>3, <2>5 DEF Submit, Direct, InHand, Threaded, threadVars
      <3>2. QED
        BY <2>1, <2>2, <3>1, Concats DEF Typed, LogTypeOK
    <2>6. QED
      BY <2>4, <2>5
  <1>4. CASE WriteOne(l)
    <2>1. item[l] \in Messages /\ logLock = l /\ ~Threaded /\ logQ = <<>>
      BY <1>4 DEF WriteOne, LogMove, Typed, LogTypeOK, Direct, Threaded
    <2>2. Typed' /\ Direct' /\ Begun'
      BY <1>4, <2>1, Concats
      DEF WriteOne, LogMove, Typed, LogTypeOK, Direct, Begun, Threaded, logQVars, threadVars,
          LoggingPlaces
    <2>3. /\ submitted' = submitted /\ logQ' = <<>> /\ written' = Append(written, item[l])
          /\ InHand = <<item[l]>> /\ InHand' = <<>>
      BY <1>4, <2>1 DEF WriteOne, InHand, Threaded, logQVars, threadVars
    <2>4. QED
      BY <2>1, <2>2, <2>3, Concats DEF Typed, LogTypeOK
  <1>5. QED
    BY <1>1, <1>2, <1>3, <1>4 DEF LogCaller

\* A step of the thread or of the destructor.
LEMMA LogThreadStep ==
  ASSUME LogInv, LogThread \/ LogDestructs \/ LogDestroyed
  PROVE  LogInv'
  <1> USE StdLoggerAssumption DEF LogInv
  <1>1. CASE ProcessBegin \/ ProcessBeginsLate \/ ProcessLeave \/ ProcessSetsExit \/ ProcessEnds
    <2> USE <1>1 DEF ProcessBegin, ProcessBeginsLate, ProcessLeave, ProcessSetsExit, ProcessEnds,
                     ThreadMove, callerVars, logQVars
    <2>1. Typed'
      BY DEF Typed, LogTypeOK, LogThreadPcs
    <2>2. Direct' /\ Begun'
      BY DEF Direct, Begun, Threaded
    <2>3. InHand' = InHand
      BY DEF InHand
    <2>4. QED
      BY <2>1, <2>2, <2>3
  <1>2. CASE ProcessTake
    <2>1. logQ # <<>> /\ logLock = NoMessage
      BY <1>2 DEF ProcessTake, ThreadMove, Direct, Threaded
    <2>2. Typed' /\ Direct' /\ Begun'
      BY <1>2, <2>1
      DEF ProcessTake, ThreadMove, Typed, LogTypeOK, Direct, Begun, Threaded, callerVars,
          LogThreadPcs
    <2>3. /\ submitted' = submitted /\ written' = written
          /\ InHand = <<>> /\ InHand' = <<Head(logQ)>> /\ logQ' = Tail(logQ)
      BY <1>2, <2>1 DEF ProcessTake, ThreadMove, InHand
    <2>4. QED
      BY <2>1, <2>2, <2>3 DEF Typed, LogTypeOK
  <1>3. CASE ProcessWrite
    <2>1. logItem \in Messages /\ logLock = NoMessage
      BY <1>3 DEF ProcessWrite, ThreadMove, Typed, LogTypeOK, Direct, Threaded
    <2>2. Typed' /\ Direct' /\ Begun'
      BY <1>3, <2>1, Concats
      DEF ProcessWrite, ThreadMove, Typed, LogTypeOK, Direct, Begun, Threaded, callerVars,
          logQVars, LogThreadPcs
    <2>3. /\ submitted' = submitted /\ logQ' = logQ /\ written' = Append(written, logItem)
          /\ InHand = <<logItem>> /\ InHand' = <<>>
      BY <1>3, <2>1 DEF ProcessWrite, ThreadMove, InHand, logQVars
    <2>4. QED
      BY <2>1, <2>2, <2>3, Concats DEF Typed, LogTypeOK
  <1>4. CASE LogDestructs \/ LogDestroyed
    <2> USE <1>4 DEF LogDestructs, LogDestroyed, callerVars, logQVars, threadVars
    <2>1. Typed'
      BY DEF Typed, LogTypeOK
    <2>2. Direct' /\ Begun'
      BY DEF Direct, Begun, Threaded
    <2>3. InHand' = InHand
      BY DEF InHand
    <2>4. QED
      BY <2>1, <2>2, <2>3
  <1>5. QED
    BY <1>1, <1>2, <1>3, <1>4 DEF LogThread

LEMMA LogInvStep == LogInv /\ [LogNext]_logVars => LogInv'
  <1> SUFFICES ASSUME LogInv, [LogNext]_logVars PROVE LogInv'
    OBVIOUS
  <1>1. CASE LogNext
    BY <1>1, LogCallerStep, LogThreadStep DEF LogNext
  <1>2. CASE UNCHANGED logVars
    BY <1>2 DEF logVars, callerVars, logQVars, threadVars, LogInv, Typed, LogTypeOK, Direct,
                Begun, InHand,
                Threaded
  <1>3. QED
    BY <1>1, <1>2

\* Types, order and end of the thread, for any loggers and messages, with the
\* thread or without: what is written is an initial part of what was submitted,
\* and the destructor does not come back under a thread that has begun.
\* (LogStdLogger.cpp:106-118, 206-217, 229-252)
THEOREM LogIsSafe == LogSpec => []LogSafe
  <1>1. LogInv => LogSafe
    <2> SUFFICES ASSUME LogInv PROVE LogSafe
      OBVIOUS
    <2>1. LogTypeOK
      BY DEF LogInv, Typed
    <2>2. InHand \in Seq(Messages)
      BY StdLoggerAssumption DEF LogInv, Typed, LogTypeOK, Direct, InHand
    <2>3. WrittenInOrder
      BY <2>2, PrefixOfConcat DEF LogInv, Typed, LogTypeOK, WrittenInOrder
    <2>4. BegunThreadAwaited
      BY <2>1 DEF LogInv, Begun, LogTypeOK, LogThreadPcs, BegunThreadAwaited
    <2>5. QED
      BY <2>1, <2>3, <2>4 DEF LogSafe
  <1>2. QED
    BY <1>1, LogInvInit, LogInvStep, PTL DEF LogSpec
=============================================================================
