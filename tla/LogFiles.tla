------------------------------ MODULE LogFiles ------------------------------
(***************************************************************************)
(* Where the logger's messages go: StdFileImpl, which writes a rotation of *)
(* files and finds its place in it after a restart                         *)
(* (src/src/log/LogStdFileImpl.cpp), UnixSyslogImpl and NTEventLogImpl,    *)
(* which hand them to the system, and the formats of a line (StdFormatter  *)
(* and TokenFormatter).  The entries are numbered as they are written.     *)
(***************************************************************************)
EXTENDS Naturals, Sequences, SequencesExt, FiniteSets, FiniteSetsExt

CONSTANTS
  LogKinds,      \* the levels below LOGC_ALL
  FileCounts,    \* values of num-logs
  FileLimit,     \* log-size
  EntrySizes,    \* the sizes of entries
  MaxEntries,    \* bound: how many are written
  MaxClock,      \* bound: how many seconds pass
  FormatPieces,  \* what formats are put together from: sequences of characters
  MaxFormat,     \* bound: how many pieces
  FormatParams   \* the parameters of a TokenFormatter: a function

ASSUME LogFilesAssumption ==
  /\ FileCounts \subseteq Nat /\ EntrySizes \subseteq Nat \ {0}
  /\ {FileLimit, MaxEntries, MaxClock, MaxFormat} \subseteq Nat
  /\ "all" \notin LogKinds

VARIABLES
  logConfig,   \* what the configuration says, "none" before init
  logFiles,    \* the files: [there, size, time, entries]
  logAt,       \* _logIndex + 1 while a file is open, 0 otherwise
  clock,       \* the time, in seconds
  written,     \* how many entries were written so far
  tied,        \* ghost: a restart chose among files of one time
  systemLog,   \* a log of the system: its configuration, and what it was told
  format       \* the pieces of a format, and what the formatter makes of it

logFilesVars == <<logConfig, logFiles, logAt, clock, written, tied, systemLog, format>>

NoConfig == [levels |-> {}, count |-> 0, size |-> 0]
NoFile == [there |-> FALSE, size |-> 0, time |-> 0, entries |-> <<>>]
NoSystemLog == [kind |-> "none", levels |-> {}, named |-> FALSE, options |-> {},
                ready |-> FALSE, asked |-> <<>>, told |-> <<>>]
NewFile(now) == [there |-> TRUE, size |-> 0, time |-> now, entries |-> <<>>]

LogFilesInit ==
  /\ logConfig = NoConfig
  /\ logFiles = <<>>
  /\ logAt = 0 /\ clock = 0 /\ written = 0
  /\ tied = FALSE
  /\ systemLog = NoSystemLog
  /\ format = [pieces |-> <<>>, out |-> <<>>]

-----------------------------------------------------------------------------
(* StdFileImpl *)

\* The configuration a process is started with, and the names init makes of it:
\* one, unless there is a limit and a count of more than one.
Limited(count, size) == count > 0 /\ size > 0
Configure ==
  /\ logConfig = NoConfig /\ systemLog = NoSystemLog /\ format.pieces = <<>>
  /\ \E levels \in (SUBSET (LogKinds \cup {"all"})) \ {{}}, count \in FileCounts,
        size \in {0, FileLimit} :
       /\ logConfig' = [levels |-> levels, count |-> count, size |-> size]
       /\ logFiles' = [i \in 1..(IF Limited(count, size) THEN count ELSE 1) |-> NoFile]
  /\ UNCHANGED <<logAt, clock, written, tied, systemLog, format>>

Rotates == Limited(logConfig.count, logConfig.size)
Indexes == 1..Len(logFiles)
Following(i) == IF i + 1 > Len(logFiles) THEN 1 ELSE i + 1

\* open, to append to a file or to truncate it.
OpenToAppend(i) ==
  /\ logAt' = i
  /\ logFiles' = IF logFiles[i].there THEN logFiles ELSE [logFiles EXCEPT ![i] = NewFile(clock)]
OpenTruncated(i) ==
  /\ logAt' = i
  /\ logFiles' = [logFiles EXCEPT ![i] = NewFile(clock)]

\* The file written last; of several of one second, the first one.
There == {i \in Indexes : logFiles[i].there}
LastWritten == {i \in There : \A j \in There : logFiles[j].time <= logFiles[i].time}

\* init, once the configuration is read.
InitLog ==
  /\ logConfig # NoConfig /\ logAt = 0
  /\ IF ~Rotates \/ ~logFiles[1].there
     THEN OpenToAppend(1) /\ UNCHANGED tied
     ELSE LET use == Min(LastWritten)
          IN /\ tied' = (tied \/ Cardinality(LastWritten) > 1)
             /\ IF logFiles[use].size < FileLimit THEN OpenToAppend(use)
                ELSE OpenTruncated(Following(use))
  /\ UNCHANGED <<logConfig, clock, written, systemLog, format>>

\* The test of the levels, the same in all three classes.
Selected(level, levels) == "all" \in levels \/ level \in levels

\* writeLogEntry: the entry, then the rotation when the file is too long.
TooLong(size) == logConfig.size > 0 /\ size > FileLimit
\* Mutant: the next file is opened as it is.
RotatedAppends(files) ==
  IF Rotates /\ TooLong(files[logAt].size)
  THEN /\ logAt' = Following(logAt)
       /\ logFiles' = [files EXCEPT ![Following(logAt)].there = TRUE]
  ELSE logFiles' = files /\ UNCHANGED logAt

Rotated(files) ==
  IF Rotates /\ TooLong(files[logAt].size)
  THEN /\ logAt' = Following(logAt)
       /\ logFiles' = [files EXCEPT ![Following(logAt)] = NewFile(clock)]
  ELSE logFiles' = files /\ UNCHANGED logAt

WriteLogEntry ==
  /\ logAt # 0 /\ written < MaxEntries
  /\ \E level \in LogKinds, size \in EntrySizes :
       LET entry == [logFiles[logAt] EXCEPT !.size = @ + size, !.time = clock,
                                            !.entries = Append(@, written + 1)]
       IN IF Selected(level, logConfig.levels)
          THEN written' = written + 1 /\ Rotated([logFiles EXCEPT ![logAt] = entry])
          ELSE UNCHANGED <<written, logFiles, logAt>>
  /\ UNCHANGED <<logConfig, clock, tied, systemLog, format>>

\* The process ends, with or without its destructor: every entry was flushed.
ProcessEnds ==
  /\ logAt # 0
  /\ logAt' = 0
  /\ UNCHANGED <<logConfig, logFiles, clock, written, tied, systemLog, format>>

SecondPasses ==
  /\ logConfig # NoConfig /\ clock < MaxClock
  /\ clock' = clock + 1
  /\ UNCHANGED <<logConfig, logFiles, logAt, written, tied, systemLog, format>>

-----------------------------------------------------------------------------
(* UnixSyslogImpl and NTEventLogImpl *)

Configured(kind, levels, named, options, ready) ==
  /\ logConfig = NoConfig /\ systemLog = NoSystemLog /\ format.pieces = <<>>
  /\ systemLog' = [NoSystemLog EXCEPT !.kind = kind, !.levels = levels, !.named = named,
                                      !.options = options, !.ready = ready]
  /\ UNCHANGED <<logConfig, logFiles, logAt, clock, written, tied, format>>

\* init of UnixSyslogImpl, which fails when nothing at all is configured.
\* openlog is called for a log-server alone: without one the options are lost.
SyslogOptions == {"log-stderr", "log-stdout", "log-pid"}  \* the first one on Linux alone
InitSyslog ==
  \E levels \in SUBSET (LogKinds \cup {"all"}), server \in BOOLEAN,
     said \in [SyslogOptions -> {"absent", "true", "false"}] :
    Configured("syslog", levels, server,
               {o \in SyslogOptions : server /\ said[o] = "true"},
               levels # {} \/ server \/ \E o \in SyslogOptions : said[o] # "absent")

\* init of NTEventLogImpl, which needs a server, a source and a message DLL.
InitEventLog ==
  \E levels \in SUBSET (LogKinds \cup {"all"}), given \in SUBSET {"server", "source", "dll"} :
    LET complete == given = {"server", "source", "dll"}
    IN Configured("event", levels, complete, {}, complete)

\* The priority a message is given; a level of its own is an error to syslog,
\* and information to the event log.
SyslogPriority(level) ==
  CASE level = "warn" -> "LOG_WARNING" [] level = "debug" -> "LOG_DEBUG"
    [] level = "msg" -> "LOG_INFO" [] OTHER -> "LOG_ERR"
EventType(level) ==
  CASE level = "err" -> "ERROR" [] level = "warn" -> "WARNING" [] OTHER -> "INFORMATION"
Priority(kind, level) == IF kind = "syslog" THEN SyslogPriority(level) ELSE EventType(level)

\* writeLogEntry of both; the logger uses no implementation whose init failed.
WriteToSystem ==
  /\ systemLog.ready /\ Len(systemLog.asked) < 2
  /\ \E level \in LogKinds :
       systemLog' =
         [systemLog EXCEPT !.asked = Append(@, level),
                           !.told = IF Selected(level, systemLog.levels)
                                    THEN Append(@, Priority(systemLog.kind, level)) ELSE @]
  /\ UNCHANGED <<logConfig, logFiles, logAt, clock, written, tied, format>>

-----------------------------------------------------------------------------
(* StdFormatter and TokenFormatter *)

\* The tokens of StringTokenizer(fmt, "$", false): what is between the signs,
\* but for nothing at the end.
SignFields(s) ==
  LET from[i \in 1..Len(s) + 1] ==
        LET signs == {j \in i..Len(s) : s[j] = "$"}
        IN IF i > Len(s) THEN <<>>
           ELSE IF signs = {} THEN <<SubSeq(s, i, Len(s))>>
           ELSE <<SubSeq(s, i, Min(signs) - 1)>> \o from[Min(signs) + 1]
  IN from[1]

\* The constructor of StdFormatter: a field is the number its text begins with,
\* 0 when it begins with none; a number with no meaning stands for its text.
NumberChars == <<"0", "1", "2", "3", "4", "5", "6", "7", "8", "9">>
FieldId(token) ==
  LET ends == {n \in 0..Len(token) : \A i \in 1..n : token[i] \in ToSet(NumberChars)}
      digit(c) == CHOOSE d \in 0..9 : NumberChars[d + 1] = c
  IN FoldLeft(LAMBDA id, c : 10 * id + digit(c), 0, SubSeq(token, 1, Max(ends)))
FormatToken(token) == IF FieldId(token) > 6 THEN token ELSE <<<<"field", FieldId(token)>>>>

\* TokenFormatter::format: a parameter, or nothing when there is none.
ParamToken(token) == IF token \in DOMAIN FormatParams THEN FormatParams[token] ELSE <<>>

\* An empty token is a sign at the start, or the end of one field and the start
\* of the next.
EmptyToken(state) == [state EXCEPT !.processing = ~@]

\* The loop of both, where reads gives what each token stands for.
FormatStep(state, token, reads) ==
  IF token = <<>> THEN EmptyToken(state)
  ELSE [processing |-> ~state.processing,
        out |-> state.out \o (IF state.processing THEN reads[token] ELSE token)]
Formatted(s, reads) ==
  FoldLeft(LAMBDA state, token : FormatStep(state, token, reads),
           [processing |-> FALSE, out |-> <<>>], SignFields(s)).out

AddPiece ==
  /\ logConfig = NoConfig /\ systemLog = NoSystemLog
  /\ Len(format.pieces) < MaxFormat
  /\ \E piece \in FormatPieces :
       LET pieces == Append(format.pieces, piece)
           s == FlattenSeq(pieces)
           tokens == ToSet(SignFields(s))
       IN format' = [pieces |-> pieces,
                     out |-> <<Formatted(s, [token \in tokens |-> FormatToken(token)]),
                               Formatted(s, [token \in tokens |-> ParamToken(token)])>>]
  /\ UNCHANGED <<logConfig, logFiles, logAt, clock, written, tied, systemLog>>

LogFilesNext ==
  \/ Configure \/ InitLog \/ WriteLogEntry \/ ProcessEnds \/ SecondPasses
  \/ InitSyslog \/ InitEventLog \/ WriteToSystem \/ AddPiece

LogFilesSpec == LogFilesInit /\ [][LogFilesNext]_logFilesVars

-----------------------------------------------------------------------------
(* Properties *)

OnDisk == UNION {ToSet(logFiles[i].entries) : i \in Indexes}

\* What is on the disk is what was written last, with no gap, over rotations
\* and restarts, as long as no restart had to choose among files of the same
\* second: then it may take up the rotation at the wrong file and truncate the
\* newest one.
NewestKept ==
  ~tied => /\ \E first \in 1..written + 1 : OnDisk = first..written
           /\ (Len(logFiles) > 1 \/ logConfig.size = 0) => (written > 0 => written \in OnDisk)

\* A rotating file is never longer than the limit and one entry, and an entry
\* is in one file.
FilesBounded ==
  /\ Rotates => \A i \in Indexes :
                  \E size \in EntrySizes \cup {0} : logFiles[i].size <= FileLimit + size
  /\ \A i, j \in Indexes :
       i # j => ToSet(logFiles[i].entries) \cap ToSet(logFiles[j].entries) = {}

\* A file of the rotation is left only when it is longer than the limit: with
\* several files, what they hold is at least what the limit lets all but the
\* file in use hold, once the rotation has gone around.
RotationFills ==
  (Rotates /\ ~tied) =>
    \A i \in There : (i # logAt /\ logAt # 0 /\ logFiles[i].entries # <<>>)
                       => logFiles[i].size >= FileLimit

\* The log of the system is told what was asked for, in order, and an error as
\* one; a log in use has a name or what is asked for by its levels or options.
SystemIsTold ==
  LET wanted == {k \in DOMAIN systemLog.asked : {systemLog.asked[k], "all"} \cap systemLog.levels # {}}
      place(k) == Cardinality(wanted \cap 1..k)
  IN /\ Len(systemLog.told) = Cardinality(wanted)
     /\ \A k \in wanted : systemLog.asked[k] = "err" =>
          place(k) \in DOMAIN systemLog.told /\ systemLog.told[place(k)] \in {"LOG_ERR", "ERROR"}
     /\ systemLog.options # {} => systemLog.named

\* A format yields its pieces, each in its place: the characters outside the
\* signs, and the field or the parameter between two of them.
FormatFollowsPieces ==
  LET inside(piece) == SubSeq(piece, 2, Len(piece) - 1)
      fields(piece) == IF piece[1] = "$" THEN FormatToken(inside(piece)) ELSE piece
      params(piece) == IF piece[1] = "$" THEN ParamToken(inside(piece)) ELSE piece
      each(meanings) == FlattenSeq([i \in DOMAIN format.pieces |-> meanings[format.pieces[i]]])
      of == ToSet(format.pieces)
  IN format.pieces # <<>> =>
       format.out = <<each([p \in of |-> fields(p)]), each([p \in of |-> params(p)])>>
============================================================================
