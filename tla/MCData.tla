------------------------------- MODULE MCData -------------------------------
(* The library's work on data, with no thread of its own: texts, mappings,  *)
(* file patterns, documents, HTTP messages, log files, the file system,     *)
(* dates, serialized objects, the components of a context, shared objects,  *)
(* and the arithmetic of deadlines.  An execution is about one subject, and *)
(* the others stay as they were constructed.                                *)
EXTENDS Mapping, DomTree, HttpText, LogFiles, Files,
        Dates, Serialization, Components, Sharing, TLC

VARIABLE subject

Init ==
  /\ subject \in {"text", "mapping", "pattern", "document", "http", "log",
                 "files", "date", "instant", "world", "keyed", "component",
                 "path", "counter", "reference", "conduit", "loader",
                 "names", "deadline"}
  /\ TextInit
  /\ MapInit
  /\ PatInit
  /\ DomInit
  /\ HttpInit
  /\ LogFilesInit
  /\ FilesInit
  /\ DateInit
  /\ InstantInit
  /\ subject # "instant" => build = "unix"
  /\ SerInit
  /\ KeyedInit
  /\ subject # "keyed" => system = "unix"
  /\ CompInit
  /\ subject # "component" => document = <<>>
  /\ PathInit
  /\ subject # "path" => pathEntries = <<>>
  /\ CounterInit
  /\ subject # "counter" => counterNodes = <<>>
  /\ RefInit
  /\ subject # "reference" => kind = "AutoPtr"
  /\ ConduitInit
  /\ subject # "conduit" => \A k \in 1..3 : listeners[k] = "k"
  /\ DllInit
  /\ NamesInit
  /\ TimeInit
  /\ subject # "deadline" => now = 0

wordVars == <<textVars, mapVars, patVars, domVars, httpVars>>
fileSystemVars ==
  <<logFilesVars, fileVars, dateVars, instantVars, serVars,
    keyedVars>>
objectVars ==
  <<compVars, pathVars, counterVars, refVars, conduitVars,
    dllVars, nameVars, timeVars>>

Next ==
  /\ UNCHANGED subject
  /\ \/ /\ UNCHANGED <<fileSystemVars, objectVars>>
        /\ \/ /\ subject = "text" /\ TextNext
              /\ UNCHANGED <<mapVars, patVars, domVars, httpVars>>
           \/ /\ subject = "mapping" /\ MapNext
              /\ UNCHANGED <<textVars, patVars, domVars, httpVars>>
           \/ /\ subject = "pattern" /\ PatNext
              /\ UNCHANGED <<textVars, mapVars, domVars, httpVars>>
           \/ /\ subject = "document" /\ DomNext
              /\ UNCHANGED <<textVars, mapVars, patVars, httpVars>>
           \/ /\ subject = "http" /\ HttpNext
              /\ UNCHANGED <<textVars, mapVars, patVars, domVars>>
     \/ /\ UNCHANGED <<wordVars, objectVars>>
        /\ \/ /\ subject = "log" /\ LogFilesNext
              /\ UNCHANGED <<fileVars, dateVars, instantVars, serVars,
                            keyedVars>>
           \/ /\ subject = "files" /\ FilesNext
              /\ UNCHANGED <<logFilesVars, dateVars, instantVars, serVars,
                            keyedVars>>
           \/ /\ subject = "date" /\ DateNext
              /\ UNCHANGED <<logFilesVars, fileVars, instantVars, serVars,
                            keyedVars>>
           \/ /\ subject = "instant" /\ InstantNext
              /\ UNCHANGED <<logFilesVars, fileVars, dateVars, serVars,
                            keyedVars>>
           \/ /\ subject = "world" /\ SerNext
              /\ UNCHANGED <<logFilesVars, fileVars, dateVars, instantVars,
                            keyedVars>>
           \/ /\ subject = "keyed" /\ KeyedNext
              /\ UNCHANGED <<logFilesVars, fileVars, dateVars, instantVars,
                            serVars>>
     \/ /\ UNCHANGED <<wordVars, fileSystemVars>>
        /\ \/ /\ subject = "component" /\ CompNext
              /\ UNCHANGED <<pathVars, counterVars, refVars, conduitVars,
                            dllVars, nameVars, timeVars>>
           \/ /\ subject = "path" /\ PathNext
              /\ UNCHANGED <<compVars, counterVars, refVars, conduitVars,
                            dllVars, nameVars, timeVars>>
           \/ /\ subject = "counter" /\ CounterNext
              /\ UNCHANGED <<compVars, pathVars, refVars, conduitVars,
                            dllVars, nameVars, timeVars>>
           \/ /\ subject = "reference" /\ RefNext
              /\ UNCHANGED <<compVars, pathVars, counterVars, conduitVars,
                            dllVars, nameVars, timeVars>>
           \/ /\ subject = "conduit" /\ ConduitNext
              /\ UNCHANGED <<compVars, pathVars, counterVars, refVars,
                            dllVars, nameVars, timeVars>>
           \/ /\ subject = "loader" /\ DllNext
              /\ UNCHANGED <<compVars, pathVars, counterVars, refVars,
                            conduitVars, nameVars, timeVars>>
           \/ /\ subject = "names" /\ NamesNext
              /\ UNCHANGED <<compVars, pathVars, counterVars, refVars,
                            conduitVars, dllVars, timeVars>>
           \/ /\ subject = "deadline" /\ TimeNext
              /\ UNCHANGED <<compVars, pathVars, counterVars, refVars,
                            conduitVars, dllVars, nameVars>>

Spec ==
  Init /\ [][Next]_<<subject, wordVars, fileSystemVars, objectVars>>

-----------------------------------------------------------------------------
(* Texts *)

LowerOf == [A |-> "a"]
CommaOrSemicolon == <<",", ";">>

\* Characters of a pattern by their place in ASCII, and the pieces a pattern
\* is put together from: each character by itself, and a few sets.
PatternChars == {"a", "b", "?", "*", "sub", "[", "]", "!", "-", "quote", "."}
PatternCode ==
  [c \in PatternChars |->
     CASE c = "sub" -> 0 [] c = "-" -> 2 [] c = "." -> 3 [] c = "?" -> 4
       [] c = "a" -> 5 [] c = "b" -> 6 [] c = "[" -> 7 [] c = "quote" -> 8
       [] c = "]" -> 9 [] OTHER -> 1]
PatternPieces ==
  {<<c>> : c \in PatternChars} \cup {<<"[", "a">>, <<"a", "-", "b", "]">>, <<"[", "!">>}

TwoScalars ==
  {[type |-> "string", value |-> "s"], [type |-> "string", value |-> "t"]}

(* Documents and messages *)

Attributes ==
  {NoAttrs,
   [k |-> [type |-> "string", text |-> "<"]],
   [k |-> [type |-> "long", text |-> "x"], q |-> [type |-> "mapping", text |-> "x"]]}

SomeHosts == {<<"h">>, <<"h", ".", "b">>}
SomePaths == {<<>>, <<"/">>, <<"/", "p">>, <<"/", "p", "/", "q">>, <<"/", "p", ":", "q">>}
\* A port, and one beyond what an unsigned short holds.
SomePorts == (<<"8">> :> 8) @@ (<<"8", "0">> :> 65616)
Forms == {<<>>, <<"a">>, <<"+">>, <<" ">>, <<"&", "=">>, <<"%", "a">>}
Slashes == "HTTP/1.0" :> "1.0" @@ "/p" :> "p" @@ "b/c" :> "c"
Bytes ==
  [c \in {"a", "+", " ", "&", "=", "%"} |->
     CASE c = "a" -> 97 [] c = "+" -> 43 [] c = " " -> 32
       [] c = "&" -> 38 [] c = "=" -> 61 [] OTHER -> 37]

(* Log files: texts and fields of a format, one field of a parameter that is *)
(* there, one of a parameter that is not, and one that is no number.         *)
FieldPieces ==
  {<<"x">>, <<"4">>, <<"$", "4", "$">>, <<"$", "1", "0", "$">>, <<"$", "x", "$">>}
FieldParams == [t \in {<<"4">>} |-> <<"v">>]

(* File systems: directories, files, links to a directory, to nothing. *)
AFile(d) == Entry("file", d, NoTarget)
ALink(t) == Entry("link", <<>>, t)
SmallTree ==
  (<<>> :> Directory) @@ (<<"a">> :> Directory)
    @@ (<<"a", "b">> :> AFile(<<"x", "y">>)) @@ (<<"b">> :> AFile(<<"x">>))
FileTrees ==
  {SmallTree,
   SmallTree @@ (<<"c">> :> Directory),
   SmallTree @@ (<<"a", "c">> :> ALink(<<"c">>)),
   SmallTree @@ (<<"a", "a">> :> Directory) @@ (<<"a", "a", "b">> :> AFile(<<>>)),
   SmallTree @@ (<<"a", "a">> :> ALink(<<"c">>)) @@ (<<"c">> :> Directory)
     @@ (<<"c", "b">> :> AFile(<<"x">>)),
   SmallTree @@ (<<"a", "c">> :> ALink(<<"c">>)) @@ (<<"c">> :> Directory)
     @@ (<<"c", "a">> :> AFile(<<"x">>))}
SealedDirs == {<<"a", "a">>, <<"c", "b">>}

(* Dates, over two leap years, and all amounts that matter of an addition. *)
SomeYears == 1998..2005
SomeAmounts == {-40, -7, -1, 1, 13, 30}

(* The components of a context in the order of their names, and the peers   *)
(* each asks for in init and in postInit.                                   *)
SixNames ==
  <<"rpc-server", "ser-mgr", "std-logger", "sys-counter", "sys-paths", "thread-pool">>
TakesOf(n) ==
  CASE n = "rpc-server" -> {"std-logger", "thread-pool"}
    [] n = "sys-paths" -> {"std-logger"} [] OTHER -> {}
PostTakesOf(n) ==
  CASE n \in {"rpc-server", "sys-paths"} -> {"std-logger"}
    [] n = "ser-mgr" -> {"std-logger", "sys-paths"}
    [] n = "std-logger" -> {"sys-paths"} [] OTHER -> {}
InitPeers == [n \in Range(SixNames) |-> TakesOf(n)]
PostInitPeers == [n \in Range(SixNames) |-> PostTakesOf(n)]
SomeCounters == <<"", "a", "b">>

(* Deadlines, at the boundaries of a second and of the two divisors of       *)
(* toTimeVal.                                                                *)
Near(n) == {n - 1, n, n + 1}
Micros ==
  {0, 1, 500000} \cup UNION {Near(1000000 - ms) : ms \in {2, 20, 999, 1000, 5000}}
Millis ==
  {-1, 0, 1, 20, 500, 900, 5000, 60000}
    \cup UNION {Near(n) : n \in {1000, 2000, 999999, 1000000}}

-----------------------------------------------------------------------------
(* Properties *)

\* Tokens are the fields between delimiters, edits do what their names say, and
\* a pattern matches what its description says.  No object is in two mappings,
\* a file is read as it is written, and what toArgcString prints parses back.
\* A line of the log has the pieces of its format.
TextExact ==
  /\ subject = "text" => TokensAreFields /\ EditsAreExact
  /\ subject = "pattern" => MatchesDescribed
  /\ subject = "mapping" => OwnedOnce /\ EqualAnswersAlike /\ FileIsRead /\ ParsesBack
  /\ subject = "log" => FormatFollowsPieces

\* A loop of the tokenizer or of the mapping's parser gets on with its text.
LoopsAdvance ==
  /\ [][SkippingAdvances]_textVars
  /\ [][ParserAdvances]_mapVars

\* Documents: values read back, instructions keep their order, selections
\* match, and what is written reads back.
DocumentExact ==
  subject = "document" =>
    ValueReadsBack /\ InstructionsInOrder /\ SelectionsMatch /\ WrittenReadsBack

\* HTTP: a URL is split into its parts, a content arrives as it was sent, and a
\* request counts as whole only when it is.
MessageExact == subject = "http" => UrlIsRead /\ ContentArrives /\ TakenWhenWhole

\* The log's files keep the newest entries within their limits, over restarts
\* too, and the log of the system is told what was asked for.
LogsExact ==
  subject = "log" => NewestKept /\ FilesBounded /\ RotationFills /\ SystemIsTold

\* The fields of a date are those of its day, and an instant or a deadline is
\* early by no more than the parts of a second that were dropped.
DatesExact ==
  /\ subject = "date" => DateAgrees /\ NthWeekday /\ DatesCounted /\ TextsReadBack
  /\ subject = "instant" => InstantsClose
  /\ subject = "deadline" => WholeSecondsNeverEarly /\ RefusedOnlyAtOneSecond

\* What is stored: the operations on files keep data, tell the truth and stay in
\* their tree; a copy is its original, what is written has the size that was
\* counted, a partial file is refused, and a key holds what was put.
StoredExact ==
  /\ subject = "files" =>
       /\ MoveKeepsData
       /\ MkdirsMakes
       /\ RmdirTellsTruth
       /\ RmdirStaysInside
       /\ RmdirDescends
       /\ GetFileReads
  /\ subject = "world" => CopyIsEqual /\ SizeIsWritten /\ PartialRefused
  /\ subject = "keyed" => KeyedIsPut

\* A component finds its peers and is closed once, a path is under its root,
\* counters survive; an object is deleted when nobody has it, a listener is
\* called once, the facilities open are those of the loaders, and no two
\* objects have one semaphore.
ObjectsExact ==
  /\ subject = "component" => PeersFound /\ ClosedOnce
  /\ subject = "path" => PathsUnderRoot
  /\ subject = "counter" => CountersSurvive
  /\ subject = "reference" => DeletedWhenFree
  /\ subject = "conduit" => EachCalledOnce
  /\ subject = "loader" => OpensAreLoaders
  /\ subject = "names" => NamesSound
=============================================================================
