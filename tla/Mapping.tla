------------------------------ MODULE Mapping ------------------------------
(***************************************************************************)
(* Mapping (src/src/util/UtilMapping.cpp): a map from strings to values of *)
(* several types, of which a value may be a Mapping again, owned by a      *)
(* pointer.  The model has the objects and who owns them, the reader of    *)
(* configuration files, the parser of key="value" text, and the reader of  *)
(* the arguments of main.  The values of a nested mapping are scalars.     *)
(***************************************************************************)
EXTENDS StringText

CONSTANTS
  MapKeys,     \* keys; some of them are names of sections too
  Sections,
  Scalars,     \* values that are not mappings, [type, value]
  MaxObjects,  \* bound: nested mappings at a time
  MaxLines     \* bound: lines of a file

ASSUME MappingAssumption ==
  /\ Sections \subseteq MapKeys
  /\ \A s \in Scalars : s.type \in {"string", "long", "boolean"}
  /\ {MaxObjects, MaxLines} \subseteq Nat

VARIABLES
  store,       \* the mappings: what is in each, or Free
  fileMode,    \* sectionDelimiters: "null", "all" when empty, or "some"
  linesRead,   \* the lines read so far
  section,     \* sectionMapPtr
  skipSection,
  filePc,      \* where readFrom is
  given,       \* the scalars whose text is parsed
  source,      \* the text, or arguments, to be parsed
  parsePos,    \* curPos
  parsed,      \* the mapping made of it
  parsePc

mapVars == <<store, fileMode, linesRead, section, skipSection, filePc, given, source,
             parsePos, parsed, parsePc>>

Roots == {0, 1}  \* the mappings of the user
Objects == 0..MaxObjects + 1
None == [type |-> "none", value |-> 0]
Free == <<>>      \* the place of a mapping that is deleted
Unknown == [type |-> "unknown", value |-> 0]
Empty == [k \in MapKeys |-> None]
Own(o) == [type |-> "mapping", value |-> o]

Live(st) == {o \in Objects : st[o] # Free}
IsMapping(ref) == ref.type = "mapping"
Flat(st, o) == \A k \in MapKeys : ~IsMapping(st[o][k])

MapInit ==
  /\ store = [o \in Objects |-> IF o \in Roots THEN Empty ELSE Free]
  /\ fileMode = "null" /\ linesRead = <<>> /\ section = 0 /\ skipSection = FALSE
  /\ filePc = "idle"
  /\ given = <<>> /\ source = <<>> /\ parsePos = 0 /\ parsed = <<>> /\ parsePc = "idle"

-----------------------------------------------------------------------------
(* References and their assignment *)

\* What a reference owns: disposeOld deletes it.
Owned(ref) == IF IsMapping(ref) THEN {ref.value} ELSE {}

DisposeOld(st, ref) == [o \in Objects |-> IF o \in Owned(ref) THEN Free ELSE st[o]]

Fresh(st) == Min(Objects \ Live(st))

\* Mutant: operator= takes the pointer of the other.
PutShared(st, o, k, v) == [DisposeOld(st, st[o][k]) EXCEPT ![o][k] = v]

\* operator=, for each type of value: a mapping is copied into a new one.  A
\* reference that holds this very mapping stays as it is.
Put(st, o, k, v) ==
  LET old == st[o][k]
      rest == DisposeOld(st, old)
      new == Fresh(rest)
  IN IF ~IsMapping(v) THEN [rest EXCEPT ![o][k] = v]
     ELSE IF v = old THEN st
     ELSE [rest EXCEPT ![new] = rest[v.value], ![o][k] = Own(new)]

Nested(st, o) == Cardinality({k \in MapKeys : IsMapping(st[o][k])})

Room(st, n) == Cardinality(Live(st)) + n <= MaxObjects + 2

\* operator[] of a key that is not there makes it.
Index(o, k) ==
  /\ store[o][k] = None
  /\ store' = [store EXCEPT ![o][k] = Unknown]
  /\ UNCHANGED <<fileMode, linesRead, section, skipSection, filePc, given, source,
                 parsePos, parsed, parsePc>>

AssignScalar(o, k, v) ==
  /\ store' = Put(store, o, k, v)
  /\ UNCHANGED <<fileMode, linesRead, section, skipSection, filePc, given, source,
                 parsePos, parsed, parsePc>>

\* The mapping or reference assigned is not inside of what it replaces, nor
\* around it: disposeOld would have changed it before it is read.
AssignMapping(o, k, m) ==
  /\ m \in Live(store) \ {o} /\ Flat(store, m)
  /\ Room(store, 1)
  /\ store' = Put(store, o, k, Own(m))
  /\ UNCHANGED <<fileMode, linesRead, section, skipSection, filePc, given, source,
                 parsePos, parsed, parsePc>>

AssignRef(o, k, from, key) ==
  /\ from \in Live(store) \ Owned(store[o][k])
  /\ store[from][key] # None
  /\ <<from, key>> # <<o, k>>
  /\ Room(store, 1)
  /\ store' = Put(store, o, k, store[from][key])
  /\ UNCHANGED <<fileMode, linesRead, section, skipSection, filePc, given, source,
                 parsePos, parsed, parsePc>>

AssignInside(o, k, key, v) ==
  /\ IsMapping(store[o][k])
  /\ store' = Put(store, store[o][k].value, key, v)
  /\ UNCHANGED <<fileMode, linesRead, section, skipSection, filePc, given, source,
                 parsePos, parsed, parsePc>>

\* The destructor of the reference disposes of its value.
Erase(o, k) ==
  /\ store[o][k] # None
  /\ store' = [DisposeOld(store, store[o][k]) EXCEPT ![o][k] = None]
  /\ UNCHANGED <<fileMode, linesRead, section, skipSection, filePc, given, source,
                 parsePos, parsed, parsePc>>

\* Every entry of the other, one after the other.
Merged(st, o, from) ==
  FoldSet(LAMBDA k, acc : IF st[from][k] = None THEN acc ELSE Put(acc, o, k, st[from][k]),
          st, MapKeys)

Merge(o, from) ==
  /\ o # from /\ Room(store, Nested(store, from))
  /\ store' = Merged(store, o, from)
  /\ UNCHANGED <<fileMode, linesRead, section, skipSection, filePc, given, source,
                 parsePos, parsed, parsePc>>

Cleared(st, o) ==
  [FoldSet(LAMBDA k, acc : DisposeOld(acc, acc[o][k]), st, MapKeys) EXCEPT ![o] = Empty]

\* operator= of the whole mapping.
AssignAll(o, from) ==
  /\ o # from /\ Room(store, Nested(store, from))
  /\ store' = Merged(Cleared(store, o), o, from)
  /\ UNCHANGED <<fileMode, linesRead, section, skipSection, filePc, given, source,
                 parsePos, parsed, parsePc>>

\* operator==: a value whose type is not known is equal to none.
SameScalar(v, w) == v.type = w.type /\ v.type # "unknown" /\ v.value = w.value

SameFlat(st, m, n) ==
  \A k \in MapKeys : (st[m][k] = None /\ st[n][k] = None) \/ SameScalar(st[m][k], st[n][k])

SameRef(st, v, w) ==
  IF IsMapping(v) /\ IsMapping(w) THEN SameFlat(st, v.value, w.value)
  ELSE v # None /\ SameScalar(v, w)

Same(st, m, n) ==
  LET used(o) == {k \in MapKeys : st[o][k] # None} IN
  /\ Cardinality(used(m)) = Cardinality(used(n))
  /\ \A k \in used(m) : SameRef(st, st[m][k], st[n][k])

\* check_type, get_ref and getIfAvailable: the entry, if it has the type asked for.
GetIfAvailable(st, o, k, type) == {v \in {st[o][k]} : v.type = type}

-----------------------------------------------------------------------------
(* readFrom *)

\* A line of more than 1023 characters is cut, and makes the stream bad.
Lines ==
  [kind : {"header"}, name : Sections, value : {None}]
    \cup [kind : {"pair", "long"}, name : MapKeys, value : {v \in Scalars : v.type = "string"}]
    \cup {[kind |-> "ignored", name |-> CHOOSE k \in MapKeys : TRUE, value |-> None]}

\* The section is one of those asked for: its name is somewhere in their list.
Asked(name) == fileMode = "all" \/ (fileMode = "some" /\ name = CHOOSE s \in Sections : TRUE)

ReadFrom ==
  /\ filePc = "idle" /\ parsePc = "idle" /\ store[0] = Empty /\ store[1] = Empty
  /\ fileMode' \in {"null", "all", "some"}
  /\ filePc' = "reading"
  /\ UNCHANGED <<store, linesRead, section, skipSection, given, source, parsePos,
                 parsed, parsePc>>

\* (*this)[curLine] = emptyMap: a section that comes again starts empty.
\* Mapping 1 is emptyMap here.
ReadHeader(line) ==
  IF Asked(line.name)
  THEN /\ store' = Put(store, 0, line.name, Own(1))
       /\ section' = store'[0][line.name].value
       /\ skipSection' = FALSE
  ELSE /\ section' = 0
       /\ skipSection' = TRUE
       /\ UNCHANGED store

ReadPair(line) ==
  /\ store' = IF skipSection THEN store ELSE Put(store, section, line.name, line.value)
  /\ UNCHANGED <<section, skipSection>>

ReadLine(line) ==
  /\ filePc = "reading" /\ Len(linesRead) < MaxLines
  /\ linesRead' = Append(linesRead, line)
  /\ CASE line.kind = "header" /\ fileMode # "null" -> ReadHeader(line)
       [] line.kind \in {"pair", "long"} -> ReadPair(line)
       [] OTHER -> UNCHANGED <<store, section, skipSection>>
  /\ filePc' = IF line.kind = "long" THEN "read" ELSE "reading"
  /\ UNCHANGED <<fileMode, given, source, parsePos, parsed, parsePc>>

EndOfFile ==
  /\ filePc = "reading"
  /\ filePc' = "read"
  /\ UNCHANGED <<store, fileMode, linesRead, section, skipSection, given, source,
                 parsePos, parsed, parsePc>>

-----------------------------------------------------------------------------
(* toString, and the constructor that parses it *)

Quote == <<"q">>  \* either quote
Equals == <<"=">>
Space == <<" ">>

EntryText(e) == e.key \o Equals \o Quote \o e.value \o Quote

\* The entries [key, value] in the order of the map; here two at most.
EntriesText(entries) ==
  CASE Len(entries) = 0 -> <<>>
    [] Len(entries) = 1 -> EntryText(entries[1])
    [] OTHER -> EntryText(entries[1]) \o Space \o EntryText(entries[2])

ParseText ==
  /\ parsePc = "idle" /\ filePc = "idle" /\ store[0] = Empty /\ store[1] = Empty
  /\ \E a, b \in BoundedSeq({"a", "=", " "}, 2), n \in 0..2 :
       given' = SubSeq(<<[key |-> <<"a">>, value |-> a], [key |-> <<"b">>, value |-> b]>>, 1, n)
  /\ source' = EntriesText(given')
  /\ parsePc' = "parsing"
  /\ UNCHANGED <<store, fileMode, linesRead, section, skipSection, filePc, parsePos,
                 parsed>>

ParseAnything ==
  /\ parsePc = "idle" /\ filePc = "idle" /\ store[0] = Empty /\ store[1] = Empty
  /\ source' \in BoundedSeq({"a", "=", "q", " "}, 4)
  /\ parsePc' = "anything"
  /\ UNCHANGED <<store, fileMode, linesRead, section, skipSection, filePc, given,
                 parsePos, parsed>>

Parsing == parsePc \in {"parsing", "anything"}

\* One iteration of the loop.  The blanks before the "=" stay in the key, as the
\* loop that goes over them starts at the "=".
Parse ==
  LET blanks == {i \in parsePos..Len(source) - 1 : At(source, i) # " "}
      start == IF blanks = {} THEN Len(source) ELSE Min(blanks)
      equal == Find(source, Equals, start)
      open == FindFirstOf(source, Quote, equal)
      close == FindFirstOf(source, Quote, open + 1)
  IN /\ Parsing /\ parsePos < Len(source)
     /\ IF equal = NPos THEN parsePos' = start /\ UNCHANGED <<parsed, parsePc>>
        ELSE IF open = NPos \/ close = NPos
        THEN parsePc' = "parsed" /\ UNCHANGED <<parsePos, parsed>>
        ELSE /\ parsePos' = close + 1
             /\ parsed' = Append(parsed, [key |-> Sub(source, start, equal),
                                          value |-> Sub(source, open + 1, close)])
             /\ UNCHANGED parsePc
     /\ UNCHANGED <<store, fileMode, linesRead, section, skipSection, filePc, given,
                    source>>

EndParse ==
  /\ Parsing /\ parsePos >= Len(source)
  /\ parsePc' = "parsed"
  /\ UNCHANGED <<store, fileMode, linesRead, section, skipSection, filePc, given,
                 source, parsePos, parsed>>

-----------------------------------------------------------------------------
(* toArgcString, and the constructor that takes the arguments of main *)

\* The words of an entry: a switch, or a key and its value.
Words(e) ==
  IF e.value = "false" THEN <<>>
  ELSE IF e.value = "true" THEN <<[dash |-> TRUE, word |-> e.key]>>
  ELSE <<[dash |-> TRUE, word |-> e.key], [dash |-> FALSE, word |-> e.value]>>

ToArgcString(entries) == FlattenSeq([i \in DOMAIN entries |-> Words(entries[i])])

GiveArguments ==
  /\ parsePc = "idle" /\ filePc = "idle" /\ store[0] = Empty /\ store[1] = Empty
  /\ \E a, b \in {"true", "false", "x"}, n \in 0..2 :
       given' = SubSeq(<<[key |-> "a", value |-> a], [key |-> "b", value |-> b]>>, 1, n)
  /\ source' = ToArgcString(given')
  /\ parsePc' = "arguments"
  /\ UNCHANGED <<store, fileMode, linesRead, section, skipSection, filePc, parsePos,
                 parsed>>

\* The value of a key is looked at again as an argument, and ignored.
TakeArgument ==
  LET arg == source[parsePos + 1]
      hasValue == parsePos + 1 < Len(source) /\ ~source[parsePos + 2].dash
  IN /\ parsePc = "arguments" /\ parsePos < Len(source)
     /\ parsePos' = parsePos + 1
     /\ parsed' = IF ~arg.dash THEN parsed
                  ELSE Append(parsed, [key |-> arg.word,
                                       value |-> IF hasValue THEN source[parsePos + 2].word
                                                 ELSE "true"])
     /\ UNCHANGED <<store, fileMode, linesRead, section, skipSection, filePc, given,
                    source, parsePc>>

EndArguments ==
  /\ parsePc = "arguments" /\ parsePos = Len(source)
  /\ parsePc' = "taken"
  /\ UNCHANGED <<store, fileMode, linesRead, section, skipSection, filePc, given,
                 source, parsePos, parsed>>

-----------------------------------------------------------------------------

Operate ==
  /\ filePc = "idle" /\ parsePc = "idle"
  /\ \E o \in Roots, k \in MapKeys :
       \/ Index(o, k)
       \/ \E v \in Scalars : AssignScalar(o, k, v)
       \/ \E m \in Objects : AssignMapping(o, k, m)
       \/ \E from \in Objects, key \in MapKeys : AssignRef(o, k, from, key)
       \/ \E key \in MapKeys, v \in Scalars : AssignInside(o, k, key, v)
       \/ Erase(o, k)
       \/ \E from \in Roots : Merge(o, from) \/ AssignAll(o, from)

MapNext ==
  \/ Operate
  \/ ReadFrom
  \/ \E line \in Lines : ReadLine(line)
  \/ EndOfFile
  \/ ParseText
  \/ ParseAnything
  \/ Parse
  \/ EndParse
  \/ GiveArguments
  \/ TakeArgument
  \/ EndArguments

-----------------------------------------------------------------------------
(* Properties *)

\* Copies of the data are always made (UtilMapping.cpp:59-62): every mapping has
\* one owner, no reference points to one that is deleted, and none is lost.
OwnedOnce ==
  LET owners(m) == {w \in Live(store) \X MapKeys : store[w[1]][w[2]] = Own(m)} IN
  /\ \A m \in Live(store) \ Roots : Cardinality(owners(m)) = 1
  /\ \A m \in Objects \ (Live(store) \ Roots) : owners(m) = {}

\* Equality is mutual, and mappings that are equal give the same answers to
\* whoever asks for a value of a type.  (UtilMapping.cpp:506-540, 615-687)
EqualAnswersAlike ==
  \A m, n \in Roots :
    Same(store, m, n) =>
      /\ Same(store, n, m)
      /\ \A k \in MapKeys, type \in {"string", "long", "boolean"} :
           GetIfAvailable(store, m, k, type) = GetIfAvailable(store, n, k, type)

\* What the file says: of a section asked for the pairs after its last header, of
\* the rest the pairs before the first header, the last of each key.
IsHeader(i) == linesRead[i].kind = "header" /\ fileMode # "null"
IsPair(i) == linesRead[i].kind \in {"pair", "long"}
Headers == {i \in DOMAIN linesRead : IsHeader(i)}
HeaderOf(i) == Max({0} \cup {h \in Headers : h < i})
LastHeader(name) == Max({0} \cup {h \in Headers : linesRead[h].name = name /\ Asked(name)})

LastPair(h, k) ==
  LET pairs == {i \in DOMAIN linesRead : IsPair(i) /\ HeaderOf(i) = h /\ linesRead[i].name = k}
  IN IF pairs = {} THEN None ELSE linesRead[Max(pairs)].value

FileIsRead ==
  filePc # "idle" =>
    \A k \in MapKeys :
      IF LastHeader(k) = 0 THEN store[0][k] = LastPair(0, k)
      ELSE /\ IsMapping(store[0][k])
           /\ \A key \in MapKeys :
                store[store[0][k].value][key] = LastPair(LastHeader(k), key)

\* A mapping of scalars comes back from its text, and from the arguments made of
\* it, but for the switches that are off.
ParsesBack ==
  /\ parsePc = "parsed" /\ given # <<>> => parsed = given
  /\ parsePc = "taken" => parsed = SelectSeq(given, LAMBDA e : e.value # "false")

\* The parser moves on in every iteration, unless no "=" is left: then it never
\* ends.
ParserAdvances ==
  Parsing /\ parsePc' = parsePc /\ Find(source, Equals, parsePos) # NPos => parsePos' > parsePos
=============================================================================
