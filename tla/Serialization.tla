--------------------------- MODULE Serialization ---------------------------
(***************************************************************************)
(* Serialization (src/h/ser, src/src/ser): the templates of SerUtils that  *)
(* count, write and read numbers, strings, vectors and maps, the manager   *)
(* that puts a sentinel and a version in front of a world, the sources in  *)
(* memory and in a file, and StreamUtils, which keeps typed values in a    *)
(* Mapping.                                                                *)
(*                                                                         *)
(* A stream is a sequence of numbers: a character, a native value, a       *)
(* length and a sentinel are one each.  A world (iSerializable, written by *)
(* the library's users) has a number, a string, a vector of strings and a  *)
(* map from strings to numbers, serialized in that order.                  *)
(***************************************************************************)
EXTENDS Integers, Sequences, SequencesExt, FiniteSets, Functions

CONSTANTS
  Letters,     \* the characters of strings, other than NUL
  Versions,    \* the versions a file may be of
  MaxLength,   \* bound: the length of a string that is written
  MaxElements, \* bound: the elements of a vector or a map
  MaxChanges,  \* bound: how often a world is changed
  StreamKeys   \* the keys of a Mapping

ASSUME SerializationAssumption ==
  /\ Letters \subseteq Nat \ {0}
  /\ {MaxLength, MaxElements, MaxChanges} \subseteq Nat

VARIABLES
  worlds,    \* the objects that are serialized
  changes,   \* how often they were changed
  file,      \* what is in the file
  version,   \* the version it was written in
  complete,  \* whether nothing of it is missing
  system,    \* "unix" or "windows"
  keyed,     \* a Mapping that StreamUtils puts values in, by key and half
  lastPut    \* what was put last for each key

serVars == <<worlds, changes, file, version, complete>>
keyedVars == <<system, keyed, lastPut>>

World == {"A", "B"}
Terminator == 0
VECTOR_SENTINEL == -1
MAP_SENTINEL == -2
SER_FORMAT_SENTINEL == -3
CURVER == 1

Blank == [number |-> 0, string |-> <<>>, vector |-> <<>>, map |-> <<>>]

-----------------------------------------------------------------------------
(* Counters and outputters.  A map is iterated in the order of its keys. *)

SizeStringBare(s) == Len(s)
SizeString(s) == 1 + Len(s)
SizeVector(v) == 2 + FoldLeft(LAMBDA n, s : n + SizeString(s), 0, v)
SizeMap(m) == 2 + FoldLeft(LAMBDA n, e : n + SizeString(e.key) + 1, 0, m)
SizeWorld(w) == 1 + SizeString(w.string) + SizeVector(w.vector) + SizeMap(w.map)
MgrMem == 2

WriteString(s) == <<Len(s)>> \o s
WriteVector(v) == <<VECTOR_SENTINEL, Len(v)>> \o FlattenSeq([i \in DOMAIN v |-> WriteString(v[i])])
WriteMap(m) ==
  <<MAP_SENTINEL, Len(m)>>
    \o FlattenSeq([i \in DOMAIN m |-> WriteString(m[i].key) \o <<m[i].value>>])
WriteWorld(w) == <<w.number>> \o WriteString(w.string) \o WriteVector(w.vector) \o WriteMap(w.map)

\* A stream that is full keeps what went in and is no longer good.
Serialized(w, ver) == <<SER_FORMAT_SENTINEL, ver>> \o WriteWorld(w)
WhatFits(units, room) == SubSeq(units, 1, IF Len(units) < room THEN Len(units) ELSE room)

-----------------------------------------------------------------------------
(* Inputters.  A reader is a place in a stream, whether the stream is good, *)
(* and what was read last.                                                  *)

Reader(pos, good, val) == [pos |-> pos, good |-> good, val |-> val]

ReadUnit(in, r, old) ==
  IF ~r.good THEN Reader(r.pos, FALSE, old)
  ELSE IF r.pos <= Len(in) THEN Reader(r.pos + 1, TRUE, in[r.pos])
  ELSE Reader(r.pos, FALSE, old)

\* A string of length 0 is not assigned; any other is made one longer, for a
\* NUL that becomes part of it.
ReadText(in, length, old) ==
  LET left == Len(in) - length.pos + 1
      text == [i \in 1..length.val + 1 |->
                 IF i <= left /\ i <= length.val THEN in[length.pos + i - 1]
                 ELSE IF i <= Len(old) /\ left < length.val THEN old[i]
                 ELSE Terminator]
  IN IF ~length.good \/ length.val = 0 THEN Reader(length.pos, length.good, old)
     ELSE IF left < length.val THEN Reader(Len(in) + 1, FALSE, text)
     ELSE Reader(length.pos + length.val, TRUE, text)
ReadString(in, r, old) == ReadText(in, ReadUnit(in, r, 0), old)

\* The sentinel and the length in front of a vector or a map.
ReadLength(in, mark, sentinel) ==
  IF mark.good /\ mark.val # sentinel THEN Reader(mark.pos, FALSE, 0)
  ELSE ReadUnit(in, mark, 0)
ReadMark(in, r, sentinel) == ReadLength(in, ReadUnit(in, r, 0), sentinel)

\* The vector is made as long as what is read, after what it keeps, before
\* anything is read into it.
ReadElement(in, vector, i) ==
  LET s == ReadString(in, vector, vector.val[i])
  IN IF vector.good THEN Reader(s.pos, s.good, [vector.val EXCEPT ![i] = s.val]) ELSE vector
ReadElements(in, size, old, erase) ==
  LET current == IF erase THEN 0 ELSE Len(old)
      resized == [i \in 1..current + size.val |-> IF i <= Len(old) THEN old[i] ELSE <<>>]
  IN IF ~size.good THEN Reader(size.pos, FALSE, old)
     ELSE FoldLeft(LAMBDA vector, i : ReadElement(in, vector, i),
                   Reader(size.pos, TRUE, resized), [i \in 1..size.val |-> current + i])
ReadVector(in, r, old, erase) ==
  ReadElements(in, ReadMark(in, r, VECTOR_SENTINEL), old, erase)

\* data[key] = value, in a map that is a sequence in the order of its keys.
Before(s, t) ==
  \/ IsStrictPrefix(s, t)
  \/ \E i \in DOMAIN s \cap DOMAIN t :
       s[i] < t[i] /\ \A j \in 1..i - 1 : s[j] = t[j]
MapSet(m, key, value) ==
  LET smaller == SelectSeq(m, LAMBDA e : Before(e.key, key))
      larger == SelectSeq(m, LAMBDA e : Before(key, e.key))
  IN smaller \o <<[key |-> key, value |-> value]>> \o larger

ReadEntry(in, map) ==
  LET k == ReadString(in, map, <<>>)
      v == ReadUnit(in, k, 0)
  IN IF ~map.good THEN map
     ELSE IF ~k.good THEN Reader(k.pos, FALSE, map.val)
     ELSE Reader(v.pos, v.good, MapSet(map.val, k.val, v.val))
ReadEntries(in, size, old, erase) ==
  IF ~size.good THEN Reader(size.pos, FALSE, old)
  ELSE FoldLeft(LAMBDA map, i : ReadEntry(in, map),
                Reader(size.pos, TRUE, IF erase THEN <<>> ELSE old), [i \in 1..size.val |-> i])
ReadMap(in, r, old, erase) == ReadEntries(in, ReadMark(in, r, MAP_SENTINEL), old, erase)

ReadWorld(in, r, w) ==
  LET n == ReadUnit(in, r, w.number)
      s == ReadString(in, n, w.string)
      v == ReadVector(in, s, w.vector, TRUE)
      m == ReadMap(in, v, w.map, TRUE)
  IN [good |-> m.good,
      world |-> [number |-> n.val, string |-> s.val,
                 vector |-> IF s.good THEN v.val ELSE w.vector,
                 map |-> IF v.good THEN m.val ELSE w.map]]

-----------------------------------------------------------------------------
(* SerSerializationMgr.  The worlds are locked throughout. *)

Deserialize(in, w) ==
  LET sentinel == ReadUnit(in, Reader(1, TRUE, 0), 0)
      found == ReadUnit(in, sentinel, 0)
      read == ReadWorld(in, found, w)
  IN IF ~sentinel.good THEN [res |-> "SER_READ_ERR", world |-> w]
     ELSE IF sentinel.val # SER_FORMAT_SENTINEL THEN [res |-> "SER_INVALID_FORMAT", world |-> w]
     ELSE IF ~found.good THEN [res |-> "SER_READ_ERR", world |-> w]
     ELSE IF found.val # CURVER THEN [res |-> "SER_INVALID_FORMAT", world |-> w]
     ELSE [res |-> IF read.good THEN "SER_NOERR" ELSE "SER_READ_ERR", world |-> read.world]

\* Through a buffer of the size the world says it has.
Copy(source, target) ==
  LET units == Serialized(source, CURVER)
      room == SizeWorld(source) + MgrMem
  IN IF Len(units) > room THEN [res |-> "SER_WRITE_ERR", world |-> target]
     ELSE Deserialize(WhatFits(units, room), target)

-----------------------------------------------------------------------------

SerInit ==
  /\ worlds = [x \in World |-> Blank]
  /\ changes = 0
  /\ file = <<>> /\ version = CURVER /\ complete = FALSE

Strings == BoundedSeq(Letters, 1)

\* A user of the library changes a world.
ChangeWorld(x) ==
  /\ changes < MaxChanges
  /\ changes' = changes + 1
  /\ \/ worlds' = [worlds EXCEPT ![x].number = @ + 1]
     \/ \E s \in Strings : worlds' = [worlds EXCEPT ![x].string = s]
     \/ /\ Len(worlds[x].vector) < MaxElements
        /\ \E s \in Strings : worlds' = [worlds EXCEPT ![x].vector = Append(@, s)]
     \/ /\ Len(worlds[x].map) < MaxElements
        /\ \E s \in Strings : worlds' = [worlds EXCEPT ![x].map = MapSet(@, s, 1)]
  /\ UNCHANGED <<file, version, complete>>

Short(w) ==
  /\ Len(w.string) <= MaxLength
  /\ \A i \in DOMAIN w.vector : Len(w.vector[i]) <= MaxLength
  /\ \A i \in DOMAIN w.map : Len(w.map[i].key) <= MaxLength

\* A program of this version or of another.  The disk may fill up, or the
\* program end, before everything is written.
SerializeToFile(x, ver) ==
  LET units == Serialized(worlds[x], ver)
  IN \E room \in 0..Len(units) :
       /\ Short(worlds[x])
       /\ file' = WhatFits(units, room)
       /\ version' = ver
       /\ complete' = (room = Len(units))
       /\ UNCHANGED <<worlds, changes>>

DeserializeFromFile(x) ==
  /\ worlds' = [worlds EXCEPT ![x] = Deserialize(file, @).world]
  /\ UNCHANGED <<changes, file, version, complete>>

CopyWorld(x, y) ==
  /\ Short(worlds[x])
  /\ worlds' = [worlds EXCEPT ![y] = Copy(worlds[x], @).world]
  /\ UNCHANGED <<changes, file, version, complete>>

SerNext ==
  \/ ChangeWorld("A")
  \/ \E ver \in Versions : SerializeToFile("A", ver)
  \/ \E x \in World : DeserializeFromFile(x)
  \/ CopyWorld("A", "B")

-----------------------------------------------------------------------------
(* StreamUtils: putKey and getKey for each type, over a Mapping that keeps  *)
(* the type of a value.  A ScheduleTime is a long, or two on Windows.       *)

NoValue == [type |-> "none", value |-> 0]
Value(type, value) == [type |-> type, value |-> value]

PutKey(key, type, value) ==
  IF type # "time" THEN [keyed EXCEPT ![<<key, "low">>] = Value(type, value)]
  ELSE IF system = "unix" THEN [keyed EXCEPT ![<<key, "low">>] = Value("long", value)]
  ELSE [keyed EXCEPT ![<<key, "low">>] = Value("long", value),
                     ![<<key, "high">>] = Value("long", value)]

HasType(key, half, type) == keyed[<<key, half>>].type = type
Halves == IF system = "unix" THEN {"low"} ELSE {"low", "high"}
GetKey(key, type) ==
  IF type = "time" THEN \A half \in Halves : HasType(key, half, "long")
  ELSE HasType(key, "low", type)

KeyedInit ==
  /\ system \in {"unix", "windows"}
  /\ keyed = [k \in StreamKeys \X {"low", "high"} |-> NoValue]
  /\ lastPut = [k \in StreamKeys |-> NoValue]

Types == {"long", "mapping", "string", "time"}

Puts(key, type, value) ==
  /\ keyed' = PutKey(key, type, value)
  /\ lastPut' = [lastPut EXCEPT ![key] = Value(type, value)]
  /\ UNCHANGED system

KeyedNext == \E key \in StreamKeys, type \in Types, value \in {1, 2} : Puts(key, type, value)

-----------------------------------------------------------------------------
(* Properties *)

\* Strings as C reads them: what is read back has a NUL more each time.
CText(s) ==
  IF Contains(s, Terminator)
  THEN SubSeq(s, 1, (CHOOSE i \in DOMAIN s : s[i] = Terminator /\ \A j \in 1..i - 1 : s[j] # Terminator) - 1)
  ELSE s

\* A string read over another: the other stays when an empty one is read.
ReadOver(s, old) == CText(IF s = <<>> THEN old ELSE s)

\* What a was, read over b.
IsCopy(w, a, b) ==
  /\ w.number = a.number
  /\ CText(w.string) = ReadOver(a.string, b.string)
  /\ Len(w.vector) = Len(a.vector)
  /\ \A i \in DOMAIN a.vector :
       CText(w.vector[i]) =
         ReadOver(a.vector[i], IF i <= Len(b.vector) THEN b.vector[i] ELSE <<>>)
  /\ [i \in DOMAIN w.map |-> [w.map[i] EXCEPT !.key = CText(@)]]
       = [i \in DOMAIN a.map |-> [a.map[i] EXCEPT !.key = CText(@)]]

\* A copy succeeds, and the copy is the original up to the characters from the
\* first NUL on of its strings, and up to the strings that are empty there.
\* (SerSerializationMgr.cpp:243-264, SerInputters.h:161-194)
CopyIsEqual ==
  LET done == Copy(worlds["A"], worlds["B"])
  IN Short(worlds["A"]) =>
       done.res = "SER_NOERR" /\ IsCopy(done.world, worlds["A"], worlds["B"])

\* What size() says is what serialize writes: copy needs it for its buffer.
SizeIsWritten ==
  \A x \in World : Len(Serialized(worlds[x], CURVER)) = SizeWorld(worlds[x]) + MgrMem

\* A file of another version, or one that was not written to its end, is
\* refused, and refused without touching the world when its head is not
\* right; a whole file is read.  (SerSerializationMgr.cpp:174-233)
PartialRefused ==
  LET done == Deserialize(file, worlds["B"])
  IN /\ (done.res = "SER_NOERR") = (complete /\ version = CURVER)
     /\ done.res = "SER_INVALID_FORMAT" => done.world = worlds["B"]

\* A value is found for the type it was put with and no other, but that a time
\* is a long; on Windows a long put over a time leaves the other half of it.
\* (UtilStreaming.cpp:62-259)
KeyedIsPut ==
  \A key \in StreamKeys :
    LET put == lastPut[key]
        long == put.type \in {"long", "time"}
    IN /\ \A type \in {"mapping", "string"} : GetKey(key, type) = (put.type = type)
       /\ GetKey(key, "long") = long
       /\ put.type = "time" =>
            /\ GetKey(key, "time")
            /\ \A half \in Halves : keyed[<<key, half>>].value = put.value
       /\ GetKey(key, "time") => long
=============================================================================
