------------------------------- MODULE Files -------------------------------
(***************************************************************************)
(* FileUtils and the iteration over a directory (src/src/file/), and the   *)
(* patterns of file names (src/src/util/UtilPattern.cpp), as they are      *)
(* built for UNIX.  A path is the sequence of its names from the root; the *)
(* file system maps the paths there are to directories, files and symbolic *)
(* links.  The calls are taken apart where another process, a full disk or *)
(* the end of the process can come between two steps.                      *)
(* To a pattern "/" is a character like any other, and case matters.  A    *)
(* pattern and a name are sequences of characters; the position after the  *)
(* last one holds the terminating NUL.                                     *)
(***************************************************************************)
EXTENDS StringText, FiniteSets

CONSTANTS
  Names,   \* the names of files
  Trees,   \* file systems to start from
  Sealed,  \* the paths of what may not be written: directories and files
  Chunks   \* what files consist of: blocks of at most COPY_BUFF_SIZE bytes

Paths == SeqOf(Names, 3) \ {<<>>}
NoTarget == <<>>
Entry(kind, data, target) == [kind |-> kind, data |-> data, target |-> target]
Directory == Entry("dir", <<>>, NoTarget)

ASSUME FilesAssumption ==
  \A t \in Trees : /\ <<>> \in DOMAIN t /\ t[<<>>] = Directory
                   /\ \A p \in DOMAIN t \ {<<>>} : Front(p) \in DOMAIN t

VARIABLES
  fs,      \* the file system
  fileOp,  \* the call in progress: what, of what, where it is, its result
  frames,  \* the calls of rmdir within each other
  start,   \* ghost: the file system at the call
  others   \* what another process may still do

fileVars == <<fs, fileOp, frames, start, others>>

NoOp == [what |-> "none", src |-> <<>>, dst |-> <<>>, at |-> "idle", res |-> FALSE,
         opened |-> FALSE, left |-> 0, held |-> <<>>, lost |-> FALSE]

FilesInit ==
  /\ fs = [p \in {<<>>} |-> Directory]
  /\ fileOp = NoOp /\ frames = <<>>
  /\ start = fs /\ others = 1

-----------------------------------------------------------------------------
(* The file system, and what the library asks of it. *)

Missing == <<"missing">>
IsDir(p) == p \in DOMAIN fs /\ fs[p].kind = "dir"

\* realpath: links are followed in every component; Missing when one is not
\* there.  The targets of links hold no links.
Component(at, name) ==
  LET p == Append(at, name)
  IN IF at = Missing \/ p \notin DOMAIN fs THEN Missing
     ELSE IF fs[p].kind = "link"
          THEN IF fs[p].target \in DOMAIN fs THEN fs[p].target ELSE Missing
          ELSE p
Real(p) == FoldLeft(Component, <<>>, p)

\* FileUtils::getAttributes, which answers for what a link points to, and with
\* the name of that.
Stat(p) ==
  IF Real(p) = Missing THEN [ok |-> FALSE, dir |-> FALSE, name |-> "", size |-> 0]
  ELSE [ok |-> TRUE, dir |-> IsDir(Real(p)),
        name |-> IF Real(p) = <<>> THEN "" ELSE Last(Real(p)), size |-> Len(fs[Real(p)].data)]

\* Where a path leads when its last name is not followed.
Place(p) == IF Real(Front(p)) = Missing THEN Missing ELSE Append(Real(Front(p)), Last(p))
Changeable(p) == Place(p) # Missing /\ IsDir(Front(Place(p))) /\ Front(Place(p)) \notin Sealed
EntriesOf(p) == {q \in DOMAIN fs : Len(q) = Len(p) + 1 /\ SubSeq(q, 1, Len(p)) = p}
Within(q, p) == Len(q) >= Len(p) /\ SubSeq(q, 1, Len(p)) = p

Without(p) == [q \in DOMAIN fs \ {p} |-> fs[q]]
With(p, e) == [q \in DOMAIN fs \cup {p} |-> IF q = p THEN e ELSE fs[q]]

\* ::remove and ::rmdir: an entry that holds nothing.
Removable(p) == /\ Changeable(p) /\ Place(p) \in DOMAIN fs
                /\ EntriesOf(Place(p)) = {}

-----------------------------------------------------------------------------

Ends(result) == fileOp' = [fileOp EXCEPT !.at = "done", !.res = result]

\* A file system, and a call on it.
Call ==
  /\ fileOp.at = "idle"
  /\ \E t \in Trees, src \in Paths, dst \in Paths :
       /\ fs' = t /\ start' = t
       /\ \/ \E what \in {"move", "copy", "copy only"} :
               fileOp' = [NoOp EXCEPT !.what = what, !.src = src, !.dst = dst, !.at = "checks"]
          \/ /\ dst = src
             /\ \E what \in {"mkdirs", "rmdir", "get"} :
                  fileOp' = [NoOp EXCEPT !.what = what, !.src = src, !.at = what]
  /\ UNCHANGED <<frames, others>>

\* fileCopy, up to the opening of the files.
CopyChecks ==
  /\ fileOp.at = "checks"
  /\ LET dest == Stat(fileOp.dst)
     IN IF \/ ~Stat(fileOp.src).ok \/ Stat(fileOp.src).dir
           \/ /\ dest.ok /\ ~dest.dir
              /\ fileOp.what = "copy only" \/ Real(fileOp.dst) \in Sealed
        THEN Ends(FALSE)
        ELSE fileOp' = [fileOp EXCEPT !.at = "opens"]
  /\ UNCHANGED <<fs, frames, start, others>>

\* Both files are opened, the destination also when the source does not open,
\* and is made or emptied; the size is that of the source after that.  When one
\* of the two does not open nothing is copied, and the result is still that of
\* getAttributes, which asks for no permission to read.
Where(p) == IF Real(p) # Missing THEN Real(p) ELSE Place(p)
Opens(p) == IF Real(p) # Missing THEN ~IsDir(Real(p)) ELSE Changeable(p) /\ Place(p) \notin DOMAIN fs
CopyOpens ==
  /\ fileOp.at = "opens"
  /\ \E readable \in BOOLEAN :
       LET writable == Opens(fileOp.dst)
           opened == readable /\ writable
       IN /\ fs' = IF writable THEN With(Where(fileOp.dst), Entry("file", <<>>, NoTarget)) ELSE fs
          /\ fileOp' = [fileOp EXCEPT !.at = IF opened THEN "copies" ELSE "copied",
                                      !.opened = opened, !.res = TRUE,
                                      !.left = IF opened THEN Len(fs'[Real(fileOp.src)].data)
                                               ELSE 0]
  /\ UNCHANGED <<frames, start, others>>

\* The block that is read next, and the destination with what came so far.
Block == LET from == fs[Real(fileOp.src)].data IN from[Len(from) - fileOp.left + 1]
WithData(data) ==
  With(Where(fileOp.dst), [fs[Where(fileOp.dst)] EXCEPT !.data = @ \o data])

\* A block is read and written: the stream holds it, or writes all it holds.
BlockHeld ==
  /\ fileOp' = [fileOp EXCEPT !.left = @ - 1, !.held = Append(@, Block)]
  /\ UNCHANGED fs
BlocksWritten ==
  /\ fs' = WithData(Append(fileOp.held, Block))
  /\ fileOp' = [fileOp EXCEPT !.left = @ - 1, !.held = <<>>]

\* Mutant: nobody looks whether the stream could write.
CopyBlockUnseen ==
  /\ fileOp.at = "copies" /\ fileOp.left > 0
  /\ \/ BlockHeld
     \/ BlocksWritten
     \/ /\ fileOp' = [fileOp EXCEPT !.left = 0, !.held = <<>>]
        /\ UNCHANGED fs
  /\ UNCHANGED <<frames, start, others>>

\* A block, or the read fails, or the disk is full and the stream notices.
CopyBlock ==
  /\ fileOp.at = "copies" /\ fileOp.left > 0
  /\ \/ BlockHeld
     \/ BlocksWritten
     \/ /\ fileOp' = [fileOp EXCEPT !.left = 0, !.res = FALSE]
        /\ UNCHANGED fs
  /\ UNCHANGED <<frames, start, others>>

\* The destructor of the stream writes what it holds.  When the disk is full
\* nobody learns of it: the result stands.
CopyEnds ==
  /\ fileOp.at = "copies" /\ fileOp.left = 0
  /\ \/ /\ fs' = WithData(fileOp.held)
        /\ fileOp' = [fileOp EXCEPT !.at = "copied", !.held = <<>>]
     \/ /\ fileOp.held # <<>>
        /\ fileOp' = [fileOp EXCEPT !.at = "copied", !.held = <<>>, !.lost = TRUE]
        /\ UNCHANGED fs
  /\ UNCHANGED <<frames, start, others>>

\* fileMove deletes its source when it was copied.
Deletes(copied) == fileOp.what = "move" /\ copied
Copied ==
  /\ fileOp.at = "copied"
  /\ IF ~Deletes(fileOp.res) THEN Ends(fileOp.res) /\ UNCHANGED fs
     ELSE /\ Ends(Removable(fileOp.src))
          /\ fs' = IF Removable(fileOp.src) THEN Without(Place(fileOp.src)) ELSE fs
  /\ UNCHANGED <<frames, start, others>>

-----------------------------------------------------------------------------
(* mkdirs *)

\* FileUtils::mkdir: whatever is there already will do, a link to nothing too.
Taken(p) == Place(p) # Missing /\ Place(p) \in DOMAIN fs
MkdirOk(p) == Taken(p) \/ Changeable(p)
Mkdirs ==
  /\ fileOp.at = "mkdirs"
  /\ LET next == SubSeq(fileOp.src, 1, fileOp.left + 1)
     IN IF ~MkdirOk(next) THEN Ends(FALSE) /\ UNCHANGED fs
        ELSE /\ fs' = IF Taken(next) THEN fs ELSE With(Place(next), Directory)
             /\ IF next = fileOp.src THEN Ends(TRUE)
                ELSE fileOp' = [fileOp EXCEPT !.left = @ + 1]
  /\ UNCHANGED <<frames, start, others>>

-----------------------------------------------------------------------------
(* rmdir, over FileIterator and FileIterImpUnix *)

\* findFirst: the entries of what the path leads to, none when it is no
\* directory.
Frame(p) == [dir |-> p, res |-> TRUE,
             left |-> IF Stat(p).dir THEN {Last(q) : q \in EntriesOf(Real(p))} ELSE {}]

RmdirBegins ==
  /\ fileOp.at = "rmdir"
  /\ frames' = <<Frame(fileOp.src)>>
  /\ fileOp' = [fileOp EXCEPT !.at = "removing"]
  /\ UNCHANGED <<fs, start, others>>

Top == Last(frames)
SetTop(frame) == frames' = Append(Front(frames), frame)

\* The name findNext gives is that of the attributes: of what a link points
\* to, and none when that is not there; then the target is the directory.
Target(dir, name) ==
  LET attrs == Stat(Append(dir, name))
  IN IF attrs.ok THEN Append(dir, attrs.name) ELSE dir

\* One turn of the loop.
RmdirEntry ==
  /\ fileOp.at = "removing" /\ Top.res
  /\ \E name \in Top.left :
       LET target == Target(Top.dir, name)
           rest == [Top EXCEPT !.left = @ \ {name}]
       IN IF Stat(target).dir
          THEN /\ Len(frames) < 5
               /\ frames' = Append(Front(frames), rest) \o <<Frame(target)>>
               /\ UNCHANGED fs
          ELSE /\ SetTop([rest EXCEPT !.res = Removable(target)])
               /\ fs' = IF Removable(target) THEN Without(Place(target)) ELSE fs
  /\ UNCHANGED <<fileOp, start, others>>

\* ::rmdir of the directory itself, whatever became of its entries: the result
\* of the call.
RemovesSelf(p) == Removable(p) /\ fs[Place(p)].kind = "dir"
RmdirSelf ==
  /\ fileOp.at = "removing" /\ (Top.left = {} \/ ~Top.res)
  /\ LET gone == RemovesSelf(Top.dir)
         under == Front(frames)
     IN /\ fs' = IF gone /\ Place(Top.dir) \in DOMAIN fs THEN Without(Place(Top.dir)) ELSE fs
        /\ frames' = IF under = <<>> THEN <<>>
                     ELSE Append(Front(under), [Last(under) EXCEPT !.res = gone])
        /\ IF under = <<>> THEN Ends(gone) ELSE UNCHANGED fileOp
  /\ UNCHANGED <<start, others>>

-----------------------------------------------------------------------------
(* getFile: the size first, and then as many bytes. *)

GetSize ==
  /\ fileOp.at = "get"
  /\ IF Stat(fileOp.src).ok
     THEN fileOp' = [fileOp EXCEPT !.at = "read", !.left = Stat(fileOp.src).size]
     ELSE Ends(FALSE)
  /\ UNCHANGED <<fs, frames, start, others>>

\* A short read gives nothing.
ReadWhole(size, data) == Len(data) >= size
GetReads ==
  /\ fileOp.at = "read"
  /\ Ends(/\ Stat(fileOp.src).ok /\ ~Stat(fileOp.src).dir
          /\ ReadWhole(fileOp.left, fs[Real(fileOp.src)].data))
  /\ UNCHANGED <<fs, frames, start, others>>

-----------------------------------------------------------------------------

\* Another process makes a file, or changes the one that is read.
OtherCreates ==
  /\ fileOp.at = "removing" /\ others > 0
  /\ others' = others - 1
  /\ \E p \in Paths : /\ Changeable(p) /\ p = Place(p) /\ p \notin DOMAIN fs
                      /\ Within(p, fileOp.src)
                      /\ fs' = With(p, Entry("file", <<>>, NoTarget))
  /\ UNCHANGED <<fileOp, frames, start>>

OtherWrites ==
  /\ fileOp.at = "read" /\ others > 0 /\ ~Stat(fileOp.src).dir
  /\ others' = others - 1
  /\ \E data \in SeqOf(Chunks, 2) :
       fs' = With(Real(fileOp.src), Entry("file", data, NoTarget))
  /\ UNCHANGED <<fileOp, frames, start>>

\* The process ends in the middle of a call.
Dies ==
  /\ fileOp.at \in {"opens", "copies", "copied"}
  /\ fileOp' = [fileOp EXCEPT !.at = "dead"]
  /\ UNCHANGED <<fs, frames, start, others>>

FilesNext ==
  \/ Call
  \/ CopyChecks \/ CopyOpens \/ CopyBlock \/ CopyEnds \/ Copied
  \/ Mkdirs
  \/ RmdirBegins \/ RmdirEntry \/ RmdirSelf
  \/ GetSize \/ GetReads
  \/ OtherCreates \/ OtherWrites \/ Dies

-----------------------------------------------------------------------------
(* Properties *)

Over == fileOp.at \in {"done", "dead"}
Was(p) == FoldLeft(LAMBDA at, name :
            LET q == Append(at, name) IN
            IF at = Missing \/ q \notin DOMAIN start THEN Missing
            ELSE IF start[q].kind = "link" THEN start[q].target ELSE q, <<>>, p)

\* A move to another file leaves the data of its source in one file at least,
\* whole, whatever fails or ends in the middle of it, with two exceptions that
\* fileCopy does not tell: one of the two files does not open, or what the
\* stream holds at the end is lost in its destructor.  Even then the source is
\* there as long as the move has not said that it succeeded.
\* (FileUtils.cpp:162-164, 216, 232-249)
KeepsIn(p) == Real(p) # Missing /\ fs[Real(p)].data = start[Was(fileOp.src)].data
MoveKeepsData ==
  (/\ Over /\ fileOp.what = "move"
   /\ Was(fileOp.src) \in DOMAIN start \ {Was(fileOp.dst)})
    => \/ KeepsIn(fileOp.src)
       \/ KeepsIn(fileOp.dst)
       \/ fileOp.at = "done" /\ fileOp.res /\ (~fileOp.opened \/ fileOp.lost)

\* mkdirs says it succeeded when something is at the path, with nothing but
\* directories on the way to it.
MkdirsMakes ==
  (fileOp.at = "done" /\ fileOp.what = "mkdirs" /\ fileOp.res)
    => /\ Taken(fileOp.src)
       /\ \A n \in 1..Len(fileOp.src) - 1 : IsDir(Real(SubSeq(fileOp.src, 1, n)))

\* rmdir says it succeeded when there is nothing left at the path, and not
\* otherwise, even when another process makes a file in the meantime.
RmdirTellsTruth ==
  (fileOp.at = "done" /\ fileOp.what = "rmdir")
    => (fileOp.res <=> fileOp.src \in DOMAIN start /\ \A q \in DOMAIN fs : ~Within(q, fileOp.src))

\* What is outside of the directory stays, unless the directory holds a link
\* that has the name of the directory it points to.
NameSake(p) == /\ start[p].kind = "link" /\ start[p].target \in DOMAIN start
               /\ Last(p) = Last(start[p].target)
RmdirStaysInside ==
  (/\ fileOp.what = "rmdir" /\ fileOp.src \in DOMAIN start
   /\ start[fileOp.src].kind = "dir"
   /\ ~\E p \in DOMAIN start : Within(p, fileOp.src) /\ NameSake(p))
    => \A q \in DOMAIN start : Within(q, fileOp.src) \/ (q \in DOMAIN fs /\ fs[q] = start[q])

\* rmdir calls itself no deeper than its directory is, unless a link in it
\* points nowhere: then it calls itself for the same directory again.
RmdirDescends ==
  (~\E p \in DOMAIN start : start[p].kind = "link")
    => \A i \in 1..Len(frames) - 1 : Len(frames[i].dir) < Len(frames[i + 1].dir)

\* getFile gives no more bytes than the file has when it is read.
GetFileReads ==
  (fileOp.at = "done" /\ fileOp.what = "get" /\ fileOp.res)
    => Len(fs[Real(fileOp.src)].data) >= fileOp.left

-----------------------------------------------------------------------------
(* The patterns of file names *)

CONSTANTS
  Pieces,     \* what the patterns are put together from
  MaxPieces,  \* bound: how many pieces a pattern has
  NameChars,  \* the characters of names
  Code        \* the order of the characters, in ranges

ASSUME FilePatternAssumption ==
  /\ MaxPieces \in Nat
  /\ NameChars \subseteq DOMAIN Code

VARIABLES pattern, patPc

patVars == <<pattern, patPc>>

NUL == "NUL"
CharAt(s, i) == IF i < Len(s) THEN s[i + 1] ELSE NUL

\* Past a quoting character.
Unquote(p, i) == IF CharAt(p, i) = "quote" THEN i + 1 ELSE i

-----------------------------------------------------------------------------
(* fpattern_isvalid *)

\* The loop over a character set, from a position inside of it: where its
\* bracket is, or NPos when it is missing.
SetCloses(p, from) ==
  LET closes[i \in 0..Len(p) + 3] ==
        LET lo == Unquote(p, i)
            range == CharAt(p, lo + 1) = "-"
            hi == IF range THEN Unquote(p, lo + 2) ELSE lo
        IN IF CharAt(p, i) = "]" THEN i
           ELSE IF NUL \in {CharAt(p, lo), CharAt(p, hi), CharAt(p, hi + 1)} THEN NPos
           ELSE closes[hi + 1]
  IN closes[from]

SetStart(p, i) == IF CharAt(p, i) = "!" THEN i + 1 ELSE i

Valid(p) ==
  LET valid[i \in 0..Len(p) + 3] ==
        CASE CharAt(p, i) = NUL -> TRUE
          [] CharAt(p, i) = "[" ->
               LET close == SetCloses(p, SetStart(p, i + 1))
               IN close # NPos /\ valid[close + 1]
          [] CharAt(p, i) \in {"quote", "!"} ->
               CharAt(p, i + 1) # NUL /\ valid[i + 2]
          [] OTHER -> valid[i + 1]
  IN valid[0]

-----------------------------------------------------------------------------
(* fpattern_submatch *)

\* The loop over a character set: where it stops, and whether one of its ranges
\* holds the character.
ScanSet(p, from, fch) ==
  LET scan[i \in 0..Len(p) + 3] ==
        LET lo == Unquote(p, i)
            range == CharAt(p, lo + 1) = "-"
            hi == IF range THEN Unquote(p, lo + 2) ELSE lo
            rest == scan[hi + 1]
            within == fch # NUL /\ Code[CharAt(p, lo)] <= Code[fch]
                        /\ Code[fch] <= Code[CharAt(p, hi)]
        IN IF CharAt(p, i) \in {"]", NUL} THEN [end |-> i, hit |-> FALSE]
           ELSE IF NUL \in {CharAt(p, lo), CharAt(p, hi), CharAt(p, hi + 1)}
           THEN [end |-> Len(p), hit |-> FALSE]
           ELSE [rest EXCEPT !.hit = @ \/ within]
  IN scan[from]

\* What "*" can take: everything from here on, or nothing.
Span(name, n) == n..Len(name)

\* What the sub character can take: up to the next dot.
SpanInDot(name, n) ==
  {i \in n..Len(name) : \A j \in n..i - 1 : CharAt(name, j) # "."}

\* "yes", "no", "missing" (a bracket or a pattern that is not there), or "beyond"
\* when it reads on after the NUL of the name.  A negated set takes the NUL too.
SubMatch(p, name) ==
  LET M[i \in 0..Len(p) + 3, n \in 0..Len(name) + 1] ==
        LET pch == CharAt(p, i)
            fch == CharAt(name, n)
            closure(span) ==
              LET results == {M[i + 1, j] : j \in span}
              IN IF "beyond" \in results THEN "beyond"
                 ELSE IF "yes" \in results THEN "yes"
                 ELSE IF "missing" \in results THEN "missing" ELSE "no"
        IN CASE n > Len(name) -> "beyond"
             [] n <= Len(name) /\ pch = NUL -> IF fch = NUL THEN "yes" ELSE "no"
             [] n <= Len(name) /\ pch = "?" -> IF fch = NUL THEN "no" ELSE M[i + 1, n + 1]
             [] n <= Len(name) /\ pch = "*" -> closure(Span(name, n))
             [] n <= Len(name) /\ pch = "sub" -> closure(SpanInDot(name, n))
             [] n <= Len(name) /\ pch = "quote" ->
                  IF fch # CharAt(p, i + 1) \/ fch = NUL THEN "no" ELSE M[i + 2, n + 1]
             [] n <= Len(name) /\ pch = "[" ->
                  LET members == SetStart(p, i + 1)
                      scan == ScanSet(p, members, fch)
                  IN IF scan.hit = (members # i + 1) THEN "no"
                     ELSE IF CharAt(p, scan.end) = NUL THEN "missing"
                     ELSE M[scan.end + 1, n + 1]
             [] n <= Len(name) /\ pch = "!" ->
                  IF CharAt(p, i + 1) = NUL THEN "missing"
                  ELSE LET rest == M[i + 1, n]
                       IN CASE rest = "yes" -> "no"
                            [] rest = "beyond" -> "beyond"
                            [] OTHER -> "yes"
             [] OTHER -> IF fch # pch THEN "no" ELSE M[i + 1, n + 1]
  IN M[0, 0]

\* fpattern_match; fpattern_matchn is SubMatch.
PatternMatch(p, name) ==
  IF ~Valid(p) THEN "no"
  ELSE IF name = <<>> THEN (IF p = <<>> THEN "yes" ELSE "no")
  ELSE SubMatch(p, name)

-----------------------------------------------------------------------------

PatInit == pattern = <<>> /\ patPc = "new"

\* The caller checks the pattern once, and then the names.  (FileIterImpUnix.cpp:101)
CheckPattern ==
  /\ patPc = "new"
  /\ \E q \in BoundedSeq(Pieces, MaxPieces) : pattern' = FoldLeft(LAMBDA acc, x : acc \o x, <<>>, q)
  /\ patPc' = IF Valid(pattern') THEN "valid" ELSE "invalid"

PatNext == CheckPattern

-----------------------------------------------------------------------------
(* Properties *)

\* What a valid pattern is made of, one item after the other.
Items(p) ==
  LET items[i \in 0..Len(p) + 3] ==
        CASE CharAt(p, i) = NUL -> <<>>
          [] CharAt(p, i) = "[" ->
               LET members == SetStart(p, i + 1)
                   close == SetCloses(p, members)
               IN <<[kind |-> IF members = i + 1 THEN "set" ELSE "other",
                     chars |-> {c \in NameChars : ScanSet(p, members, c).hit}]>> \o items[close + 1]
          [] CharAt(p, i) = "quote" ->
               <<[kind |-> "set", chars |-> {CharAt(p, i + 1)}]>> \o items[i + 2]
          [] CharAt(p, i) = "!" -> <<[kind |-> "not", chars |-> {}]>> \o items[i + 1]
          [] CharAt(p, i) = "*" -> <<[kind |-> "closure", chars |-> NameChars]>> \o items[i + 1]
          [] CharAt(p, i) = "sub" ->
               <<[kind |-> "closure", chars |-> NameChars \ {"."}]>> \o items[i + 1]
          [] CharAt(p, i) = "?" -> <<[kind |-> "other", chars |-> {}]>> \o items[i + 1]
          [] OTHER -> <<[kind |-> "set", chars |-> {CharAt(p, i)}]>> \o items[i + 1]
  IN items[0]

\* The names of the length of a prefix that the items before an item describe:
\* the positions that can be reached, from left to right.
Reach(items, name, from) ==
  FoldLeft(LAMBDA acc, item :
             IF item.kind = "closure"
             THEN {j \in 0..Len(name) : \E i \in acc :
                     i <= j /\ \A m \in i + 1..j : name[m] \in item.chars}
             ELSE {i + 1 : i \in {i \in acc : i < Len(name)
                     /\ (name[i + 1] \in item.chars) = (item.kind = "set")}},
           {from}, items)

\* A "!" turns over what the rest of the pattern says; everything before it has
\* to leave something the rest does not describe.
Describes(items, name) ==
  LET D[from \in 1..Len(items) + 1, at \in 0..Len(name)] ==
        LET nots == {i \in from..Len(items) : items[i].kind = "not"}
        IN IF nots = {} THEN Len(name) \in Reach(SubSeq(items, from, Len(items)), name, at)
           ELSE LET k == Min(nots)
                IN \E j \in Reach(SubSeq(items, from, k - 1), name, at) : ~D[k + 1, j]
  IN D[1, 0]

ShortNames == BoundedSeq(NameChars, 2)

Has(p, chars, next) == \E i \in 1..Len(p) - 1 : p[i] \in chars /\ p[i + 1] \in next

\* fpattern_isvalid does not look at the character after a "!".
Unchecked(p) == Has(p, {"!"}, {"[", "quote", "!"})

\* A pattern that was found valid matches exactly the names it describes, and
\* every bracket is found again.  A negated set (UtilPattern.cpp:288-339) takes the
\* end of the name too, and the comparison may go on behind it.
MatchesDescribed ==
  patPc = "valid" /\ ~Unchecked(pattern) =>
    \A name \in ShortNames :
      LET result == SubMatch(pattern, name)
          described == IF Describes(Items(pattern), name) THEN "yes" ELSE "no"
      IN IF Has(pattern, {"["}, {"!"}) THEN result \in {described, "beyond"}
         ELSE result = described
==============================================================================
