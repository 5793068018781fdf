----------------------------- MODULE StringText -----------------------------
(***************************************************************************)
(* Strings: StringTokenizer (src/h/util/UtilStringTokenizer.h) and the     *)
(* trimming, splitting and caseless functions of StringUtils               *)
(* (src/src/util/UtilStringUtils.cpp).  A string is a sequence of          *)
(* characters, of which the model has as few kinds as the functions tell   *)
(* apart; positions count from 0, as in the code, and npos is larger than  *)
(* every size.                                                             *)
(***************************************************************************)
EXTENDS Naturals, Sequences, SequencesExt, FiniteSetsExt

CONSTANTS
  TextChars,   \* the characters, lower case and others
  UpperCase,   \* a function: the upper case characters and their lower case
  Delimiters,  \* the second argument of a tokenizer, or the pattern of a trim
  MaxText      \* bound: the length of a text

ASSUME StringTextAssumption ==
  /\ MaxText \in Nat
  /\ Delimiters \in Seq(TextChars) \ {<<>>}
  /\ UpperCase \in [DOMAIN UpperCase -> TextChars \ DOMAIN UpperCase]

VARIABLES
  text,       \* _str
  mode,       \* _skipDelimiters and _findAllTokens
  cur, nxt,   \* _currentPos, _nextPos
  updated,    \* _updated
  moreTokens, \* _moreTokens
  count,      \* delimiterCnt
  tokPc,      \* where advance is
  asked,      \* who called it: hasMoreTokens or getNextToken
  tokens,     \* what getNextToken returned so far
  edited      \* the last function of StringUtils called: what, on what, and its result

textVars == <<text, mode, cur, nxt, updated, moreTokens, count, tokPc, asked, tokens, edited>>

\* Larger than the size of every text here.
NPos == 99

At(s, i) == s[i + 1]

\* substr(from, length), and the constructor of String with the same arguments.
Sub(s, from, to) == SubSeq(s, from + 1, IF to < Len(s) THEN to ELSE Len(s))

FirstOf(positions) == IF positions = {} THEN NPos ELSE Min(positions)

\* find_first_of(pattern, from) and find(pattern, from).
FindFirstOf(s, pattern, from) ==
  FirstOf({i \in from..Len(s) - 1 : At(s, i) \in ToSet(pattern)})

Occurrences(s, pattern) ==
  {i \in 0..Len(s) - Len(pattern) : Sub(s, i, i + Len(pattern)) = pattern}

Find(s, pattern, from) == FirstOf({i \in Occurrences(s, pattern) : i >= from})

FindNext(from) ==
  IF mode.all THEN Find(text, Delimiters, from) ELSE FindFirstOf(text, Delimiters, from)

Nothing == [op |-> "none", in |-> <<>>, pat |-> <<>>, out |-> <<>>]

TextInit ==
  /\ text = <<>>
  /\ mode = [skip |-> TRUE, all |-> FALSE]
  /\ cur = NPos /\ nxt = NPos
  /\ updated = FALSE /\ moreTokens = TRUE
  /\ count = 0
  /\ tokPc = "new" /\ asked = "has"
  /\ tokens = <<>>
  /\ edited = Nothing

-----------------------------------------------------------------------------
(* The tokenizer *)

\* The constructor.
NewTokenizer ==
  /\ tokPc = "new"
  /\ text' \in BoundedSeq(TextChars, MaxText)
  /\ mode' \in [skip : BOOLEAN, all : BOOLEAN]
  /\ tokPc' = "idle"
  /\ UNCHANGED <<cur, nxt, updated, moreTokens, count, asked, tokens, edited>>

AtStart == nxt = NPos /\ cur = NPos

\* advance up to its loop.  A delimiter at position 0 is not skipped.
Advance(who) ==
  LET from == IF AtStart THEN 0 ELSE nxt IN
  /\ tokPc = "idle" /\ moreTokens /\ ~updated
  /\ Len(tokens) <= MaxText
  /\ asked' = who
  /\ cur' = from
  /\ nxt' = FindNext(from)
  /\ count' = 0
  /\ tokPc' = IF nxt' > 0 \/ ~AtStart THEN "skipping" ELSE "settling"
  /\ UNCHANGED <<text, mode, updated, moreTokens, tokens, edited>>

OnDelimiter == nxt <= Len(text) /\ cur = nxt

\* Mutant: the position is not moved past the delimiter.
StepOverNothing(position) == IF mode.all THEN position ELSE position + 1

\* The two modes of an iteration of the loop.
StepOver(position) ==
  IF ~mode.all THEN position + 1
  ELSE IF nxt # 0 THEN nxt + Len(Delimiters) ELSE position

SkipDelimiter ==
  /\ tokPc = "skipping" /\ OnDelimiter
  /\ count = 0 \/ mode.skip
  /\ count' = 1
  /\ cur' = StepOver(cur)
  /\ nxt' = FindNext(cur')
  /\ UNCHANGED <<text, mode, updated, moreTokens, tokPc, asked, tokens, edited>>

EndSkipping ==
  /\ tokPc = "skipping"
  /\ ~OnDelimiter \/ (count = 1 /\ ~mode.skip)
  /\ tokPc' = "settling"
  /\ UNCHANGED <<text, mode, cur, nxt, updated, moreTokens, count, asked, tokens,
                 edited>>

\* The end of advance.
Settle ==
  /\ tokPc = "settling"
  /\ tokPc' = "idle"
  /\ moreTokens' = (cur < Len(text))
  /\ IF asked = "get" /\ moreTokens'
     THEN updated' = FALSE /\ tokens' = Append(tokens, Sub(text, cur, nxt))
     ELSE updated' = TRUE /\ UNCHANGED tokens
  /\ UNCHANGED <<text, mode, cur, nxt, count, asked, edited>>

\* getNextToken after hasMoreTokens.
GetNextToken ==
  /\ tokPc = "idle" /\ updated /\ moreTokens
  /\ updated' = FALSE
  /\ tokens' = Append(tokens, Sub(text, cur, nxt))
  /\ UNCHANGED <<text, mode, cur, nxt, moreTokens, count, tokPc, asked, edited>>

-----------------------------------------------------------------------------
(* The functions of StringUtils *)

Outside(s, pattern) == {i \in 0..Len(s) - 1 : At(s, i) \notin ToSet(pattern)}

\* A text of nothing but the pattern stays as it is.
TrimFront(s, pattern) ==
  IF Outside(s, pattern) = {} THEN s ELSE Sub(s, Min(Outside(s, pattern)), Len(s))

\* The index is unsigned: in a text of nothing but the pattern the loop goes on
\* before its start, and what it finds there decides: npos + 1 is 0 for the first
\* byte, and more than the size for one further off.
TrimBack(s, pattern) ==
  IF s = <<>> THEN {s}
  ELSE IF Outside(s, pattern) = {} THEN {<<>>, s}
  ELSE {Sub(s, 0, Max(Outside(s, pattern)) + 1)}

TrimBoth(s, pattern) == TrimBack(TrimFront(s, pattern), pattern)

\* splitFront and splitBack: what is before and after the first or last occurrence.
SplitAt(s, pattern, i) == <<Sub(s, 0, i), Sub(s, i + Len(pattern), Len(s))>>

SplitFront(s, pattern) == SplitAt(s, pattern, Min(Occurrences(s, pattern)))
SplitBack(s, pattern) == SplitAt(s, pattern, Max(Occurrences(s, pattern)))

Lower(s) == [i \in DOMAIN s |->
               IF s[i] \in DOMAIN UpperCase THEN UpperCase[s[i]] ELSE s[i]]

\* Both are copied to be put into lower case, and neither is.
FindCaseless(s, pattern) == Find(s, pattern, 0)

\* compareCaseless returns 0.
EqualCaseless(s, t) == Lower(s) = Lower(t)

Edit(op, in, pattern, out) ==
  /\ tokPc' = "edited"
  /\ edited' = [op |-> op, in |-> in, pat |-> pattern, out |-> out]
  /\ UNCHANGED <<text, mode, cur, nxt, updated, moreTokens, count, asked, tokens>>

EditText ==
  /\ tokPc = "new"
  /\ \E s \in BoundedSeq(TextChars, MaxText), p \in {Delimiters, SubSeq(Delimiters, 1, 1)} :
       \/ \E out \in TrimBoth(s, p) : Edit("trim", s, p, out)
       \/ /\ Occurrences(s, p) # {}
          /\ \/ Edit("splitFront", s, p, SplitFront(s, p))
             \/ Edit("splitBack", s, p, SplitBack(s, p))

SearchText ==
  /\ tokPc = "new"
  /\ \E s \in BoundedSeq(TextChars, MaxText), p \in BoundedSeq(TextChars, 2) \ {<<>>} :
       Edit("find", s, p, <<FindCaseless(s, p)>>)

-----------------------------------------------------------------------------

TextNext ==
  \/ NewTokenizer
  \/ \E who \in {"has", "get"} : Advance(who)
  \/ SkipDelimiter
  \/ EndSkipping
  \/ Settle
  \/ GetNextToken
  \/ EditText
  \/ SearchText

-----------------------------------------------------------------------------
(* Properties *)

Width == IF mode.all THEN Len(Delimiters) ELSE 1

\* The fields of the text between its delimiters, from a position.
FieldsOf[from \in 0..MaxText] ==
  LET end == FindNext(from) IN
  IF end = NPos THEN <<Sub(text, from, Len(text))>>
  ELSE <<Sub(text, from, end)>> \o FieldsOf[end + Width]

\* What the comment at UtilStringTokenizer.h:135-147 promises of the two modes:
\* runs of delimiters are one delimiter, or enclose empty tokens; an empty field
\* is a token at the start of the text and never at its end.
PromisedTokens ==
  LET fields == FieldsOf[0]
      last == Len(fields)
  IN IF text = <<>> THEN <<>>
     ELSE IF mode.skip
          THEN SubSeq(fields, 1, 1) \o SelectSeq(Tail(fields), LAMBDA f : f # <<>>)
          ELSE IF fields[last] = <<>> /\ last > 1 THEN Front(fields) ELSE fields

\* findAllTokens on a text that starts with the delimiter stays on it for ever.
Stuck == mode.all /\ IsPrefix(Delimiters, text)

\* The tokens are the fields of the text, in order, whatever calls of
\* hasMoreTokens come between, and none is missing at the end.
TokensAreFields ==
  /\ ~Stuck => IsPrefix(tokens, PromisedTokens)
  /\ ~Stuck /\ ~moreTokens => tokens = PromisedTokens

\* The loop of advance ends: it moves on over every delimiter.
SkippingAdvances ==
  tokPc = "skipping" /\ tokPc' = "skipping" /\ ~Stuck => cur' > cur

\* trimBoth leaves the text between the first and the last character that is
\* not of the pattern; splitting loses nothing and splits at the first or last
\* occurrence.  What findCaseless finds is there, but for the case, and where
\* there are no upper case letters it is the first.
EditsAreExact ==
  LET in == edited.in
      p == edited.pat
      out == edited.out
      rest == Outside(in, p)
  IN /\ edited.op = "trim" /\ rest # {} => out = Sub(in, Min(rest), Max(rest) + 1)
     /\ edited.op \in {"splitFront", "splitBack"} => out[1] \o p \o out[2] = in
     /\ edited.op = "splitFront" => Occurrences(out[1] \o Front(p), p) = {}
     /\ edited.op = "splitBack" => Occurrences(Tail(p) \o out[2], p) = {}
     /\ edited.op = "find" =>
          LET there == {i \in 0..Len(in) - Len(p) : EqualCaseless(Sub(in, i, i + Len(p)), p)}
          IN /\ out[1] \in there \cup {NPos}
             /\ Lower(in) = in /\ Lower(p) = p => out[1] = FirstOf(there)
=============================================================================
