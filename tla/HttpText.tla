------------------------------ MODULE HttpText ------------------------------
(***************************************************************************)
(* The texts of HTTP: the content that is generated on one side and parsed *)
(* on the other (src/src/net/NetHttpContent.cpp), the encoding of forms    *)
(* and the reading of URLs (src/src/net/NetHttpUtils.cpp).  A request line *)
(* is the sequence of its words, a header is its name and its value, and   *)
(* the value of Content-Type is a mime type and a character set.           *)
(***************************************************************************)
EXTENDS StringText, Functions

CONSTANTS
  UrlHosts, UrlPaths,  \* what URLs are made of, as sequences of characters
  UrlPorts,            \* a function: the texts of ports and their numbers
  FormTexts,           \* keys and values of forms, and bodies
  ByteOf,              \* a function: the codes of the characters
  PathWords,           \* the words of paths
  BehindSlash,         \* a function: what is behind the first slash of a word that has one
  HttpCodes,           \* codes of responses
  MaxSets              \* bound: how often the sender's content is changed

ASSUME HttpTextAssumption ==
  /\ MaxSets \in Nat
  /\ \A p \in DOMAIN UrlPorts : UrlPorts[p] \in Nat
  /\ \A t \in FormTexts : \A i \in DOMAIN t : t[i] \in DOMAIN ByteOf
  /\ \A c \in DOMAIN ByteOf : ByteOf[c] \in 0..127
  /\ BehindSlash["HTTP/1.0"] = "1.0"

VARIABLES
  url,       \* the parts of a URL, and what parseURL makes of it
  sender,    \* a content that is being put together
  sets,      \* how often it was changed
  message,   \* what generate made of it
  receiver   \* the content that parsed the message

httpVars == <<url, sender, sets, message, receiver>>

-----------------------------------------------------------------------------
(* HttpUtils *)

Colon == <<":">>
Slash == <<"/">>
DefaultPort == 80

\* The port of a URL: an unsigned short.
PortIn(txt) == (IF txt \in DOMAIN UrlPorts THEN UrlPorts[txt] ELSE 0) % 65536

\* parseURL from its "Extract the host", with the protocol taken off at start.
HostOnly(u, start) ==
  LET slash == Find(u, Slash, start)
      found == slash > start /\ slash # NPos
  IN [host |-> Sub(u, start, IF found THEN slash ELSE Len(u)),
      port |-> DefaultPort,
      path |-> IF found THEN Sub(u, slash, Len(u)) ELSE Slash]
HostAndPort(u, start, colon) ==
  LET slash == Find(u, Slash, colon + 1)
      found == slash > colon + 1 /\ slash # NPos
  IN [host |-> Sub(u, start, colon),
      port |-> PortIn(Sub(u, colon + 1, IF found THEN slash ELSE Len(u))),
      path |-> IF found THEN Sub(u, slash, Len(u)) ELSE Slash]
\* Without "//" the position is npos, which is larger than 0, and npos + 2 is 1:
\* the first character of the host is not read.
ParseURL(u) ==
  LET slashes == Find(u, Slash \o Slash, 0)
      start == IF slashes = NPos THEN 1 ELSE IF slashes > 0 THEN slashes + 2 ELSE 0
      colon == Find(u, Colon, start)
  IN IF colon > start /\ colon # NPos THEN HostAndPort(u, start, colon)
     ELSE HostOnly(u, start)

Digits == <<"0", "1", "2", "3", "4", "5", "6", "7", "8", "9",
            "A", "B", "C", "D", "E", "F">>
\* A code that no character of the model has stays a number.
CharOf(code) == LET cs == {c \in DOMAIN ByteOf : ByteOf[c] = code}
                IN IF cs = {} THEN code ELSE CHOOSE c \in cs : TRUE
Kept(c) == c \in {"a", "b", "$", "-", "_", ".", "+", "!", "*", "(", ")", ","}

\* Mutant: the two characters that make the structure of a form stay.
EncodeCharKeeps(c) ==
  CASE c = " " -> <<"+">>
    [] Kept(c) \/ c \in {"&", "="} -> <<c>>
    [] OTHER -> <<"%", Digits[(ByteOf[c] \div 16) + 1], Digits[(ByteOf[c] % 16) + 1]>>

EncodeChar(c) ==
  CASE c = " " -> <<"+">>
    [] Kept(c) -> <<c>>
    [] OTHER -> <<"%", Digits[(ByteOf[c] \div 16) + 1], Digits[(ByteOf[c] % 16) + 1]>>
UrlEncode(s) == FlattenSeq([i \in DOMAIN s |-> EncodeChar(s[i])])

\* htoi, of two digits.
DigitOf(c) == (CHOOSE i \in DOMAIN Digits : Digits[i] = c) - 1
Htoi(hi, low) == CharOf(DigitOf(hi) * 16 + DigitOf(low))

\* urlDecode: a "%" with fewer than two characters behind it is left out.
UrlDecode(s) ==
  LET from[i \in 0..Len(s) + 2] ==
        IF i >= Len(s) THEN <<>>
        ELSE CASE At(s, i) = "+" -> <<" ">> \o from[i + 1]
               [] At(s, i) = "%" -> IF i + 2 < Len(s)
                                    THEN <<Htoi(At(s, i + 1), At(s, i + 2))>> \o from[i + 3]
                                    ELSE from[i + 1]
               [] OTHER -> <<At(s, i)>> \o from[i + 1]
  IN from[0]

-----------------------------------------------------------------------------
(* HttpContent *)

Stored(f, k, v) == [x \in DOMAIN f \cup {k} |-> IF x = k THEN v ELSE f[x]]
NoMap == [x \in {} |-> 0]
FormMime == "form"
TypeOf(mime, charset) == [mime |-> mime, charset |-> charset]
NoCharset == "none"

SetHeader(c, name, value) == [c EXCEPT !.headers = Stored(@, name, value)]
SetMimeType(c, m) == SetHeader([c EXCEPT !.mime = m], "Content-Type", TypeOf(m, c.enc))
SetMimeEncoding(c, e) == SetHeader([c EXCEPT !.enc = e], "Content-Type", TypeOf(c.mime, e))

\* The constructor; the error code is not initialized.
NewContent ==
  SetMimeEncoding(
    SetMimeType([type |-> "none", version |-> "1.0", path |-> <<"/">>, code |-> "any",
                 desc |-> <<>>, form |-> FALSE, mime |-> "plain", enc |-> NoCharset,
                 headers |-> NoMap, queries |-> NoMap, body |-> <<>>], "plain"), "UTF-8")

SetIsForm(c) == SetHeader([c EXCEPT !.form = TRUE], "Content-Type", TypeOf(FormMime, NoCharset))

\* What getErrorDescription gives for a code, as the words of it.
Descriptions ==
  "200" :> <<"OK">> @@ "201" :> <<"Created">> @@ "202" :> <<"Accepted">>
  @@ "204" :> <<"No", "Content">> @@ "301" :> <<"Moved", "Permanently">>
  @@ "302" :> <<"Moved", "Temporarily">> @@ "304" :> <<"Not", "Modified">>
  @@ "401" :> <<"Unauthorized">> @@ "403" :> <<"Forbidden">> @@ "404" :> <<"Not", "Found">>
  @@ "500" :> <<"Internal", "Server", "Error">> @@ "501" :> <<"Not", "Implemented">>
  @@ "502" :> <<"Bad", "Gateway">> @@ "503" :> <<"Service", "Unavailable">>
ErrorDescription(code) ==
  IF code \in DOMAIN Descriptions THEN Descriptions[code] ELSE <<"Bad", "Request">>
SetErrorCode(c, code) == [c EXCEPT !.code = code, !.desc = ErrorDescription(code)]

\* generateCommand; none without a type.
GenerateCommand(c) ==
  CASE c.type = "none" -> <<>>
    [] c.type = "request" -> <<"POST">> \o c.path \o <<"HTTP/1.0">>
    [] c.type = "response" -> <<"HTTP/1.0", c.code>> \o c.desc

\* generateHeader: in the order of the names.
HeaderNames == <<"Content-Length", "Content-Type", "SOAPAction">>
GenerateHeader(c) ==
  LET names == SelectSeq(HeaderNames, LAMBDA n : n \in DOMAIN c.headers)
  IN [i \in DOMAIN names |-> [name |-> names[i], value |-> c.headers[names[i]]]]

\* The body of a request that is a form: its queries, in some order of keys.
FormBody(c) ==
  LET keys == SetToSeq(DOMAIN c.queries)
      pair(k) == UrlEncode(k) \o <<"=">> \o UrlEncode(c.queries[k])
  IN FlattenSeq([i \in DOMAIN keys |-> (IF i = 1 THEN <<>> ELSE <<"&">>) \o pair(keys[i])])

\* generate: the length is always that of the body that is sent.
Generate(c) ==
  LET body == IF c.type = "request" /\ c.form THEN FormBody(c) ELSE c.body
      length == [name |-> "Content-Length", value |-> Len(body)]
  IN [command |-> GenerateCommand(c),
      lines |-> GenerateHeader(c) \o (IF c.type = "request" THEN <<length>> ELSE <<>>),
      body |-> body]

\* parseCommand: an empty word ends it.  The version of a request is whatever
\* is behind a slash in the word after the path.  Only the first word of a
\* description is read, over the one that goes with the code.
Word(command, i) == IF i > Len(command) THEN "" ELSE command[i]
WithVersion(c, word) ==
  IF word \in DOMAIN BehindSlash
  THEN [content |-> [c EXCEPT !.version = BehindSlash[word]], ok |-> TRUE]
  ELSE [content |-> c, ok |-> FALSE]
ParseCommand(c, command) ==
  CASE Word(command, 1) = "POST" ->
         LET request == [c EXCEPT !.type = "request"]
         IN IF Word(command, 2) = "" THEN [content |-> request, ok |-> FALSE]
            ELSE WithVersion([request EXCEPT !.path = <<Word(command, 2)>>], Word(command, 3))
    [] Word(command, 1) = "HTTP/1.0" ->
         LET response == WithVersion([c EXCEPT !.type = "response"], "HTTP/1.0").content
             coded == SetErrorCode(response, Word(command, 2))
         IN IF Word(command, 2) = "" THEN [content |-> response, ok |-> FALSE]
            ELSE [content |-> IF Word(command, 3) = "" THEN coded
                              ELSE [coded EXCEPT !.desc = <<Word(command, 3)>>],
                  ok |-> TRUE]
    [] OTHER -> [content |-> [c EXCEPT !.type = "none"], ok |-> FALSE]

\* parseOneHeader: Content-Type is understood, any other line is kept.  A type
\* without a character set takes the one the content has.
ParseOneHeader(c, line) ==
  LET kept == SetHeader(c, line.name, line.value)
  IN IF line.name # "Content-Type" THEN kept
     ELSE IF line.value.mime = FormMime THEN SetIsForm(kept)
     ELSE LET typed == SetMimeType(kept, line.value.mime)
          IN IF line.value.charset = NoCharset THEN typed
             ELSE SetMimeEncoding(typed, line.value.charset)
\* parseHeader: the headers there were are dropped, and nothing else.
ParseHeader(c, m) ==
  LET parsed == ParseCommand([c EXCEPT !.headers = NoMap], m.command)
  IN IF parsed.ok THEN [parsed EXCEPT !.content = FoldLeft(ParseOneHeader, @, m.lines)]
     ELSE parsed

\* The tokens of a tokenizer over one delimiter.
FieldsBetween(s, delimiter) ==
  LET from[i \in 0..Len(s) + 1] ==
        LET end == Find(s, <<delimiter>>, i)
        IN IF i >= Len(s) THEN <<>>
           ELSE IF end = NPos THEN <<Sub(s, i, Len(s))>>
           ELSE <<Sub(s, i, end)>> \o from[end + 1]
  IN SelectSeq(from[0], LAMBDA f : f # <<>>)

\* setRequestBody: the pairs of a form, or the body as it is.
SetRequestBody(c, body) ==
  LET pairs == SelectSeq(FieldsBetween(body, "&"), LAMBDA f : "=" \in ToSet(f))
      key(f) == Sub(f, 0, Find(f, <<"=">>, 0))
      value(f) == Sub(f, Find(f, <<"=">>, 0) + 1, Len(f))
  IN IF c.form
     THEN [c EXCEPT !.queries = FoldLeft(LAMBDA q, f :
                      Stored(q, UrlDecode(key(f)), UrlDecode(value(f))), @, pairs)]
     ELSE [c EXCEPT !.body = body]

SetResponseBody(c, body) == SetHeader([c EXCEPT !.body = body], "Content-Length", Len(body))

\* parseBody: only when it has the length that was announced (0 when none was).
LengthOf(c) == IF "Content-Length" \in DOMAIN c.headers THEN c.headers["Content-Length"] ELSE 0
LengthAgrees(c, body) == LengthOf(c) = Len(body)
ParseBody(c, body) ==
  LET clean == [c EXCEPT !.body = <<>>, !.queries = NoMap]
  IN IF ~LengthAgrees(c, body) THEN [content |-> clean, ok |-> FALSE]
     ELSE [content |-> IF c.type = "request" THEN SetRequestBody(clean, body)
                       ELSE SetResponseBody(clean, body),
           ok |-> TRUE]

-----------------------------------------------------------------------------

NoUrl == [host |-> <<>>, port |-> <<>>, path |-> <<>>, read |-> [host |-> <<>>]]
NoMessage == [command |-> <<>>, lines |-> <<>>, body |-> <<>>, cut |-> 0]

HttpInit ==
  /\ url = NoUrl
  /\ sender = NewContent /\ sets = 0
  /\ message = NoMessage
  /\ receiver = [content |-> NewContent, ok |-> FALSE]

\* setServerURL, of the form the comment before parseURL gives.
SetServerURL ==
  /\ sets = 0 /\ url = NoUrl
  /\ \E h \in UrlHosts, p \in DOMAIN UrlPorts \cup {<<>>}, path \in UrlPaths :
       LET port == IF p = <<>> THEN <<>> ELSE Colon \o p
       IN url' = [host |-> h, port |-> p, path |-> path,
                  read |-> ParseURL(<<"h", ":", "/", "/">> \o h \o port \o path)]
  /\ UNCHANGED <<sender, sets, message, receiver>>

Set(c) == sender' = c
\* What the users of a content do to it before it is sent.
ChangeContent ==
  /\ sets < MaxSets /\ url = NoUrl /\ message = NoMessage
  /\ sets' = sets + 1
  /\ \/ /\ sender.type = "none"
        /\ \/ Set([sender EXCEPT !.type = "request"])
           \/ \E code \in HttpCodes :
                Set(SetErrorCode([sender EXCEPT !.type = "response"], code))
     \/ \E m \in {"plain", "xml"} : Set(SetMimeType(sender, m))
     \/ Set(SetMimeEncoding(sender, "latin"))
     \/ Set(SetHeader(sender, "SOAPAction", "any"))
     \/ /\ sender.type = "request"
        /\ \/ \E w \in PathWords, v \in PathWords : Set([sender EXCEPT !.path = <<w, v>>])
           \/ \E w \in PathWords : Set([sender EXCEPT !.path = <<w>>])
           \/ ~sender.form /\ Set(SetIsForm(sender))
           \/ \E b \in FormTexts : Set([sender EXCEPT !.body = b])
           \/ /\ sender.form
              /\ \E k \in FormTexts, v \in FormTexts :
                   Set([sender EXCEPT !.queries = Stored(@, k, v)])
     \/ /\ sender.type = "response"
        /\ \E b \in FormTexts : Set(SetResponseBody(sender, b))
  /\ UNCHANGED <<url, message, receiver>>

\* It is generated, and parsed by the other side, with or without the last
\* characters of its body.
Deliver ==
  /\ message = NoMessage /\ url = NoUrl
  /\ \E cut \in 0..1 :
       LET m == Generate(sender)
           body == Sub(m.body, 0, IF cut > Len(m.body) THEN 0 ELSE Len(m.body) - cut)
           header == ParseHeader(NewContent, m)
       IN /\ sender.type # "none"
          /\ cut <= Len(m.body)
          /\ message' = [command |-> m.command, lines |-> m.lines, body |-> body, cut |-> cut]
          /\ receiver' = IF header.ok THEN ParseBody(header.content, body) ELSE header
  /\ UNCHANGED <<url, sender, sets>>

HttpNext == SetServerURL \/ ChangeContent \/ Deliver

-----------------------------------------------------------------------------
(* Properties *)

\* A URL of the form <protocol>://address[:port]/serverpath, with no further
\* colon, is read as its parts; the port is 80 when there is none.
UrlIsRead ==
  (url # NoUrl /\ ":" \notin ToSet(url.host \o url.path))
    => url.read = [host |-> url.host,
                   port |-> IF url.port = <<>> THEN DefaultPort ELSE UrlPorts[url.port] % 65536,
                   path |-> IF url.path = <<>> THEN Slash ELSE url.path]

\* What the other side parsed is what was put into the content: its kind, its
\* path up to a blank or its code, its type, its body and its queries, where
\* "+" has become a blank and of two keys that differ by that alone one is left.
PlusIsBlank(s) == [i \in DOMAIN s |-> IF s[i] = "+" THEN " " ELSE s[i]]
SameQueries(sent, got) ==
  /\ DOMAIN got = {PlusIsBlank(k) : k \in DOMAIN sent}
  /\ \A k \in DOMAIN got :
       \E s \in DOMAIN sent : PlusIsBlank(s) = k /\ got[k] = PlusIsBlank(sent[s])
ContentArrives ==
  LET got == receiver.content
  IN receiver.ok =>
       /\ got.type = sender.type
       /\ got.code = sender.code
       /\ sender.type = "request" => got.path = <<sender.path[1]>>
       /\ Len(sender.path) = 1 => got.version = sender.version
       /\ got.form = (sender.headers["Content-Type"].mime = FormMime)
       /\ ~got.form => got.headers["Content-Type"].mime = sender.mime
       /\ IF got.form THEN SameQueries(sender.queries, got.queries) ELSE got.body = message.body

\* A message is taken exactly when nothing of its body is missing, unless what
\* follows a blank in its path is no version.
TakenWhenWhole ==
  message # NoMessage =>
    (receiver.ok <=>
       /\ message.cut = 0
       /\ sender.type = "request" /\ Len(sender.path) > 1 => sender.path[2] \in DOMAIN BehindSlash)
============================================================================
