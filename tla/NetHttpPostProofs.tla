------------------------- MODULE NetHttpPostProofs --------------------------
(***************************************************************************)
(* Proofs about NetHttpPost: what a send takes from the wire is the whole  *)
(* answer to its own request, and an abort in time stops it.  PostInv says *)
(* who holds the mutex, what the sockets are, and what has been sent and   *)
(* answered on the connection of the one thread that is in send.           *)
(***************************************************************************)
EXTENDS NetHttpPost, FiniteSetTheorems, TLAPS

-----------------------------------------------------------------------------
(* m_sendMutex and m_abort *)

Holding == {"starting", "connecting", "connected", "headers", "body", "reading",
            "succeeded", "failed"}

\* Who is between the lock and the unlock of send is the owner of m_sendMutex.
OwnerHolds == \A t \in Posters : poster[t] \in Holding => sendMutex = t

\* A thread that an abort met in time finds m_abort still set when it looks.
AbortKept ==
  \A t \in intime :
    /\ poster[t] \in {"connecting", "connected", "failed", "idle", "cancelling"}
    /\ poster[t] \in {"connecting", "connected"} => abort

PosterTypeOK ==
  /\ sendMutex \in Posters \cup {NoPoster}
  /\ abort \in BOOLEAN
  /\ poster \in [Posters -> PosterPlaces]
  /\ sent \in [Posters -> BOOLEAN]
  /\ intime \subseteq Posters

AbortInv == PosterTypeOK /\ OwnerHolds /\ AbortKept

\* The steps that only move one poster, without the mutex.
LEMMA PosterMoves ==
  ASSUME AbortInv, NEW t \in Posters, NEW from \in PosterPlaces, NEW to \in PosterPlaces,
         PosterMove(t, from, to),
         UNCHANGED <<sendMutex, abort, sent, intime>>,
         to \in Holding => from \in Holding,
         t \in intime => /\ to \in {"connecting", "connected", "failed", "idle", "cancelling"}
                         /\ to \in {"connecting", "connected"} => abort
  PROVE  AbortInv'
  <1>1. /\ poster'[t] = to /\ poster[t] = from
        /\ \A u \in Posters : u # t => poster'[u] = poster[u]
    BY DEF AbortInv, PosterTypeOK, PosterMove
  <1>2. PosterTypeOK'
    BY DEF AbortInv, PosterTypeOK, PosterMove
  <1>3. OwnerHolds'
    BY <1>1 DEF AbortInv, OwnerHolds
  <1>4. AbortKept'
    BY <1>1 DEF AbortInv, AbortKept, PosterTypeOK
  <1>5. QED
    BY <1>2, <1>3, <1>4 DEF AbortInv

LEMMA AbortInvInit == NetInit => AbortInv
  <1> SUFFICES ASSUME NetInit PROVE AbortInv
    OBVIOUS
  <1>1. PosterTypeOK
    BY DEF NetInit, PosterTypeOK, PosterPlaces
  <1>2. OwnerHolds /\ AbortKept
    BY DEF NetInit, OwnerHolds, Holding, AbortKept
  <1>3. QED
    BY <1>1, <1>2 DEF AbortInv

LEMMA AbortInvKept ==
  ASSUME AbortInv, [NetNext]_netVars
  PROVE  AbortInv'
  <1> USE NetHttpPostAssumption
  <1>1. ASSUME NEW t \in Posters, PostBegin(t)
        PROVE  AbortInv'
    <2>1. /\ poster'[t] = "aborting" /\ poster[t] = "idle"
          /\ \A u \in Posters : u # t => poster'[u] = poster[u]
          /\ abort' = TRUE /\ sendMutex' = sendMutex
          /\ sent' = [sent EXCEPT ![t] = FALSE]
          /\ intime' = (intime \ {t})
                         \cup {u \in Posters : poster[u] \in {"connecting", "connected"}}
          /\ poster' = [poster EXCEPT ![t] = "aborting"]
      BY <1>1 DEF PostBegin, PosterMove, AbortInv, PosterTypeOK
    <2>2. PosterTypeOK'
      <3>1. sent' \in [Posters -> BOOLEAN]
        BY <2>1 DEF AbortInv, PosterTypeOK
      <3>2. QED
        BY <2>1, <3>1 DEF AbortInv, PosterTypeOK, PosterPlaces
    <2>3. OwnerHolds'
      BY <2>1 DEF AbortInv, OwnerHolds, Holding
    <2>4. AbortKept'
      BY <2>1 DEF AbortInv, AbortKept, PosterTypeOK
    <2>5. QED
      BY <2>2, <2>3, <2>4 DEF AbortInv
  <1>2. ASSUME NEW t \in Posters, AbortSend(t)
        PROVE  AbortInv'
    <2>1. /\ poster'[t] = "cancelling" /\ poster[t] = "idle"
          /\ \A u \in Posters : u # t => poster'[u] = poster[u]
          /\ abort' = TRUE /\ sendMutex' = sendMutex /\ sent' = sent
          /\ intime' = intime \cup {u \in Posters : poster[u] \in {"connecting", "connected"}}
          /\ poster' = [poster EXCEPT ![t] = "cancelling"]
      BY <1>2 DEF AbortSend, PosterMove, AbortInv, PosterTypeOK
    <2>2. PosterTypeOK'
      BY <2>1 DEF AbortInv, PosterTypeOK, PosterPlaces
    <2>3. OwnerHolds'
      BY <2>1 DEF AbortInv, OwnerHolds, Holding
    <2>4. AbortKept'
      BY <2>1 DEF AbortInv, AbortKept, PosterTypeOK
    <2>5. QED
      BY <2>2, <2>3, <2>4 DEF AbortInv
  <1>3. ASSUME NEW t \in Posters, PostLock(t)
        PROVE  AbortInv'
    <2>1. /\ poster'[t] = "starting" /\ poster[t] = "locking"
          /\ \A u \in Posters : u # t => poster'[u] = poster[u]
          /\ sendMutex = NoPoster /\ sendMutex' = t
          /\ UNCHANGED <<abort, sent, intime>>
          /\ poster' = [poster EXCEPT ![t] = "starting"]
      BY <1>3 DEF PostLock, PosterMove, AbortInv, PosterTypeOK
    <2>2. PosterTypeOK'
      BY <2>1 DEF AbortInv, PosterTypeOK, PosterPlaces
    <2>3. OwnerHolds'
      BY <2>1 DEF AbortInv, OwnerHolds
    <2>4. t \notin intime
      BY <2>1 DEF AbortInv, AbortKept
    <2>5. AbortKept'
      BY <2>1, <2>4 DEF AbortInv, AbortKept, PosterTypeOK
    <2>6. QED
      BY <2>2, <2>3, <2>5 DEF AbortInv
  <1>4. ASSUME NEW t \in Posters, DoSend(t)
        PROVE  AbortInv'
    <2>1. /\ poster'[t] = "connecting" /\ poster[t] = "starting"
          /\ \A u \in Posters : u # t => poster'[u] = poster[u]
          /\ abort' = FALSE
          /\ UNCHANGED <<sendMutex, sent, intime>>
          /\ poster' = [poster EXCEPT ![t] = "connecting"]
      BY <1>4 DEF DoSend, PosterMove, AbortInv, PosterTypeOK
    <2>2. PosterTypeOK'
      BY <2>1 DEF AbortInv, PosterTypeOK, PosterPlaces
    <2>3. OwnerHolds'
      BY <2>1 DEF AbortInv, OwnerHolds, Holding
    <2>4. t \notin intime
      BY <2>1 DEF AbortInv, AbortKept
    <2>5. \A u \in Posters : poster[u] \in {"connecting", "connected"} => FALSE
      BY <2>1 DEF AbortInv, OwnerHolds, Holding
    <2>6. AbortKept'
      BY <2>1, <2>4, <2>5 DEF AbortInv, AbortKept, PosterTypeOK
    <2>7. QED
      BY <2>2, <2>3, <2>6 DEF AbortInv
  <1>5. ASSUME NEW t \in Posters, PostReturn(t)
        PROVE  AbortInv'
    <2>1. /\ poster'[t] = "idle" /\ poster[t] \in {"succeeded", "failed"}
          /\ \A u \in Posters : u # t => poster'[u] = poster[u]
          /\ sendMutex' = NoPoster
          /\ UNCHANGED <<abort, intime>>
          /\ poster' = [poster EXCEPT ![t] = "idle"]
          /\ sent' = [sent EXCEPT ![t] = poster[t] = "succeeded"]
      BY <1>5 DEF PostReturn, AbortInv, PosterTypeOK
    <2>2. PosterTypeOK'
      <3>1. sent' \in [Posters -> BOOLEAN]
        BY <2>1 DEF AbortInv, PosterTypeOK
      <3>2. QED
        BY <2>1, <3>1 DEF AbortInv, PosterTypeOK, PosterPlaces
    <2>3. \A u \in Posters : u # t => poster[u] \notin Holding
      BY <2>1 DEF AbortInv, OwnerHolds, Holding
    <2>4. OwnerHolds'
      BY <2>1, <2>3 DEF OwnerHolds, Holding
    <2>5. AbortKept'
      BY <2>1 DEF AbortInv, AbortKept, PosterTypeOK
    <2>6. QED
      BY <2>2, <2>4, <2>5 DEF AbortInv
  <1>6. ASSUME NEW t \in Posters, PostAborted(t)
        PROVE  AbortInv'
    <2>1. t \notin intime
      BY <1>6 DEF PostAborted, PosterMove, AbortInv, AbortKept
    <2>2. PosterMove(t, "aborting", "locking") /\ UNCHANGED <<sendMutex, abort, sent, intime>>
      BY <1>6 DEF PostAborted
    <2>3. QED
      BY <2>1, <2>2, PosterMoves DEF PosterPlaces, Holding
  <1>7. ASSUME NEW t \in Posters,
               Connect(t) \/ ConnectRefused(t) \/ HostUnknown(t) \/ SocketFails(t)
        PROVE  AbortInv'
    <2>1. PICK to \in {"connected", "failed"} : PosterMove(t, "connecting", to)
      BY <1>7 DEF Connect, ConnectRefused, HostUnknown, SocketFails
    <2>2. UNCHANGED <<sendMutex, abort, sent, intime>>
      BY <1>7 DEF Connect, ConnectRefused, HostUnknown, SocketFails
    <2>3. t \in intime => abort
      BY <2>1 DEF PosterMove, AbortInv, AbortKept
    <2>4. QED
      BY <2>1, <2>2, <2>3, PosterMoves DEF PosterPlaces, Holding
  <1>8. ASSUME NEW t \in Posters, CheckAbort(t)
        PROVE  AbortInv'
    <2>1. PosterMove(t, "connected", IF abort THEN "failed" ELSE "headers")
      BY <1>8 DEF CheckAbort
    <2>2. UNCHANGED <<sendMutex, abort, sent, intime>>
      BY <1>8 DEF CheckAbort
    <2>3. t \in intime => abort
      BY <2>1 DEF PosterMove, AbortInv, AbortKept
    <2>4. QED
      BY <2>1, <2>2, <2>3, PosterMoves DEF PosterPlaces, Holding
  <1>9. ASSUME NEW t \in Posters,
               SendHeaders(t) \/ SendBody(t) \/ ReplyRead(t) \/ ReplyBad(t)
        PROVE  AbortInv'
    <2>1. PICK from \in {"headers", "body", "reading"},
               to \in {"body", "reading", "succeeded", "failed"} : PosterMove(t, from, to)
      BY <1>9 DEF SendHeaders, SendBody, ReplyRead, ReplyBad
    <2>2. UNCHANGED <<sendMutex, abort, sent, intime>>
      BY <1>9 DEF SendHeaders, SendBody, ReplyRead, ReplyBad
    <2>3. t \notin intime
      BY <2>1 DEF PosterMove, AbortInv, AbortKept
    <2>4. QED
      BY <2>1, <2>2, <2>3, PosterMoves DEF PosterPlaces, Holding
  <1>10. ASSUME NEW t \in Posters, AbortReturn(t)
         PROVE  AbortInv'
    <2>1. PosterMove(t, "cancelling", "idle") /\ UNCHANGED <<sendMutex, abort, sent, intime>>
      BY <1>10 DEF AbortReturn
    <2>2. QED
      BY <2>1, PosterMoves DEF PosterPlaces, Holding
  <1>11. ASSUME \/ \E e \in Ends : ReadStep(e)
                \/ ServerStep
                \/ UNCHANGED netVars
         PROVE  AbortInv'
    <2>1. UNCHANGED postVars
      BY <1>11 DEF ReadStep, ReadHeader, ReadBody, ReadEnd, ServerStep, Accept, RequestRead,
                   RequestBad, Respond, ServerClose, netVars
    <2>2. QED
      BY <2>1 DEF postVars, AbortInv, PosterTypeOK, OwnerHolds, AbortKept
  <1>12. QED
    BY <1>1, <1>2, <1>3, <1>4, <1>5, <1>6, <1>7, <1>8, <1>9, <1>10, <1>11
    DEF NetNext, PostStep

-----------------------------------------------------------------------------
(* Sequences *)

LEMMA ConcatAt ==
  ASSUME NEW S, NEW a \in Seq(S), NEW b \in Seq(S)
  PROVE  /\ a \o b \in Seq(S) /\ Len(a \o b) = Len(a) + Len(b)
         /\ \A i \in 1..Len(a) + Len(b) :
              (a \o b)[i] = IF i <= Len(a) THEN a[i] ELSE b[i - Len(a)]
  OBVIOUS

LEMMA Concatenated ==
  \A S : \A a, b \in Seq(S) : a \o b \in Seq(S)
  OBVIOUS

LEMMA ShortSeqs ==
  \A S : \A x, y \in S : <<x>> \in Seq(S) /\ <<x, y>> \in Seq(S)
  OBVIOUS

LEMMA TwoItems ==
  \A S : \A x, y \in S :
    <<x, y>> \in Seq(S) /\ Len(<<x, y>>) = 2 /\ <<x, y>>[1] = x /\ <<x, y>>[2] = y
  OBVIOUS

LEMMA ThreeItems ==
  \A S : \A x, y, z \in S :
    /\ <<x, y>> \o <<z>> \in Seq(S) /\ Len(<<x, y>> \o <<z>>) = 3
    /\ (<<x, y>> \o <<z>>)[1] = x /\ (<<x, y>> \o <<z>>)[2] = y
    /\ (<<x, y>> \o <<z>>)[3] = z
  OBVIOUS

LEMMA SameItems ==
  ASSUME NEW S, NEW p \in Seq(S), NEW q \in Seq(S), Len(p) = Len(q),
         \A i \in 1..Len(q) : p[i] = q[i]
  PROVE  p = q
  OBVIOUS

LEMMA Taken ==
  ASSUME NEW S, NEW q \in Seq(S), NEW k \in 0..Len(q)
  PROVE  /\ SubSeq(q, 1, k) \in Seq(S) /\ SubSeq(q, k + 1, Len(q)) \in Seq(S)
         /\ SubSeq(q, 1, k) \o SubSeq(q, k + 1, Len(q)) = q
         /\ Len(SubSeq(q, 1, k)) = k
  <1>1. SubSeq(q, 1, k) \in Seq(S) /\ SubSeq(q, k + 1, Len(q)) \in Seq(S)
    OBVIOUS
  <1>2. Len(SubSeq(q, 1, k)) = k
    OBVIOUS
  <1> DEFINE a == SubSeq(q, 1, k)
             b == SubSeq(q, k + 1, Len(q))
  <1>3. /\ Len(a) = k /\ Len(b) = Len(q) - k /\ Len(q) \in Nat /\ k \in Nat
        /\ \A i \in 1..k : a[i] = q[i]
        /\ \A i \in 1..Len(q) - k : b[i] = q[k + i]
    OBVIOUS
  <1>4. a \in Seq(S) /\ b \in Seq(S)
    BY <1>1
  <1> HIDE DEF a, b
  <1>5. a \o b \in Seq(S) /\ Len(a \o b) = Len(q)
    <2>1. a \o b \in Seq(S) /\ Len(a \o b) = Len(a) + Len(b)
      BY <1>4, ConcatAt
    <2>2. QED
      BY <1>3, <2>1
  <1>6. ASSUME NEW i \in 1..Len(q) PROVE (a \o b)[i] = q[i]
    <2>1. (a \o b)[i] = IF i <= k THEN a[i] ELSE b[i - k]
      BY <1>3, <1>4, ConcatAt
    <2>2. CASE i <= k
      BY <1>3, <2>1, <2>2
    <2>3. CASE ~(i <= k)
      <3>1. i - k \in 1..Len(q) - k /\ k + (i - k) = i
        BY <1>3, <2>3
      <3>2. QED
        BY <1>3, <2>1, <2>3, <3>1
    <2>4. QED
      BY <2>2, <2>3
  <1>7. a \o b = q
    BY <1>5, <1>6, SameItems
  <1>8. QED
    BY <1>1, <1>2, <1>7 DEF a, b

LEMMA Associative ==
  ASSUME NEW S, NEW a \in Seq(S), NEW b \in Seq(S), NEW c \in Seq(S)
  PROVE  (a \o b) \o c = a \o (b \o c)
  OBVIOUS

LEMMA EmptyBefore == \A S : \A q \in Seq(S) : <<>> \o q = q
  OBVIOUS

LEMMA BothEmpty ==
  ASSUME NEW S, NEW a \in Seq(S), NEW b \in Seq(S), a \o b = <<>>
  PROVE  a = <<>> /\ b = <<>>
  <1>1. Len(a) + Len(b) = 0 /\ Len(a) \in Nat /\ Len(b) \in Nat
    BY ConcatAt
  <1>2. Len(a) = 0 /\ Len(b) = 0
    BY <1>1
  <1>3. QED
    BY <1>2

LEMMA PrefixItems ==
  ASSUME NEW S, NEW a \in Seq(S), NEW b \in Seq(S)
  PROVE  /\ Len(a) \in Nat /\ Len(a \o b) \in Nat /\ Len(a) <= Len(a \o b)
         /\ \A i \in 1..Len(a) : a[i] = (a \o b)[i]
  <1>1. /\ Len(a) \in Nat /\ Len(b) \in Nat /\ Len(a \o b) = Len(a) + Len(b)
        /\ \A i \in 1..Len(a) + Len(b) :
             (a \o b)[i] = IF i <= Len(a) THEN a[i] ELSE b[i - Len(a)]
    BY ConcatAt
  <1>2. QED
    BY <1>1

LEMMA Nothing ==
  ASSUME NEW S, NEW a \in Seq(S), NEW b \in Seq(S), a \o b = <<>>, NEW q \in Seq(S)
  PROVE  a \o (b \o q) = q /\ (b = <<>> => b \o q = q)
  <1>1. a = <<>> /\ b = <<>>
    BY BothEmpty
  <1>2. <<>> \o q = q
    BY EmptyBefore
  <1>3. QED
    BY <1>1, <1>2

LEMMA LeastOfTwo ==
  ASSUME NEW n \in Int, NEW m \in Int
  PROVE  Min({n, m}) \in Int /\ Min({n, m}) <= n /\ Min({n, m}) <= m
  <1>1. \E x \in {n, m} : \A y \in {n, m} : x <= y
    OBVIOUS
  <1>2. QED
    BY <1>1 DEF Min

-----------------------------------------------------------------------------
(* The sockets *)

Units == [part : {"start", "length 0", "length 1", "body"}, of : Posters \cup {"error"}]

SocketTypeOK ==
  /\ server \in {"accepting", "reading", "responding", "closing"}
  /\ status \in [Ends -> {"closed", "connected", "read shutdown"}]
  /\ sock \in [Ends -> 0..MaxConns]
  /\ fd \in [Conns -> [Ends -> {"none", "unconnected", "backlog", "open", "closed"}]]
  /\ reading \in [Ends -> {"no", "header", "body", "bad"}]
  /\ inbox \in [Conns -> [Ends -> Seq(Units)]]
  /\ text \in [Ends -> Seq(Units)]

\* Who may still make a socket.
Pending ==
  {t \in Posters : poster[t] \in {"aborting", "locking", "starting", "connecting"}}

\* Connections are made one after the other, as many as the bound allows, and
\* nothing is on one that is not made.
ConnsInOrder ==
  /\ Made \in 0..MaxConns
  /\ \A c \in Conns : fd[c]["client"] # "none" <=> c <= Made
  /\ \A c \in Conns : c > Made =>
       fd[c]["server"] = "none" /\ \A e \in Ends : inbox[c][e] = <<>>
  /\ Made + Cardinality(Pending) <= MaxConns
  /\ sock["client"] <= Made

InUse == {"connected", "headers", "body", "reading"}

\* An end that is not closed has a connection: the server's always, the client's
\* as long as a thread uses it.
Bound(e) == status[e] # "closed" => sock[e] \in Conns

ClientConnects ==
  \A t \in Posters : poster[t] \in InUse => sock["client"] \in Conns

\* The server serves the one connection it has accepted.
ServerServes ==
  /\ Bound("server")
  /\ server # "accepting" =>
       status["server"] # "closed" /\ fd[sock["server"]]["server"] = "open"
  /\ \A c \in Conns : fd[c]["server"] = "open" =>
       server # "accepting" /\ c = sock["server"]
  /\ server # "reading" => reading["server"] = "no"
  /\ server = "responding" => text["server"] # <<>>

SocketInv == SocketTypeOK /\ ConnsInOrder /\ ServerServes

LEMMA CountOfFirst ==
  ASSUME NEW F, NEW n \in 0..MaxConns, \A c \in Conns : F[c]["client"] # "none" <=> c <= n
  PROVE  Cardinality({c \in Conns : F[c]["client"] # "none"}) = n
  <1> USE NetHttpPostAssumption
  <1>1. {c \in Conns : F[c]["client"] # "none"} = 1..n
    BY DEF Conns
  <1>2. Cardinality(1..n) = n
    BY FS_Interval
  <1>3. QED
    BY <1>1, <1>2

LEMMA UnitsOf ==
  ASSUME NEW o \in Posters \cup {"error"}
  PROVE  /\ Unit("body", o) \in Units
         /\ Header(o, "length 1") \in Seq(Units)
         /\ Header(o, "length 0") \in Seq(Units)
         /\ Header(o, "length 1") \o <<Unit("body", o)>> \in Seq(Units)
  <1>1. \A p \in {"start", "length 0", "length 1", "body"} : Unit(p, o) \in Units
    BY DEF Units, Unit
  <1>2. Header(o, "length 1") \in Seq(Units) /\ Header(o, "length 0") \in Seq(Units)
    BY <1>1, ShortSeqs DEF Header
  <1>3. <<Unit("body", o)>> \in Seq(Units)
    BY <1>1, ShortSeqs
  <1>4. QED
    BY <1>1, <1>2, <1>3, Concatenated

LEMMA OfUnits == \A q \in Seq(Units) : q # <<>> => q[1].of \in Posters \cup {"error"}
  <1> SUFFICES ASSUME NEW q \in Seq(Units), q # <<>>
               PROVE  q[1].of \in Posters \cup {"error"}
    OBVIOUS
  <1>1. q[1] \in Units
    OBVIOUS
  <1>2. QED
    BY <1>1 DEF Units, Unit

LEMMA Received ==
  ASSUME SocketTypeOK, NEW e \in Ends, Bound(e), NEW n \in Int, Receive(e, n)
  PROVE  /\ sock[e] \in Conns /\ inbox[sock[e]][e] # <<>>
         /\ inbox' \in [Conns -> [Ends -> Seq(Units)]]
         /\ text' \in [Ends -> Seq(Units)]
         /\ text'[e] # <<>>
         /\ \A d \in Ends \ {e} : text'[d] = text[d]
         /\ \A c \in Conns, d \in Ends : c # sock[e] \/ d # e => inbox'[c][d] = inbox[c][d]
         /\ text'[e] \o inbox'[sock[e]][e] = text[e] \o inbox[sock[e]][e]
  <1> DEFINE c == sock[e]
             q == inbox[c][e]
  <1>1. c \in Conns /\ q \in Seq(Units) /\ text[e] \in Seq(Units) /\ Len(q) \in Nat
    <2>1. c \in Conns
      BY DEF Receive, Bound
    <2>2. q \in Seq(Units) /\ text[e] \in Seq(Units)
      BY <2>1 DEF SocketTypeOK
    <2>3. QED
      BY <2>1, <2>2
  <1>2. PICK k \in 1..Min({n, Len(q)}) :
          /\ text' = [text EXCEPT ![e] = @ \o SubSeq(q, 1, k)]
          /\ inbox' = [inbox EXCEPT ![c][e] = SubSeq(@, k + 1, Len(@))]
    BY DEF Receive
  <1> HIDE DEF q, c
  <1>3. k \in 1..Len(q)
    <2>1. Len(q) \in Int
      BY <1>1
    <2>2. Min({n, Len(q)}) \in Int /\ Min({n, Len(q)}) <= Len(q)
      BY <2>1, LeastOfTwo
    <2>3. QED
      BY <1>1, <2>2
  <1> DEFINE a == SubSeq(q, 1, k)
             b == SubSeq(q, k + 1, Len(q))
  <1>4. a \in Seq(Units) /\ b \in Seq(Units) /\ a \o b = q /\ Len(a) = k
    BY <1>1, <1>3, Taken
  <1>5. /\ text'[e] = text[e] \o a /\ inbox'[c][e] = b
        /\ \A d \in Ends \ {e} : text'[d] = text[d]
        /\ \A f \in Conns, d \in Ends : f # c \/ d # e => inbox'[f][d] = inbox[f][d]
    BY <1>1, <1>2 DEF SocketTypeOK, q
  <1> HIDE DEF a, b
  <1>6. text[e] \o a \in Seq(Units) /\ text[e] \o a # <<>> /\ q # <<>>
    <2>1. text[e] \o a \in Seq(Units) /\ Len(text[e] \o a) = Len(text[e]) + Len(a)
      BY <1>1, <1>4, ConcatAt
    <2>2. Len(text[e]) \in Nat /\ Len(a) # 0 /\ Len(a) \in Nat
      BY <1>1, <1>3, <1>4
    <2>3. QED
      BY <1>1, <1>3, <2>1, <2>2
  <1>7. text' \in [Ends -> Seq(Units)]
    BY <1>2, <1>6 DEF SocketTypeOK, a
  <1>8. inbox' \in [Conns -> [Ends -> Seq(Units)]]
    BY <1>2, <1>4 DEF SocketTypeOK, b, q
  <1>9. (text[e] \o a) \o b = text[e] \o q
    <2>1. PICK t \in Seq(Units), x \in Seq(Units), y \in Seq(Units) :
            t = text[e] /\ x = a /\ y = b
      BY <1>1, <1>4
    <2>2. (t \o x) \o y = t \o (x \o y)
      BY Associative
    <2>3. QED
      BY <1>4, <2>1, <2>2
  <1>10. QED
    BY <1>1, <1>5, <1>6, <1>7, <1>8, <1>9 DEF c, q

LEMMA SocketInvInit == NetInit => SocketInv
  <1> SUFFICES ASSUME NetInit PROVE SocketInv
    OBVIOUS
  <1> USE NetHttpPostAssumption
  <1>1. SocketTypeOK
    BY DEF NetInit, SocketTypeOK, Ends
  <1>2. Made = 0
    <2>1. \A c \in Conns : fd[c]["client"] # "none" <=> c <= 0
      BY DEF NetInit, Conns, Ends
    <2>2. QED
      BY <2>1, CountOfFirst DEF Made
  <1>3. Pending = {}
    BY DEF NetInit, Pending
  <1>4. Cardinality(Pending) = 0
    BY <1>3, FS_EmptySet
  <1>5. ConnsInOrder
    BY <1>2, <1>4 DEF ConnsInOrder, NetInit, Conns, Ends
  <1>6. ServerServes
    BY DEF ServerServes, Bound, NetInit, Conns, Ends
  <1>7. QED
    BY <1>1, <1>5, <1>6 DEF SocketInv

LEMMA PendingFinite ==
  IsFiniteSet(Pending) /\ Cardinality(Pending) \in Nat
  <1>1. Pending \subseteq Posters
    BY DEF Pending
  <1>2. QED
    BY <1>1, NetHttpPostAssumption, FS_Subset, FS_CardinalityType

LEMMA FewerPending ==
  ASSUME Pending' \subseteq Pending
  PROVE  Cardinality(Pending') \in Nat /\ Cardinality(Pending') <= Cardinality(Pending)
  BY PendingFinite, FS_Subset, FS_CardinalityType

LEMMA SameConns ==
  ASSUME ConnsInOrder,
         \A c \in Conns : fd'[c]["client"] = "none" <=> fd[c]["client"] = "none",
         \A c \in Conns : c > Made =>
           fd'[c]["server"] = "none" /\ \A e \in Ends : inbox'[c][e] = <<>>,
         Pending' \subseteq Pending,
         sock'["client"] <= Made
  PROVE  ConnsInOrder'
  <1>1. Made' = Made
    BY DEF Made
  <1>2. Cardinality(Pending') \in Nat /\ Cardinality(Pending') <= Cardinality(Pending)
    BY FewerPending
  <1>3. Cardinality(Pending) \in Nat
    BY PendingFinite
  <1>4. Made' + Cardinality(Pending') <= MaxConns
    BY <1>1, <1>2, <1>3, NetHttpPostAssumption DEF ConnsInOrder
  <1>5. QED
    BY <1>1, <1>4 DEF ConnsInOrder

LEMMA SocketsAlone ==
  ASSUME SocketInv, UNCHANGED <<readVars, socketVars, server, inbox>>,
         Pending' \subseteq Pending
  PROVE  SocketInv'
  <1> USE DEF SocketInv, readVars, socketVars
  <1>1. SocketTypeOK'
    BY DEF SocketTypeOK
  <1>2. ServerServes'
    BY DEF ServerServes, Bound
  <1>3. ConnsInOrder'
    BY SameConns DEF ConnsInOrder
  <1>4. QED
    BY <1>1, <1>2, <1>3

LEMMA BeginKeepsSockets ==
  ASSUME SocketInv, PosterTypeOK, NEW t \in Posters, PostBegin(t)
  PROVE  SocketInv'
  <1> USE NetHttpPostAssumption DEF SocketInv
  <1>1. UNCHANGED <<readVars, socketVars, server, inbox>>
    BY DEF PostBegin
  <1>2. SocketTypeOK' /\ ServerServes'
    BY <1>1 DEF readVars, socketVars, SocketTypeOK, ServerServes, Bound
  <1>3. Made' = Made
    BY <1>1 DEF socketVars, Made
  <1> DEFINE Busy == {u \in Posters : poster[u] # "idle"}
  <1>4. Made + Cardinality(Busy) < MaxConns
    BY DEF PostBegin
  <1>5. Pending \subseteq Busy /\ IsFiniteSet(Busy) /\ IsFiniteSet(Pending)
    <2>1. Busy \subseteq Posters /\ Pending \subseteq Busy
      BY DEF Pending
    <2>2. QED
      BY <2>1, FS_Subset
  <1>6. /\ Cardinality(Pending) \in Nat /\ Cardinality(Busy) \in Nat
        /\ Cardinality(Pending) <= Cardinality(Busy)
    BY <1>5, FS_Subset, FS_CardinalityType
  <1>7. Pending' = Pending \cup {t} /\ t \notin Pending
    BY DEF Pending, PostBegin, PosterMove, PosterTypeOK
  <1>8. Cardinality(Pending') = Cardinality(Pending) + 1
    BY <1>5, <1>7, FS_AddElement
  <1>9. Made' + Cardinality(Pending') <= MaxConns
    <2>1. Made \in Nat
      BY DEF ConnsInOrder
    <2> HIDE DEF Busy
    <2>2. QED
      BY <1>3, <1>4, <1>6, <1>8, <2>1
  <1>10. ConnsInOrder'
    BY <1>1, <1>3, <1>9 DEF ConnsInOrder, readVars, socketVars
  <1>11. QED
    BY <1>2, <1>10

LEMMA ConnectKeepsSockets ==
  ASSUME SocketInv, PosterTypeOK, NEW t \in Posters, Connect(t) \/ ConnectRefused(t)
  PROVE  /\ SocketInv'
         /\ Made + 1 \in Conns /\ Made' = Made + 1
         /\ \A c \in Conns : c # Made + 1 => fd'[c] = fd[c]
  <1> USE NetHttpPostAssumption DEF SocketInv
  <1> DEFINE n == Made + 1
  <1>1. PICK to \in {"connected", "failed"} : PosterMove(t, "connecting", to)
    BY DEF Connect, ConnectRefused
  <1>2. Pending' = Pending \ {t} /\ t \in Pending
    BY <1>1 DEF Pending, PosterMove, PosterTypeOK
  <1>3. /\ Cardinality(Pending) \in Nat /\ Cardinality(Pending) # 0
        /\ Cardinality(Pending') = Cardinality(Pending) - 1
    <2>1. IsFiniteSet(Pending) /\ Cardinality(Pending) \in Nat
      BY PendingFinite
    <2>2. Cardinality(Pending \ {t}) = Cardinality(Pending) - 1
      BY <1>2, <2>1, FS_RemoveElement
    <2>3. Cardinality(Pending) # 0
      BY <1>2, <2>1, FS_EmptySet
    <2>4. QED
      BY <1>2, <2>1, <2>2, <2>3
  <1>4. n \in Conns /\ Made \in Nat /\ n \in 0..MaxConns
    BY <1>3 DEF ConnsInOrder, Conns
  <1>5. PICK x \in [Ends -> {"unconnected", "closed", "open", "backlog"}] :
          /\ fd' = [fd EXCEPT ![n] = x]
          /\ x["server"] \in {"closed", "backlog"}
    <2>1. PICK x \in {[client |-> "open", server |-> "backlog"],
                      [client |-> "unconnected", server |-> "closed"],
                      [client |-> "closed", server |-> "closed"]} :
            fd' = [fd EXCEPT ![n] = x]
      BY DEF Connect, ConnectRefused
    <2>2. x \in [Ends -> {"unconnected", "closed", "open", "backlog"}]
      BY <2>1 DEF Ends
    <2>3. x["server"] \in {"closed", "backlog"}
      BY <2>1
    <2>4. QED
      BY <2>1, <2>2, <2>3
  <1>6. fd'[n] = x /\ \A c \in Conns : c # n => fd'[c] = fd[c]
    BY <1>4, <1>5 DEF SocketTypeOK
  <1>7. /\ UNCHANGED <<readVars, server, inbox>>
        /\ sock'["server"] = sock["server"] /\ status'["server"] = status["server"]
        /\ sock' = [sock EXCEPT !["client"] = n] \/ sock' = [sock EXCEPT !["client"] = 0]
        /\ status'["client"] # "closed" => sock'["client"] = n
    <2>1. CASE Connect(t)
      BY <2>1 DEF Connect, SocketTypeOK, Ends
    <2>2. CASE ConnectRefused(t)
      BY <2>2 DEF ConnectRefused, SocketTypeOK, Ends
    <2>3. QED
      BY <2>1, <2>2
  <1> HIDE DEF n
  <1>8. Made' = n
    <2>1. \A c \in Conns : fd'[c]["client"] # "none" <=> c <= n
      BY <1>4, <1>5, <1>6 DEF ConnsInOrder, Conns, Ends, n
    <2>2. QED
      BY <1>4, <2>1, CountOfFirst DEF Made
  <1>9. SocketTypeOK'
    <2>1. fd' \in [Conns -> [Ends -> {"none", "unconnected", "backlog", "open", "closed"}]]
      BY <1>4, <1>5 DEF SocketTypeOK
    <2>2. sock' \in [Ends -> 0..MaxConns]
      <3>1. PICK m \in 0..MaxConns : sock' = [sock EXCEPT !["client"] = m]
        BY <1>4, <1>7
      <3>2. QED
        BY <3>1 DEF SocketTypeOK
    <2>3. status' \in [Ends -> {"closed", "connected", "read shutdown"}]
      BY DEF SocketTypeOK, Connect, ConnectRefused
    <2>4. QED
      BY <1>7, <2>1, <2>2, <2>3 DEF SocketTypeOK, readVars
  <1>10. ConnsInOrder'
    <2>1. \A c \in Conns : fd'[c]["client"] # "none" <=> c <= n
      BY <1>4, <1>5, <1>6 DEF ConnsInOrder, Conns, Ends, n
    <2>2. \A c \in Conns : c > n =>
            fd'[c]["server"] = "none" /\ \A e \in Ends : inbox'[c][e] = <<>>
      BY <1>4, <1>6, <1>7 DEF ConnsInOrder, Conns, n
    <2>3. n + Cardinality(Pending') <= MaxConns
      BY <1>3, <1>4 DEF ConnsInOrder, n
    <2>4. sock'["client"] <= n
      <3>1. PICK m \in {0, n} : sock' = [sock EXCEPT !["client"] = m]
        BY <1>7
      <3>2. sock'["client"] = m
        BY <3>1 DEF SocketTypeOK, Ends
      <3>3. QED
        BY <1>4, <3>2
    <2>5. QED
      BY <1>4, <1>8, <2>1, <2>2, <2>3, <2>4 DEF ConnsInOrder
  <1>11. ServerServes'
    <2>1. fd[n]["server"] = "none"
      BY <1>4 DEF ConnsInOrder, n
    <2>2. Bound("server")'
      BY <1>7 DEF ServerServes, Bound
    <2>3. server # "accepting" =>
            /\ status["server"] # "closed" /\ fd[sock["server"]]["server"] = "open"
            /\ sock["server"] \in Conns /\ sock["server"] # n
      BY <2>1 DEF ServerServes, Bound, Ends
    <2>4. \A c \in Conns : fd'[c]["server"] = "open" => fd[c]["server"] = "open"
      BY <1>5, <1>6
    <2>5. QED
      BY <1>6, <1>7, <2>2, <2>3, <2>4 DEF ServerServes, Bound, readVars
  <1>12. QED
    BY <1>4, <1>6, <1>8, <1>9, <1>10, <1>11 DEF n

LEMMA NoSocketKeepsSockets ==
  ASSUME SocketInv, PosterTypeOK, NEW t \in Posters, SocketFails(t)
  PROVE  SocketInv'
  <1> USE NetHttpPostAssumption DEF SocketInv
  <1>1. /\ UNCHANGED <<readVars, server, inbox, status, fd>>
        /\ sock' = [sock EXCEPT !["client"] = 0]
    BY DEF SocketFails
  <1>2. sock'["server"] = sock["server"] /\ sock'["client"] = 0
    BY <1>1 DEF SocketTypeOK, Ends
  <1>3. SocketTypeOK'
    <2>1. 0 \in 0..MaxConns
      OBVIOUS
    <2>2. sock' \in [Ends -> 0..MaxConns]
      BY <1>1, <2>1 DEF SocketTypeOK
    <2>3. QED
      BY <1>1, <2>2 DEF SocketTypeOK, readVars
  <1>4. ServerServes'
    BY <1>1, <1>2 DEF ServerServes, Bound, readVars
  <1>5. Pending' \subseteq Pending
    BY DEF Pending, PosterTypeOK, SocketFails, PosterMove
  <1>6. sock'["client"] <= Made
    BY <1>2 DEF ConnsInOrder
  <1>7. ConnsInOrder'
    BY <1>1, <1>5, <1>6, SameConns DEF ConnsInOrder
  <1>8. QED
    BY <1>3, <1>4, <1>7

LEMMA Written ==
  ASSUME SocketTypeOK, NEW e \in Ends, Bound(e), NEW ok \in Sends(e),
         NEW units \in Seq(Units), Send(e, ok, units)
  PROVE  /\ inbox' \in [Conns -> [Ends -> Seq(Units)]]
         /\ \A c \in Conns, d \in Ends :
              c # sock[e] \/ d # Peer(e) => inbox'[c][d] = inbox[c][d]
         /\ ok => /\ sock[e] \in Conns
                  /\ inbox'[sock[e]][Peer(e)] = inbox[sock[e]][Peer(e)] \o units
         /\ ~ok => inbox' = inbox
  <1>1. ok \in BOOLEAN /\ (ok => status[e] = "connected")
    BY DEF Sends
  <1>2. Peer(e) \in Ends
    BY DEF Peer, Ends
  <1>3. CASE ~ok
    BY <1>3 DEF Send, SocketTypeOK
  <1>4. CASE ok
    <2>1. PICK c \in Conns : c = sock[e]
      BY <1>1, <1>4 DEF Bound
    <2>2. PICK q \in Seq(Units) : q = inbox[c][Peer(e)]
      BY <1>2 DEF SocketTypeOK
    <2>3. q \o units \in Seq(Units)
      BY Concatenated
    <2>4. inbox' = [inbox EXCEPT ![c][Peer(e)] = q \o units]
      BY <1>4, <2>1, <2>2 DEF Send
    <2>5. inbox' \in [Conns -> [Ends -> Seq(Units)]]
      BY <1>2, <2>3, <2>4 DEF SocketTypeOK
    <2>6. inbox'[c][Peer(e)] = q \o units
      BY <1>2, <2>4 DEF SocketTypeOK
    <2>7. \A f \in Conns, d \in Ends : f # c \/ d # Peer(e) => inbox'[f][d] = inbox[f][d]
      BY <1>2, <2>4 DEF SocketTypeOK
    <2>8. QED
      BY <1>4, <2>1, <2>2, <2>5, <2>6, <2>7
  <1>5. QED
    BY <1>1, <1>3, <1>4

LEMMA Closed ==
  ASSUME SocketTypeOK, NEW e \in Ends, Bound(e), CloseSocket(e)
  PROVE  /\ fd' \in [Conns -> [Ends -> {"none", "unconnected", "backlog", "open", "closed"}]]
         /\ sock' \in [Ends -> 0..MaxConns]
         /\ status' \in [Ends -> {"closed", "connected", "read shutdown"}]
         /\ status'[e] = "closed"
         /\ sock'[e] = sock[e] \/ sock'[e] = 0
         /\ status[e] # "closed" => fd'[sock[e]][e] = "closed"
         /\ \A c \in Conns, d \in Ends : d # e \/ c # sock[e] => fd'[c][d] = fd[c][d]
         /\ \A c \in Conns, d \in Ends : fd'[c][d] = fd[c][d] \/ fd'[c][d] = "closed"
         /\ \A d \in Ends : d # e => sock'[d] = sock[d] /\ status'[d] = status[d]
  <1> USE NetHttpPostAssumption
  <1>1. CASE status[e] = "closed"
    BY <1>1 DEF CloseSocket, socketVars, SocketTypeOK
  <1>2. CASE status[e] # "closed"
    <2>1. PICK c \in Conns : c = sock[e]
      BY <1>2 DEF Bound
    <2>2. /\ fd' = [fd EXCEPT ![c][e] = "closed"]
          /\ sock' = [sock EXCEPT ![e] = 0]
          /\ status' = [status EXCEPT ![e] = "closed"]
      BY <1>2, <2>1 DEF CloseSocket
    <2>3. /\ sock' \in [Ends -> 0..MaxConns] /\ sock'[e] = 0
          /\ \A d \in Ends : d # e => sock'[d] = sock[d]
      <3>1. 0 \in 0..MaxConns
        OBVIOUS
      <3>2. sock \in [Ends -> 0..MaxConns]
        BY DEF SocketTypeOK
      <3>3. QED
        BY <2>2, <3>1, <3>2
    <2>4. /\ status' \in [Ends -> {"closed", "connected", "read shutdown"}]
          /\ status'[e] = "closed" /\ \A d \in Ends : d # e => status'[d] = status[d]
      BY <2>2 DEF SocketTypeOK
    <2>5. fd' \in [Conns -> [Ends -> {"none", "unconnected", "backlog", "open", "closed"}]]
      BY <2>2 DEF SocketTypeOK
    <2>6. \A f \in Conns, d \in Ends :
            fd'[f][d] = IF f = c /\ d = e THEN "closed" ELSE fd[f][d]
      BY <2>2 DEF SocketTypeOK
    <2>7. QED
      BY <2>1, <2>3, <2>4, <2>5, <2>6
  <1>3. QED
    BY <1>1, <1>2

LEMMA ClientIsMade ==
  ASSUME SocketInv
  PROVE  /\ Made \in Nat /\ sock["client"] \in Nat /\ sock["client"] <= Made
         /\ \A c \in Conns : c \in Nat \ {0} /\ (c > Made => c # sock["client"])
  <1> USE NetHttpPostAssumption
  <1>1. Made \in Nat /\ sock["client"] <= Made
    BY DEF SocketInv, ConnsInOrder
  <1>2. sock["client"] \in Nat
    <2>1. sock \in [Ends -> 0..MaxConns] /\ "client" \in Ends
      BY DEF SocketInv, SocketTypeOK, Ends
    <2>2. sock["client"] \in 0..MaxConns
      BY <2>1
    <2>3. QED
      BY <2>2
  <1>3. QED
    BY <1>1, <1>2 DEF Conns

\* The server's connection is made.
LEMMA ServedIsMade ==
  ASSUME SocketInv, server # "accepting"
  PROVE  sock["server"] \in Conns /\ sock["server"] <= Made
  <1>1. sock["server"] \in Conns /\ fd[sock["server"]]["server"] = "open"
    BY DEF SocketInv, ServerServes, Bound, Ends
  <1>2. QED
    BY <1>1, NetHttpPostAssumption DEF SocketInv, ConnsInOrder, Conns

LEMMA ClosedConnIsMade ==
  ASSUME SocketInv, NEW c \in Conns, c <= Made
  PROVE  fd[c]["client"] # "none"
  BY DEF SocketInv, ConnsInOrder

LEMMA SendKeepsSockets ==
  ASSUME SocketInv, PosterTypeOK, ClientConnects, NEW t \in Posters,
         SendHeaders(t) \/ SendBody(t)
  PROVE  SocketInv'
  <1> USE NetHttpPostAssumption DEF SocketInv
  <1>1. t \in Posters \cup {"error"} /\ "client" \in Ends /\ "server" \in Ends
    BY DEF Ends
  <1>2. PICK ok \in Sends("client"), units \in Seq(Units) :
          /\ Send("client", ok, units)
          /\ SendBody(t) => reading' = [reading EXCEPT !["client"] = IF ok THEN "header" ELSE @]
          /\ SendBody(t) => text' = [text EXCEPT !["client"] = IF ok THEN <<>> ELSE @]
    <2>1. CASE SendHeaders(t)
      <3>1. PICK ok \in Sends("client") : Send("client", ok, Header(t, "length 1"))
        BY <2>1 DEF SendHeaders
      <3>2. Header(t, "length 1") \in Seq(Units)
        BY <1>1, UnitsOf
      <3>3. ~SendBody(t)
        BY <2>1 DEF SendHeaders, SendBody, PosterMove
      <3>4. QED
        BY <3>1, <3>2, <3>3
    <2>2. CASE SendBody(t)
      <3>1. PICK ok \in Sends("client") :
              /\ Send("client", ok, <<Unit("body", t)>>)
              /\ reading' = [reading EXCEPT !["client"] = IF ok THEN "header" ELSE @]
              /\ text' = [text EXCEPT !["client"] = IF ok THEN <<>> ELSE @]
        BY <2>2 DEF SendBody
      <3>2. <<Unit("body", t)>> \in Seq(Units)
        BY <1>1, UnitsOf, ShortSeqs
      <3>3. QED
        BY <3>1, <3>2
    <2>3. QED
      BY <2>1, <2>2
  <1>3. UNCHANGED <<socketVars, server>> /\ (SendHeaders(t) => UNCHANGED readVars)
    BY DEF SendHeaders, SendBody
  <1>4. /\ inbox' \in [Conns -> [Ends -> Seq(Units)]]
        /\ \A c \in Conns, d \in Ends : c # sock["client"] => inbox'[c][d] = inbox[c][d]
    <2>1. Bound("client")
      BY DEF ClientConnects, Bound, InUse, SendHeaders, SendBody, PosterMove
    <2>2. QED
      BY <1>1, <1>2, <2>1, Written
  <1>5. reading' \in [Ends -> {"no", "header", "body", "bad"}] /\ text' \in [Ends -> Seq(Units)]
    <2>1. CASE SendHeaders(t)
      BY <1>3, <2>1 DEF readVars, SocketTypeOK
    <2>2. CASE SendBody(t)
      <3>1. PICK q \in Seq(Units) : text' = [text EXCEPT !["client"] = q]
        <4>1. text["client"] \in Seq(Units)
          BY <1>1 DEF SocketTypeOK
        <4>2. <<>> \in Seq(Units)
          OBVIOUS
        <4>3. QED
          BY <1>2, <2>2, <4>1, <4>2
      <3>2. PICK m \in {"no", "header", "body", "bad"} :
              reading' = [reading EXCEPT !["client"] = m]
        <4>1. reading["client"] \in {"no", "header", "body", "bad"}
          BY <1>1 DEF SocketTypeOK
        <4>2. QED
          BY <1>2, <2>2, <4>1
      <3>3. QED
        BY <3>1, <3>2 DEF SocketTypeOK
    <2>3. QED
      BY <2>1, <2>2
  <1>6. text'["server"] = text["server"] /\ reading'["server"] = reading["server"]
    BY <1>1, <1>2, <1>3 DEF readVars, SocketTypeOK
  <1>7. SocketTypeOK'
    BY <1>3, <1>4, <1>5 DEF SocketTypeOK, socketVars
  <1>8. ServerServes'
    BY <1>3, <1>6 DEF ServerServes, Bound, socketVars
  <1>9. Pending' \subseteq Pending
    BY DEF Pending, PosterTypeOK, SendHeaders, SendBody, PosterMove
  <1>10. \A c \in Conns : c > Made => c # sock["client"]
    BY ClientIsMade
  <1>11. ConnsInOrder'
    BY <1>3, <1>4, <1>9, <1>10, SameConns DEF ConnsInOrder, socketVars
  <1>12. QED
    BY <1>7, <1>8, <1>11

LEMMA ReplyKeepsSockets ==
  ASSUME SocketInv, PosterTypeOK, ClientConnects, NEW t \in Posters,
         ReplyRead(t) \/ ReplyBad(t)
  PROVE  SocketInv'
  <1> USE NetHttpPostAssumption DEF SocketInv
  <1>1. "client" \in Ends /\ "server" \in Ends /\ Bound("client")
    BY DEF Ends, ClientConnects, Bound, InUse, ReplyRead, ReplyBad, PosterMove
  <1>2. /\ inbox' \in [Conns -> [Ends -> Seq(Units)]]
        /\ \A c \in Conns, d \in Ends : c # sock["client"] => inbox'[c][d] = inbox[c][d]
    <2>1. CASE ReplyRead(t)
      BY <2>1 DEF ReplyRead, SocketTypeOK
    <2>2. CASE ReplyBad(t)
      <3>1. PICK ok \in Sends("client") : Send("client", ok, Header("error", "length 0"))
        BY <2>2 DEF ReplyBad, SendError
      <3>2. Header("error", "length 0") \in Seq(Units)
        BY UnitsOf
      <3>3. QED
        BY <1>1, <3>1, <3>2, Written
    <2>3. QED
      BY <2>1, <2>2
  <1>3. /\ reading' = [reading EXCEPT !["client"] = "no"] /\ text' = text
        /\ server' = server /\ CloseSocket("client")
    BY DEF ReplyRead, ReplyBad, ReadComplete
  <1>4. /\ fd' \in [Conns -> [Ends -> {"none", "unconnected", "backlog", "open", "closed"}]]
        /\ sock' \in [Ends -> 0..MaxConns]
        /\ status' \in [Ends -> {"closed", "connected", "read shutdown"}]
        /\ status'["client"] = "closed"
        /\ sock'["client"] = sock["client"] \/ sock'["client"] = 0
        /\ \A c \in Conns, d \in Ends :
             d # "client" \/ c # sock["client"] => fd'[c][d] = fd[c][d]
        /\ \A c \in Conns, d \in Ends : fd'[c][d] = fd[c][d] \/ fd'[c][d] = "closed"
        /\ sock'["server"] = sock["server"] /\ status'["server"] = status["server"]
    <2>1. "server" # "client"
      OBVIOUS
    <2>2. /\ fd' \in [Conns -> [Ends -> {"none", "unconnected", "backlog", "open", "closed"}]]
          /\ sock' \in [Ends -> 0..MaxConns]
          /\ status' \in [Ends -> {"closed", "connected", "read shutdown"}]
          /\ status'["client"] = "closed"
          /\ sock'["client"] = sock["client"] \/ sock'["client"] = 0
      BY <1>1, <1>3, Closed
    <2>3. /\ \A c \in Conns, d \in Ends :
               d # "client" \/ c # sock["client"] => fd'[c][d] = fd[c][d]
          /\ \A c \in Conns, d \in Ends : fd'[c][d] = fd[c][d] \/ fd'[c][d] = "closed"
      BY <1>1, <1>3, Closed
    <2>4. sock'["server"] = sock["server"] /\ status'["server"] = status["server"]
      BY <1>1, <1>3, <2>1, Closed
    <2>5. QED
      BY <2>2, <2>3, <2>4
  <1>5. SocketTypeOK'
    BY <1>2, <1>3, <1>4 DEF SocketTypeOK
  <1>6. ServerServes'
    <2>1. Bound("server")'
      BY <1>4 DEF ServerServes, Bound
    <2>2. \A c \in Conns : fd'[c]["server"] = fd[c]["server"]
      BY <1>1, <1>4
    <2>3. server # "accepting" => sock["server"] \in Conns
      BY <1>1 DEF ServerServes, Bound
    <2>4. reading'["server"] = reading["server"]
      BY <1>1, <1>3 DEF SocketTypeOK
    <2>5. QED
      <3>1. server # "accepting" => 
              status["server"] # "closed" /\ fd[sock["server"]]["server"] = "open"
        BY DEF ServerServes, Bound
      <3>2. server' # "accepting" =>
              status'["server"] # "closed" /\ fd'[sock'["server"]]["server"] = "open"
        BY <1>3, <1>4, <2>2, <2>3, <3>1
      <3>3. \A c \in Conns : fd'[c]["server"] = "open" =>
              server' # "accepting" /\ c = sock'["server"]
        <4>1. sock'["server"] = sock["server"]
          BY <1>4
        <4>2. \A c \in Conns : fd[c]["server"] = "open" =>
                server # "accepting" /\ c = sock["server"]
          BY DEF ServerServes, Bound
        <4>3. QED
          BY <1>3, <2>2, <4>1, <4>2
      <3>4. server' # "reading" => reading'["server"] = "no"
        BY <1>3, <2>4 DEF ServerServes, Bound
      <3>5. server' = "responding" => text'["server"] # <<>>
        BY <1>3 DEF ServerServes, Bound
      <3>6. QED
        BY <2>1, <3>2, <3>3, <3>4, <3>5 DEF ServerServes, Bound
  <1>7. Pending' \subseteq Pending
    BY DEF Pending, PosterTypeOK, ReplyRead, ReplyBad, PosterMove
  <1>8. \A c \in Conns : fd'[c]["client"] = "none" <=> fd[c]["client"] = "none"
    <2> SUFFICES ASSUME NEW c \in Conns
                 PROVE  fd'[c]["client"] = "none" <=> fd[c]["client"] = "none"
      OBVIOUS
    <2>1. CASE c = sock["client"]
      <3>1. fd[c]["client"] # "none"
        BY <2>1 DEF ConnsInOrder
      <3>2. QED
        BY <1>1, <1>4, <3>1
    <2>2. CASE c # sock["client"]
      BY <1>1, <1>4, <2>2
    <2>3. QED
      BY <2>1, <2>2
  <1>9. \A c \in Conns : c > Made =>
          fd'[c]["server"] = "none" /\ \A e \in Ends : inbox'[c][e] = <<>>
    <2> SUFFICES ASSUME NEW c \in Conns, c > Made
                 PROVE  fd'[c]["server"] = "none" /\ \A e \in Ends : inbox'[c][e] = <<>>
      OBVIOUS
    <2>1. c # sock["client"] /\ fd[c]["server"] = "none" /\ \A e \in Ends : inbox[c][e] = <<>>
      BY ClientIsMade DEF ConnsInOrder
    <2>2. \A e \in Ends : inbox'[c][e] = <<>>
      BY <1>2, <2>1
    <2>3. fd'[c]["server"] = "none"
      BY <1>1, <1>4, <2>1
    <2>4. QED
      BY <2>2, <2>3
  <1>10. sock'["client"] <= Made
    <2>1. Made \in Nat /\ sock["client"] <= Made
      BY ClientIsMade
    <2>2. sock'["client"] = sock["client"] \/ sock'["client"] = 0
      BY <1>4
    <2>3. QED
      BY <2>1, <2>2
  <1>11. ConnsInOrder'
    BY <1>7, <1>8, <1>9, <1>10, SameConns
  <1>12. QED
    BY <1>5, <1>6, <1>11

\* The client's end is open while send reads from it.
ClientReads ==
  reading["client"] # "no" =>
    status["client"] # "closed" /\ \E t \in Posters : poster[t] = "reading"

\* A read that takes something takes some number of units.
LEMMA ReadsSome ==
  ASSUME SocketTypeOK, NEW e \in Ends, ReadStep(e)
  PROVE  \/ \E n \in Int : Receive(e, n)
         \/ UNCHANGED <<inbox, text>>
  <1>1. CASE ReadHeader(e)
    BY <1>1 DEF ReadHeader
  <1>2. CASE ReadBody(e)
    <2>1. text[e] \in Seq(Units)
      BY DEF SocketTypeOK
    <2>2. Len(text[e]) \in Int /\ \A i \in DOMAIN text[e] : i \in Int
      BY <2>1
    <2>3. HeaderRead(e)
      BY <1>2 DEF ReadBody
    <2>4. (CHOOSE i \in DOMAIN text[e] : text[e][i].part \in Ending) \in DOMAIN text[e]
      BY <2>3 DEF HeaderRead
    <2>5. Length(e) \in Int
      <3>1. PICK i \in Int : i = CHOOSE j \in DOMAIN text[e] : text[e][j].part \in Ending
        BY <2>2, <2>4
      <3>2. Length(e) = (IF text[e][i].part = "length 1" THEN 1 ELSE 0) - (Len(text[e]) - i)
        BY <3>1 DEF Length
      <3>3. PICK b \in {0, 1} : b = IF text[e][i].part = "length 1" THEN 1 ELSE 0
        OBVIOUS
      <3>4. PICK l \in Int : l = Len(text[e])
        BY <2>2
      <3>5. Length(e) = b - (l - i)
        BY <3>2, <3>3, <3>4
      <3>6. QED
        BY <3>5
    <2>6. QED
      BY <1>2, <2>5 DEF ReadBody
  <1>3. CASE ReadEnd(e)
    BY <1>3 DEF ReadEnd
  <1>4. QED
    BY <1>1, <1>2, <1>3 DEF ReadStep

\* Who receives has begun to read: the server, when it is the server's end.
LEMMA ReadKeepsSockets ==
  ASSUME SocketInv, ClientReads, ClientConnects, NEW e \in Ends, ReadStep(e)
  PROVE  SocketInv'
  <1> USE NetHttpPostAssumption DEF SocketInv
  <1>1. /\ UNCHANGED <<postVars, server, sock, fd>>
        /\ \A d \in Ends : status'[d] # "closed" => status[d] # "closed"
        /\ \A d \in Ends : status[d] # "closed" => status'[d] # "closed"
        /\ status' \in [Ends -> {"closed", "connected", "read shutdown"}]
    <2>1. /\ UNCHANGED <<postVars, server, sock, fd>>
          /\ \/ status' = status
             \/ /\ status' = [status EXCEPT ![e] = "read shutdown"]
                /\ reading[e] = "header"
      BY DEF ReadStep, ReadHeader, ReadBody, ReadEnd, socketVars
    <2>2. CASE status' = status
      BY <2>1, <2>2 DEF SocketTypeOK
    <2>3. CASE ReadEnd(e)
      <3>1. AtEnd(e) /\ status' = [status EXCEPT ![e] = "read shutdown"]
        BY <2>3 DEF ReadEnd
      <3>2. status[e] # "closed"
        <4>1. reading[e] # "no"
          BY <2>3 DEF ReadEnd
        <4>2. QED
          BY <4>1 DEF ClientReads, ServerServes, Ends
      <3>3. QED
        BY <2>1, <3>1, <3>2 DEF SocketTypeOK
    <2>4. QED
      BY <2>1, <2>2, <2>3 DEF ReadStep, ReadHeader, ReadBody, ReadEnd, socketVars
  <1>2. reading[e] # "no"
    BY DEF ReadStep, ReadHeader, ReadBody, ReadEnd
  <1>3. reading' \in [Ends -> {"no", "header", "body", "bad"}] /\
        \A d \in Ends : d # e => reading'[d] = reading[d]
    BY DEF ReadStep, ReadHeader, ReadBody, ReadEnd, SocketTypeOK
  <1>4. \/ \E n \in Int : Receive(e, n)
        \/ UNCHANGED <<inbox, text>>
    BY ReadsSome
  <1>5. /\ inbox' \in [Conns -> [Ends -> Seq(Units)]]
        /\ text' \in [Ends -> Seq(Units)]
        /\ \A c \in Conns, d \in Ends : inbox[c][d] = <<>> => inbox'[c][d] = <<>>
        /\ \A d \in Ends : d # e => text'[d] = text[d]
    <2>1. CASE UNCHANGED <<inbox, text>>
      BY <2>1 DEF SocketTypeOK
    <2>2. CASE \E n \in Int : Receive(e, n)
      <3>1. PICK n \in Int : Receive(e, n)
        BY <2>2
      <3> Bound(e)
        BY <1>2 DEF ClientReads, ClientConnects, ServerServes, Bound, InUse, Ends
      <3>2. /\ inbox' \in [Conns -> [Ends -> Seq(Units)]]
            /\ text' \in [Ends -> Seq(Units)]
            /\ \A d \in Ends : d # e => text'[d] = text[d]
        BY <3>1, Received
      <3>3. /\ inbox[sock[e]][e] # <<>>
            /\ \A c \in Conns, d \in Ends :
                 c # sock[e] \/ d # e => inbox'[c][d] = inbox[c][d]
        BY <3>1, Received
      <3>4. QED
        BY <3>2, <3>3
    <2>3. QED
      BY <1>4, <2>1, <2>2
  <1>6. SocketTypeOK'
    BY <1>1, <1>3, <1>5 DEF SocketTypeOK
  <1>7. ConnsInOrder'
    <2>1. Pending' \subseteq Pending
      BY <1>1 DEF Pending, postVars
    <2>2. \A c \in Conns : fd'[c]["client"] = "none" <=> fd[c]["client"] = "none"
      BY <1>1
    <2>3. \A c \in Conns : c > Made =>
            fd'[c]["server"] = "none" /\ \A d \in Ends : inbox'[c][d] = <<>>
      <3>1. \A c \in Conns : c > Made =>
              fd[c]["server"] = "none" /\ \A d \in Ends : inbox[c][d] = <<>>
        BY DEF ConnsInOrder
      <3>2. QED
        BY <1>1, <1>5, <3>1
    <2>4. sock'["client"] <= Made
      BY <1>1, ClientIsMade
    <2>5. QED
      BY <2>1, <2>2, <2>3, <2>4, SameConns
  <1>8. ServerServes'
    <2>1. e = "server" => server = "reading"
      BY <1>2 DEF ServerServes, Bound
    <2>2. e # "server" => reading'["server"] = reading["server"] /\ text'["server"] = text["server"]
      BY <1>3, <1>5 DEF Ends
    <2>3. server' # "reading" => reading'["server"] = "no"
      BY <1>1, <2>1, <2>2 DEF ServerServes, Bound
    <2>4. server' = "responding" => text'["server"] # <<>>
      BY <1>1, <2>1, <2>2 DEF ServerServes, Bound
    <2>5. Bound("server")'
      BY <1>1 DEF ServerServes, Bound, Ends
    <2>6. server' # "accepting" =>
            status'["server"] # "closed" /\ fd'[sock'["server"]]["server"] = "open"
      BY <1>1 DEF ServerServes, Bound, Ends
    <2>7. \A c \in Conns : fd'[c]["server"] = "open" =>
            server' # "accepting" /\ c = sock'["server"]
      BY <1>1 DEF ServerServes, Bound
    <2>8. QED
      BY <2>3, <2>4, <2>5, <2>6, <2>7 DEF ServerServes, Bound
  <1>9. QED
    BY <1>6, <1>7, <1>8

\* What the server does to its own end, with the rest of the sockets kept.
LEMMA ServerEnd ==
  ASSUME SocketInv, SocketTypeOK', ServerServes', UNCHANGED postVars,
         sock'["client"] = sock["client"],
         \A c \in Conns : fd'[c]["client"] = fd[c]["client"],
         \A c \in Conns : c > Made =>
           fd'[c]["server"] = fd[c]["server"] /\ \A e \in Ends : inbox'[c][e] = inbox[c][e]
  PROVE  SocketInv'
  <1>1. Pending' \subseteq Pending
    BY DEF Pending, postVars
  <1>2. \A c \in Conns : c > Made =>
          fd'[c]["server"] = "none" /\ \A e \in Ends : inbox'[c][e] = <<>>
    BY DEF SocketInv, ConnsInOrder
  <1>3. sock'["client"] <= Made
    BY ClientIsMade
  <1>4. ConnsInOrder'
    BY <1>1, <1>2, <1>3, SameConns DEF SocketInv
  <1>5. QED
    BY <1>4 DEF SocketInv

LEMMA AcceptKeepsSockets ==
  ASSUME SocketInv, Accept
  PROVE  SocketInv'
  <1> USE NetHttpPostAssumption DEF SocketInv
  <1>1. "client" \in Ends /\ "server" \in Ends
    BY DEF Ends
  <1>2. PICK c \in Conns : /\ fd[c]["server"] = "backlog"
                           /\ fd' = [fd EXCEPT ![c]["server"] = "open"]
                           /\ sock' = [sock EXCEPT !["server"] = c]
    BY DEF Accept
  <1>3. /\ server = "accepting" /\ server' = "reading"
        /\ status' = [status EXCEPT !["server"] = "connected"]
        /\ reading' = [reading EXCEPT !["server"] = "header"]
        /\ text' = [text EXCEPT !["server"] = <<>>]
        /\ UNCHANGED <<postVars, inbox>>
    BY DEF Accept
  <1>4. \A d \in Conns, e \in Ends :
          fd'[d][e] = IF d = c /\ e = "server" THEN "open" ELSE fd[d][e]
    BY <1>1, <1>2 DEF SocketTypeOK
  <1>5. /\ sock'["server"] = c /\ sock'["client"] = sock["client"]
        /\ status'["server"] = "connected" /\ status'["client"] = status["client"]
    BY <1>1, <1>2, <1>3 DEF SocketTypeOK
  <1>6. SocketTypeOK'
    <2>1. sock' \in [Ends -> 0..MaxConns]
      <3>1. c \in 0..MaxConns
        BY DEF Conns
      <3>2. QED
        BY <1>2, <3>1 DEF SocketTypeOK
    <2>2. fd' \in [Conns -> [Ends -> {"none", "unconnected", "backlog", "open", "closed"}]]
      BY <1>1, <1>2 DEF SocketTypeOK
    <2>3. text' \in [Ends -> Seq(Units)]
      <3>1. <<>> \in Seq(Units)
        OBVIOUS
      <3>2. QED
        BY <1>3, <3>1 DEF SocketTypeOK
    <2>4. /\ status' \in [Ends -> {"closed", "connected", "read shutdown"}]
          /\ reading' \in [Ends -> {"no", "header", "body", "bad"}]
          /\ server' \in {"accepting", "reading", "responding", "closing"}
          /\ inbox' \in [Conns -> [Ends -> Seq(Units)]]
      BY <1>3 DEF SocketTypeOK
    <2>5. QED
      BY <2>1, <2>2, <2>3, <2>4 DEF SocketTypeOK
  <1>7. \A d \in Conns : fd[d]["server"] # "open"
    BY <1>3 DEF ServerServes, Bound
  <1>8. ServerServes'
    <2>1. Bound("server")'
      BY <1>5 DEF ServerServes, Bound, Ends
    <2>2. fd'[sock'["server"]]["server"] = "open"
      BY <1>1, <1>4, <1>5
    <2>3. \A d \in Conns : fd'[d]["server"] = "open" => d = sock'["server"]
      BY <1>1, <1>4, <1>5, <1>7
    <2>4. QED
      BY <1>3, <1>5, <2>1, <2>2, <2>3 DEF ServerServes, Bound
  <1>9. \A d \in Conns : d > Made => d # c
    BY <1>2 DEF ConnsInOrder
  <1>10. QED
    BY <1>1, <1>3, <1>4, <1>5, <1>6, <1>8, <1>9, ServerEnd

LEMMA ServerWrites ==
  ASSUME SocketInv, RequestRead \/ RequestBad \/ Respond
  PROVE  SocketInv'
  <1> USE NetHttpPostAssumption DEF SocketInv
  <1>1. "client" \in Ends /\ "server" \in Ends
    BY DEF Ends
  <1>2. /\ UNCHANGED <<postVars, socketVars, text>>
        /\ server # "accepting" /\ server' \in {"responding", "closing"}
        /\ reading' = [reading EXCEPT !["server"] = "no"] \/ (reading' = reading /\ Respond)
        /\ server' = "responding" => HeaderRead("server")
    BY DEF RequestRead, RequestBad, Respond, ReadComplete, readVars
  <1>3. /\ inbox' \in [Conns -> [Ends -> Seq(Units)]]
        /\ \A c \in Conns, d \in Ends : c # sock["server"] => inbox'[c][d] = inbox[c][d]
    <2>1. CASE RequestRead
      BY <2>1 DEF RequestRead, SocketTypeOK
    <2>2. CASE RequestBad
      <3>1. PICK ok \in Sends("server") : Send("server", ok, Header("error", "length 0"))
        BY <2>2 DEF RequestBad, SendError
      <3>2. Header("error", "length 0") \in Seq(Units)
        BY UnitsOf
      <3>3. Bound("server")
        BY DEF ServerServes
      <3>4. QED
        BY <1>1, <3>1, <3>2, <3>3, Written
    <2>3. CASE Respond
      <3>1. text["server"] # <<>> /\ text["server"] \in Seq(Units)
        BY <1>1, <2>3 DEF Respond, ServerServes, SocketTypeOK
      <3>2. PICK o \in Posters \cup {"error"} : o = text["server"][1].of
        BY <3>1, OfUnits
      <3>3. PICK ok \in Sends("server") :
              Send("server", ok, Header(o, "length 1") \o <<Unit("body", o)>>)
        BY <2>3, <3>2 DEF Respond
      <3>4. Header(o, "length 1") \o <<Unit("body", o)>> \in Seq(Units)
        BY UnitsOf
      <3>5. Bound("server")
        BY DEF ServerServes
      <3>6. QED
        BY <1>1, <3>3, <3>4, <3>5, Written
    <2>4. QED
      BY <2>1, <2>2, <2>3
  <1>4. reading' \in [Ends -> {"no", "header", "body", "bad"}] /\ reading'["server"] = "no"
    <2>1. Respond => reading["server"] = "no"
      BY DEF Respond, ServerServes
    <2>2. CASE reading' = [reading EXCEPT !["server"] = "no"]
      BY <1>1, <2>2 DEF SocketTypeOK
    <2>3. QED
      BY <1>2, <2>1, <2>2 DEF SocketTypeOK
  <1>5. SocketTypeOK'
    BY <1>2, <1>3, <1>4 DEF SocketTypeOK, socketVars
  <1>6. server' = "responding" => text'["server"] # <<>>
    <2>1. text["server"] \in Seq(Units)
      BY <1>1 DEF SocketTypeOK
    <2>2. HeaderRead("server") => text["server"] # <<>>
      BY <2>1 DEF HeaderRead
    <2>3. QED
      BY <1>2, <2>2
  <1>7. ServerServes'
    BY <1>2, <1>4, <1>6 DEF ServerServes, Bound, socketVars
  <1>8. \A c \in Conns : c > Made => c # sock["server"]
    <2>1. sock["server"] <= Made /\ sock["server"] \in Conns
      BY <1>2, ServedIsMade
    <2>2. QED
      BY <2>1, ClientIsMade
  <1>9. QED
    BY <1>2, <1>3, <1>5, <1>7, <1>8, ServerEnd DEF socketVars

LEMMA CloseKeepsSockets ==
  ASSUME SocketInv, ServerClose
  PROVE  SocketInv'
  <1> USE NetHttpPostAssumption DEF SocketInv
  <1>1. "client" \in Ends /\ "server" \in Ends /\ "client" # "server" /\ Bound("server")
    BY DEF Ends, ServerServes
  <1>2. /\ server = "closing" /\ server' = "accepting" /\ CloseSocket("server")
        /\ UNCHANGED <<postVars, readVars, inbox>>
    BY DEF ServerClose
  <1>3. /\ fd' \in [Conns -> [Ends -> {"none", "unconnected", "backlog", "open", "closed"}]]
        /\ sock' \in [Ends -> 0..MaxConns]
        /\ status' \in [Ends -> {"closed", "connected", "read shutdown"}]
        /\ status'["server"] = "closed"
    BY <1>1, <1>2, Closed
  <1>4. /\ \A c \in Conns, d \in Ends :
             d # "server" \/ c # sock["server"] => fd'[c][d] = fd[c][d]
        /\ status["server"] # "closed" => fd'[sock["server"]]["server"] = "closed"
    BY <1>1, <1>2, Closed
  <1>5. sock'["client"] = sock["client"] /\ status'["client"] = status["client"]
    BY <1>1, <1>2, Closed
  <1>6. status["server"] # "closed"
    BY <1>2 DEF ServerServes, Bound
  <1>7. SocketTypeOK'
    BY <1>2, <1>3 DEF SocketTypeOK, readVars
  <1>8. ServerServes'
    <2>1. \A c \in Conns : fd'[c]["server"] # "open"
      <3>1. \A c \in Conns : fd[c]["server"] = "open" => c = sock["server"]
        BY DEF ServerServes, Bound
      <3>2. QED
        BY <1>1, <1>4, <1>6, <3>1
    <2>2. Bound("server")'
      BY <1>3 DEF Bound
    <2>3. reading'["server"] = "no"
      BY <1>2 DEF ServerServes, Bound, readVars
    <2>4. QED
      BY <1>2, <2>1, <2>2, <2>3 DEF ServerServes, Bound
  <1>9. \A c \in Conns : c > Made => c # sock["server"]
    <2>1. sock["server"] <= Made /\ sock["server"] \in Conns
      BY <1>2, ServedIsMade
    <2>2. QED
      BY <2>1, ClientIsMade
  <1>10. QED
    BY <1>1, <1>2, <1>4, <1>5, <1>7, <1>8, <1>9, ServerEnd

LEMMA ClientReadsKept ==
  ASSUME SocketInv, AbortInv, ClientReads, [NetNext]_netVars
  PROVE  ClientReads'
  <1>1. "client" \in Ends /\ "server" \in Ends /\ "client" # "server"
    BY DEF Ends
  <1>2. /\ reading \in [Ends -> {"no", "header", "body", "bad"}]
        /\ status \in [Ends -> {"closed", "connected", "read shutdown"}]
        /\ poster \in [Posters -> PosterPlaces]
    BY DEF SocketInv, SocketTypeOK, AbortInv, PosterTypeOK
  <1>3. ASSUME reading' = reading, status'["client"] = status["client"],
               \A u \in Posters : poster[u] = "reading" => poster'[u] = "reading"
        PROVE  ClientReads'
    BY <1>3 DEF ClientReads
  <1>4. ASSUME NEW t \in Posters, poster[t] \in Holding \ {"reading"}
        PROVE  reading["client"] = "no"
    BY <1>4, NetHttpPostAssumption DEF ClientReads, AbortInv, OwnerHolds, Holding
  <1>5. ASSUME NEW t \in Posters,
               \/ PostBegin(t) \/ PostAborted(t) \/ PostLock(t) \/ DoSend(t) \/ HostUnknown(t)
               \/ CheckAbort(t) \/ PostReturn(t) \/ AbortSend(t) \/ AbortReturn(t)
               \/ SendHeaders(t)
        PROVE  ClientReads'
    <2>1. UNCHANGED <<reading, status>>
      BY <1>5 DEF PostBegin, PostAborted, PostLock, DoSend, HostUnknown, CheckAbort,
                  PostReturn, AbortSend, AbortReturn, SendHeaders, readVars, socketVars
    <2>2. \A u \in Posters : poster[u] = "reading" => poster'[u] = "reading"
      BY <1>2, <1>5 DEF PostBegin, PostAborted, PostLock, DoSend, HostUnknown, CheckAbort,
                  PostReturn, AbortSend, AbortReturn, SendHeaders, PosterMove
    <2>3. QED
      BY <1>3, <2>1, <2>2
  <1>6. ASSUME NEW t \in Posters, Connect(t) \/ ConnectRefused(t) \/ SocketFails(t)
        PROVE  ClientReads'
    <2>1. poster[t] = "connecting" /\ reading' = reading
      BY <1>6 DEF Connect, ConnectRefused, SocketFails, PosterMove, readVars
    <2>2. QED
      BY <1>4, <2>1 DEF Holding, ClientReads
  <1>7. ASSUME NEW t \in Posters, SendBody(t)
        PROVE  ClientReads'
    <2>1. PICK ok \in Sends("client") :
            /\ PosterMove(t, "body", IF ok THEN "reading" ELSE "failed")
            /\ reading' = [reading EXCEPT !["client"] = IF ok THEN "header" ELSE @]
      BY <1>7 DEF SendBody
    <2>2. status' = status
      BY <1>7 DEF SendBody, socketVars
    <2>3. reading["client"] = "no"
      BY <1>4, <2>1 DEF PosterMove, Holding
    <2>4. CASE ok
      <3>1. poster'[t] = "reading"
        BY <1>2, <2>1, <2>4 DEF PosterMove
      <3>2. status["client"] = "connected"
        BY <2>4 DEF Sends
      <3>3. QED
        BY <2>2, <3>1, <3>2 DEF ClientReads
    <2>5. CASE ~ok
      BY <1>1, <1>2, <2>1, <2>3, <2>5 DEF ClientReads
    <2>6. QED
      BY <2>4, <2>5 DEF Sends
  <1>8. ASSUME NEW t \in Posters, ReplyRead(t) \/ ReplyBad(t)
        PROVE  ClientReads'
    <2>1. reading'["client"] = "no"
      BY <1>1, <1>2, <1>8 DEF ReplyRead, ReplyBad, ReadComplete
    <2>2. QED
      BY <2>1 DEF ClientReads
  <1>9. ASSUME NEW e \in Ends, ReadStep(e)
        PROVE  ClientReads'
    <2>1. poster' = poster
      BY <1>9 DEF ReadStep, ReadHeader, ReadBody, ReadEnd, postVars
    <2>2. reading'["client"] # "no" => reading["client"] # "no"
      BY <1>1, <1>2, <1>9 DEF ReadStep, ReadHeader, ReadBody, ReadEnd
    <2>3. status' = status \/ status' = [status EXCEPT ![e] = "read shutdown"]
      BY <1>9 DEF ReadStep, ReadHeader, ReadBody, ReadEnd, socketVars
    <2>4. status["client"] # "closed" => status'["client"] # "closed"
      BY <1>1, <1>2, <2>3
    <2>5. QED
      BY <2>1, <2>2, <2>4 DEF ClientReads
  <1>10. ASSUME ServerStep
        PROVE  ClientReads'
    <2>1. poster' = poster
      BY <1>10 DEF ServerStep, Accept, RequestRead, RequestBad, Respond, ServerClose, postVars
    <2>2. reading'["client"] = reading["client"]
      BY <1>1, <1>2, <1>10 DEF ServerStep, Accept, RequestRead, RequestBad, Respond,
                              ServerClose, ReadComplete, readVars
    <2>3. status'["client"] = status["client"]
      BY <1>1, <1>2, <1>10 DEF ServerStep, Accept, RequestRead, RequestBad, Respond,
                              ServerClose, CloseSocket, socketVars
    <2>4. QED
      BY <2>1, <2>2, <2>3 DEF ClientReads
  <1>11. ASSUME UNCHANGED netVars
        PROVE  ClientReads'
    BY <1>11 DEF netVars, postVars, socketVars, readVars, ClientReads
  <1>12. QED
    BY <1>5, <1>6, <1>7, <1>8, <1>9, <1>10, <1>11 DEF NetNext, PostStep

LEMMA SocketInvKept ==
  ASSUME SocketInv, ClientReads, ClientConnects, PosterTypeOK, [NetNext]_netVars
  PROVE  SocketInv'
  <1>1. ASSUME NEW t \in Posters, PostBegin(t)
        PROVE  SocketInv'
    BY <1>1, BeginKeepsSockets
  <1>2. ASSUME NEW t \in Posters,
               \/ PostAborted(t) \/ PostLock(t) \/ DoSend(t) \/ HostUnknown(t)
               \/ CheckAbort(t) \/ PostReturn(t) \/ AbortSend(t) \/ AbortReturn(t)
        PROVE  SocketInv'
    <2>1. UNCHANGED <<readVars, socketVars, server, inbox>>
      BY <1>2 DEF PostAborted, PostLock, DoSend, HostUnknown, CheckAbort, PostReturn,
                  AbortSend, AbortReturn
    <2>2. Pending' \subseteq Pending
      BY <1>2 DEF Pending, PosterTypeOK, PosterMove, PostAborted, PostLock, DoSend,
                  HostUnknown, CheckAbort, PostReturn, AbortSend, AbortReturn
    <2>3. QED
      BY <2>1, <2>2, SocketsAlone
  <1>3. ASSUME NEW t \in Posters, Connect(t) \/ ConnectRefused(t)
        PROVE  SocketInv'
    BY <1>3, ConnectKeepsSockets
  <1>10. ASSUME NEW t \in Posters, SocketFails(t)
         PROVE  SocketInv'
    BY <1>10, NoSocketKeepsSockets
  <1>4. ASSUME NEW t \in Posters, SendHeaders(t) \/ SendBody(t)
        PROVE  SocketInv'
    BY <1>4, SendKeepsSockets
  <1>5. ASSUME NEW t \in Posters, ReplyRead(t) \/ ReplyBad(t)
        PROVE  SocketInv'
    BY <1>5, ReplyKeepsSockets
  <1>6. ASSUME NEW e \in Ends, ReadStep(e)
        PROVE  SocketInv'
    BY <1>6, ReadKeepsSockets
  <1>7. ASSUME ServerStep
        PROVE  SocketInv'
    BY <1>7, AcceptKeepsSockets, ServerWrites, CloseKeepsSockets DEF ServerStep
  <1>8. ASSUME UNCHANGED netVars
        PROVE  SocketInv'
    <2>1. Pending' \subseteq Pending
      BY <1>8 DEF Pending, netVars, postVars
    <2>2. QED
      BY <1>8, <2>1, SocketsAlone DEF netVars
  <1>9. QED
    BY <1>1, <1>2, <1>3, <1>4, <1>5, <1>6, <1>7, <1>8, <1>10 DEF NetNext, PostStep

-----------------------------------------------------------------------------
(* The exchange *)

Answer(t) == Header(t, "length 1") \o <<Unit("body", t)>>

Failure == Header("error", "length 0")

\* What a thread has sent on the connection it made, and what came back on it.
SentBy(t) ==
  IF poster[t] = "body" THEN Header(t, "length 1")
  ELSE IF poster[t] = "reading" THEN Answer(t) ELSE <<>>

Returned(t) ==
  IF poster[t] = "reading" THEN text["client"] \o inbox[sock["client"]]["client"]
  ELSE inbox[sock["client"]]["client"]

\* Between Connect and the close the connection carries the request of the thread
\* that made it, and at most one message back, which the server sends when it has
\* read the request or given up.
Exchanged(t, c, put, got) ==
  /\ got \in {<<>>, Answer(t), Failure}
  /\ fd[c]["server"] = "backlog" => inbox[c]["server"] = put /\ got = <<>>
  /\ sock["server"] = c /\ server = "reading" =>
       text["server"] \o inbox[c]["server"] = put /\ got = <<>>
  /\ sock["server"] = c /\ server = "responding" =>
       text["server"][1].of = t /\ got = <<>>

Exchange(t) ==
  sock["client"] \in Conns /\ Exchanged(t, sock["client"], SentBy(t), Returned(t))

Exchanges == \A t \in Posters : poster[t] \in InUse => Exchange(t)

LEMMA AnswerIs ==
  ASSUME NEW o \in Posters \cup {"error"}
  PROVE  /\ Answer(o) \in Seq(Units) /\ Len(Answer(o)) = 3
         /\ Answer(o)[1] = Unit("start", o) /\ Answer(o)[2] = Unit("length 1", o)
         /\ Answer(o)[3] = Unit("body", o)
         /\ Header(o, "length 1") \in Seq(Units) /\ Len(Header(o, "length 1")) = 2
         /\ Header(o, "length 1")[1] = Unit("start", o)
         /\ Header(o, "length 0") \in Seq(Units) /\ Len(Header(o, "length 0")) = 2
         /\ Header(o, "length 0")[1] = Unit("start", o)
         /\ Header(o, "length 0")[2] = Unit("length 0", o)
  <1>1. \A p \in {"start", "length 0", "length 1", "body"} : Unit(p, o) \in Units
    BY DEF Units, Unit
  <1>2. /\ Answer(o) \in Seq(Units) /\ Len(Answer(o)) = 3
        /\ Answer(o)[1] = Unit("start", o) /\ Answer(o)[2] = Unit("length 1", o)
        /\ Answer(o)[3] = Unit("body", o)
    <2>1. PICK x \in Units, y \in Units, z \in Units :
            x = Unit("start", o) /\ y = Unit("length 1", o) /\ z = Unit("body", o)
      BY <1>1
    <2>2. Answer(o) = <<x, y>> \o <<z>>
      BY <2>1 DEF Answer, Header
    <2>3. /\ Answer(o) \in Seq(Units) /\ Len(Answer(o)) = 3
          /\ Answer(o)[1] = x /\ Answer(o)[2] = y /\ Answer(o)[3] = z
      BY <2>2, ThreeItems
    <2>4. QED
      BY <2>1, <2>3
  <1>3. /\ Header(o, "length 1") \in Seq(Units) /\ Len(Header(o, "length 1")) = 2
        /\ Header(o, "length 1")[1] = Unit("start", o)
        /\ Header(o, "length 0") \in Seq(Units) /\ Len(Header(o, "length 0")) = 2
        /\ Header(o, "length 0")[1] = Unit("start", o)
        /\ Header(o, "length 0")[2] = Unit("length 0", o)
    BY <1>1, TwoItems DEF Header
  <1>4. QED
    BY <1>2, <1>3

\* What readRequest takes for a whole message, when the messages are these.
LEMMA WholeMessage ==
  ASSUME NEW t \in Posters, text["client"] \in Seq(Units), NEW b \in Seq(Units),
         text["client"] \o b \in {<<>>, Answer(t), Failure},
         HeaderRead("client"), Length("client") <= 0
  PROVE  text["client"] = Answer(t) \/ text["client"] = Failure
  <1>1. PICK a \in Seq(Units) : a = text["client"]
    OBVIOUS
  <1> DEFINE s == a \o b
  <1>2. /\ Len(a) \in Nat /\ Len(s) \in Nat /\ Len(a) <= Len(s)
        /\ \A i \in 1..Len(a) : a[i] = s[i]
    BY PrefixItems
  <1>3. s \in {<<>>, Answer(t), Failure}
    BY <1>1
  <1>4. \E i \in 1..Len(a) : a[i].part \in Ending
    <2>1. DOMAIN a = 1..Len(a)
      OBVIOUS
    <2>2. QED
      BY <1>1, <2>1 DEF HeaderRead
  <1> HIDE DEF s
  <1>5. CASE s = <<>>
    BY <1>2, <1>4, <1>5
  <1>6. CASE s = Failure
    <2>1. /\ Failure \in Seq(Units) /\ Len(Failure) = 2 /\ Failure[1].part = "start"
      <3>1. /\ Failure \in Seq(Units) /\ Len(Failure) = 2
            /\ Failure[1] = Unit("start", "error")
        BY AnswerIs DEF Failure
      <3>2. QED
        BY <3>1 DEF Unit
    <2>2. Len(a) = 2
      <3>1. PICK i \in 1..Len(a) : a[i].part \in Ending
        BY <1>4
      <3>2. a[i] = Failure[i] /\ i \in 1..2
        BY <1>2, <1>6, <2>1, <3>1
      <3>3. i # 1
        BY <2>1, <3>1, <3>2 DEF Ending
      <3>4. QED
        BY <1>2, <1>6, <2>1, <3>2, <3>3
    <2>3. a = Failure
      BY <1>2, <1>6, <2>1, <2>2, SameItems
    <2>4. QED
      BY <1>1, <2>3
  <1>7. CASE s = Answer(t)
    <2>1. /\ Answer(t) \in Seq(Units) /\ Len(Answer(t)) = 3
          /\ Answer(t)[1].part = "start" /\ Answer(t)[2].part = "length 1"
          /\ Answer(t)[3].part = "body"
      <3>1. /\ Answer(t) \in Seq(Units) /\ Len(Answer(t)) = 3
            /\ Answer(t)[1] = Unit("start", t) /\ Answer(t)[2] = Unit("length 1", t)
            /\ Answer(t)[3] = Unit("body", t)
        BY AnswerIs
      <3>2. /\ Unit("start", t).part = "start" /\ Unit("body", t).part = "body"
            /\ Unit("length 1", t).part = "length 1"
        BY DEF Unit
      <3>3. QED
        BY <3>1, <3>2
    <2>2. \A i \in 1..Len(a) : a[i].part \in Ending => i = 2
      <3> SUFFICES ASSUME NEW i \in 1..Len(a), a[i].part \in Ending PROVE i = 2
        OBVIOUS
      <3>1. i \in 1..3 /\ a[i] = Answer(t)[i]
        <4>1. Len(a) <= 3 /\ Len(a) \in Nat
          BY <1>2, <1>7, <2>1
        <4>2. QED
          BY <1>2, <1>7, <4>1
      <3>2. i # 1 /\ i # 3
        BY <2>1, <3>1 DEF Ending
      <3>3. QED
        BY <3>1, <3>2
    <2>3. 2 \in 1..Len(a) /\ a[2].part = "length 1"
      <3>1. 2 \in 1..Len(a)
        BY <1>4, <2>2
      <3>2. QED
        BY <1>2, <1>7, <2>1, <3>1
    <2>4. DOMAIN a = 1..Len(a)
      OBVIOUS
    <2>5. (CHOOSE i \in DOMAIN a : a[i].part \in Ending) = 2
      BY <2>2, <2>3, <2>4 DEF Ending
    <2>6. Length("client") = 1 - (Len(a) - 2)
      BY <1>1, <2>3, <2>5 DEF Length
    <2>7. Len(a) = 3
      <3>1. Len(a) \in Nat /\ Len(a) <= 3
        BY <1>2, <1>7, <2>1
      <3>2. PICK l \in Nat : l = Len(a)
        BY <3>1
      <3>3. 1 - (l - 2) <= 0
        BY <2>6, <3>2
      <3>4. l = 3
        BY <3>1, <3>2, <3>3
      <3>5. QED
        BY <3>2, <3>4
    <2>8. a = Answer(t)
      BY <1>2, <1>7, <2>1, <2>7, SameItems
    <2>9. QED
      BY <1>1, <2>8
  <1>8. QED
    BY <1>3, <1>5, <1>6, <1>7

PostInv == AbortInv /\ SocketInv /\ ClientReads /\ Exchanges /\ ReplyIsWhole

\* At most one thread is between the lock and the unlock.
LEMMA OneHolds ==
  ASSUME AbortInv, NEW t \in Posters, poster[t] \in Holding,
         NEW u \in Posters, poster[u] \in Holding
  PROVE  u = t
  BY DEF AbortInv, OwnerHolds

\* With nobody on a connection there is nothing to show.
LEMMA NobodySends ==
  ASSUME \A u \in Posters : poster'[u] \notin InUse \cup {"succeeded"}
  PROVE  Exchanges' /\ ReplyIsWhole'
  BY DEF Exchanges, ReplyIsWhole

\* The steps that leave the sockets alone.
LEMMA PostsAlone ==
  ASSUME PostInv, UNCHANGED <<readVars, socketVars, server, inbox>>,
         \A u \in Posters : poster'[u] \in InUse \cup {"succeeded"} =>
           \/ poster'[u] = poster[u]
           \/ poster'[u] = "headers" /\ poster[u] = "connected"
  PROVE  Exchanges' /\ ReplyIsWhole'
  <1> USE DEF PostInv, readVars, socketVars
  <1>1. ReplyIsWhole'
    BY DEF ReplyIsWhole, InUse
  <1>2. ASSUME NEW u \in Posters, poster'[u] \in InUse
        PROVE  Exchange(u)'
    <2>1. poster[u] \in InUse
      BY <1>2 DEF InUse
    <2>2. SentBy(u)' = SentBy(u) /\ Returned(u)' = Returned(u)
      BY <1>2 DEF SentBy, Returned
    <2>3. Exchange(u)
      BY <2>1 DEF Exchanges
    <2>4. QED
      BY <2>2, <2>3 DEF Exchange, Exchanged
  <1>3. QED
    BY <1>1, <1>2 DEF Exchanges

\* A step of the thread that holds the mutex.
LEMMA OnlyExchange ==
  ASSUME PostInv, NEW t \in Posters, poster[t] \in Holding,
         \A u \in Posters \ {t} : poster'[u] = poster[u],
         poster'[t] # "succeeded",
         Exchange(t)'
  PROVE  Exchanges' /\ ReplyIsWhole'
  <1>1. \A u \in Posters \ {t} : poster'[u] \notin Holding
    BY OneHolds DEF PostInv
  <1>2. QED
    BY <1>1 DEF Exchanges, ReplyIsWhole, InUse, Holding

LEMMA ConnectExchanges ==
  ASSUME PostInv, NEW t \in Posters, Connect(t)
  PROVE  Exchanges' /\ ReplyIsWhole'
  <1> USE NetHttpPostAssumption
  <1>1. "client" \in Ends /\ "server" \in Ends /\ "client" # "server"
    BY DEF Ends
  <1>2. PICK c : c = Made + 1
    OBVIOUS
  <1>3. c \in Conns /\ Made \in Nat /\ Made < c
    <2>1. c \in Conns
      BY <1>2, ConnectKeepsSockets DEF PostInv, AbortInv
    <2>2. Made \in Nat
      BY ClientIsMade DEF PostInv
    <2>3. QED
      BY <1>2, <2>1, <2>2
  <1>4. /\ sock' = [sock EXCEPT !["client"] = c]
        /\ UNCHANGED <<server, inbox>>
        /\ poster[t] = "connecting" /\ poster' = [poster EXCEPT ![t] = "connected"]
    BY <1>2 DEF Connect, PosterMove
  <1>5. sock'["client"] = c /\ sock'["server"] = sock["server"]
    BY <1>1, <1>3, <1>4 DEF PostInv, SocketInv, SocketTypeOK
  <1>6. poster'[t] = "connected" /\ \A u \in Posters \ {t} : poster'[u] = poster[u]
    BY <1>4 DEF PostInv, AbortInv, PosterTypeOK
  <1>7. \A e \in Ends : inbox[c][e] = <<>>
    BY <1>3 DEF PostInv, SocketInv, ConnsInOrder
  <1>8. server # "accepting" => sock["server"] # c
    <2>1. server # "accepting" => sock["server"] \in Conns /\ sock["server"] <= Made
      BY ServedIsMade DEF PostInv
    <2>2. QED
      BY <1>3, <2>1 DEF Conns
  <1>9. SentBy(t)' = <<>> /\ Returned(t)' = <<>>
    BY <1>1, <1>4, <1>5, <1>6, <1>7 DEF SentBy, Returned
  <1>10. Exchange(t)'
    BY <1>1, <1>3, <1>4, <1>5, <1>7, <1>8, <1>9 DEF Exchange, Exchanged
  <1>11. QED
    BY <1>4, <1>6, <1>10, OnlyExchange DEF Holding

\* What the client's end puts on the connection follows what it has put there.
LEMMA PutBehind ==
  ASSUME PostInv, NEW t \in Posters, poster[t] \in Holding,
         NEW c \in Conns, c = sock["client"], NEW put \in Seq(Units), NEW got,
         NEW units \in Seq(Units), Exchanged(t, c, put, got),
         TRUE \in Sends("client"), Send("client", TRUE, units),
         UNCHANGED <<socketVars, server>>, text'["server"] = text["server"]
  PROVE  /\ Exchanged(t, c, put \o units, got)'
         /\ inbox'[c]["client"] = inbox[c]["client"]
  <1>1. "client" \in Ends /\ "server" \in Ends /\ "client" # "server"
        /\ Peer("client") = "server"
    BY DEF Ends, Peer
  <1>2. /\ inbox'[c]["server"] = inbox[c]["server"] \o units
        /\ inbox'[c]["client"] = inbox[c]["client"]
    <2>1. SocketTypeOK /\ Bound("client")
      BY DEF PostInv, SocketInv, Bound
    <2>2. /\ \A f \in Conns, d \in Ends :
               f # sock["client"] \/ d # Peer("client") => inbox'[f][d] = inbox[f][d]
          /\ inbox'[sock["client"]][Peer("client")]
               = inbox[sock["client"]][Peer("client")] \o units
      BY <1>1, <2>1, Written
    <2>3. QED
      BY <1>1, <2>2
  <1>3. PICK q \in Seq(Units), x \in Seq(Units) : q = inbox[c]["server"] /\ x = text["server"]
    BY <1>1 DEF PostInv, SocketInv, SocketTypeOK
  <1>4. x \o (q \o units) = (x \o q) \o units
    BY Associative
  <1>5. QED
    BY <1>2, <1>3, <1>4 DEF Exchanged, socketVars

LEMMA SendExchanges ==
  ASSUME PostInv, NEW t \in Posters, SendHeaders(t) \/ SendBody(t)
  PROVE  Exchanges' /\ ReplyIsWhole'
  <1> USE NetHttpPostAssumption
  <1>1. "client" \in Ends /\ "server" \in Ends /\ "client" # "server"
    BY DEF Ends
  <1>2. poster[t] \in InUse /\ poster[t] \in Holding
    BY DEF SendHeaders, SendBody, PosterMove, InUse, Holding
  <1>3. PICK c \in Conns : c = sock["client"] /\ Exchanged(t, c, SentBy(t), Returned(t))
    BY <1>2 DEF PostInv, Exchanges, Exchange
  <1>4. inbox[c]["client"] \in Seq(Units) /\ text["client"] \in Seq(Units)
    BY <1>1 DEF PostInv, SocketInv, SocketTypeOK
  <1>5. poster \in [Posters -> PosterPlaces] /\ text \in [Ends -> Seq(Units)]
    BY DEF PostInv, AbortInv, PosterTypeOK, SocketInv, SocketTypeOK
  <1>6. UNCHANGED <<socketVars, server>> /\ sock'["client"] = c
    BY <1>3 DEF SendHeaders, SendBody, socketVars
  <1>7. /\ Unit("body", t) \in Units /\ <<Unit("body", t)>> \in Seq(Units)
        /\ Header(t, "length 1") \in Seq(Units)
    BY UnitsOf, ShortSeqs
  <1>8. CASE poster' = [poster EXCEPT ![t] = "failed"]
    <2>1. \A u \in Posters : u # t => poster'[u] = poster[u] /\ poster[u] \notin Holding
      BY <1>8, <1>2, <1>5, OneHolds DEF PostInv
    <2>2. poster'[t] = "failed"
      BY <1>8, <1>5
    <2>3. \A u \in Posters : poster'[u] \notin InUse \cup {"succeeded"}
      BY <2>1, <2>2 DEF InUse, Holding
    <2>4. QED
      BY <2>3, NobodySends
  <1>9. CASE SendHeaders(t) /\ poster' # [poster EXCEPT ![t] = "failed"]
    <2>1. /\ TRUE \in Sends("client") /\ Send("client", TRUE, Header(t, "length 1"))
          /\ poster[t] = "headers" /\ poster' = [poster EXCEPT ![t] = "body"]
          /\ text' = text
      <3>1. PICK ok \in Sends("client") :
              /\ PosterMove(t, "headers", IF ok THEN "body" ELSE "failed")
              /\ Send("client", ok, Header(t, "length 1"))
        BY <1>9 DEF SendHeaders
      <3>2. ok = TRUE
        BY <1>9, <3>1 DEF PosterMove, Sends
      <3>3. QED
        BY <1>9, <3>1, <3>2 DEF SendHeaders, PosterMove, readVars
    <2>2. /\ poster'[t] = "body"
          /\ \A u \in Posters \ {t} : poster'[u] = poster[u]
      BY <1>5, <2>1
    <2>3. SentBy(t) = <<>> /\ <<>> \in Seq(Units)
      <3>1. SentBy(t) = <<>>
        BY <2>1 DEF SentBy
      <3>2. <<>> \in Seq(Units)
        OBVIOUS
      <3>3. QED
        BY <3>1, <3>2
    <2>4. /\ Exchanged(t, c, <<>> \o Header(t, "length 1"), Returned(t))'
          /\ inbox'[c]["client"] = inbox[c]["client"]
      <3>1. PICK got : got = Returned(t)
        OBVIOUS
      <3>2. /\ Exchanged(t, c, <<>> \o Header(t, "length 1"), got)'
            /\ inbox'[c]["client"] = inbox[c]["client"]
        BY <1>2, <1>3, <1>6, <1>7, <2>1, <2>3, <3>1, PutBehind
      <3>3. Returned(t)' = got
        BY <1>3, <1>6, <2>1, <2>2, <3>1, <3>2 DEF Returned
      <3>4. QED
        BY <3>2, <3>3 DEF Exchanged
    <2>5. <<>> \o Header(t, "length 1") = Header(t, "length 1")
      BY <1>7, EmptyBefore
    <2>6. SentBy(t)' = Header(t, "length 1")
      BY <2>2 DEF SentBy
    <2>7. Exchange(t)'
      BY <1>6, <2>4, <2>5, <2>6 DEF Exchange, Exchanged
    <2>8. QED
      BY <1>2, <2>2, <2>7, OnlyExchange
  <1>10. CASE SendBody(t) /\ poster' # [poster EXCEPT ![t] = "failed"]
    <2>1. /\ TRUE \in Sends("client") /\ Send("client", TRUE, <<Unit("body", t)>>)
          /\ poster[t] = "body" /\ poster' = [poster EXCEPT ![t] = "reading"]
          /\ text' = [text EXCEPT !["client"] = <<>>]
      <3>1. PICK ok \in Sends("client") :
              /\ PosterMove(t, "body", IF ok THEN "reading" ELSE "failed")
              /\ Send("client", ok, <<Unit("body", t)>>)
              /\ text' = [text EXCEPT !["client"] = IF ok THEN <<>> ELSE @]
        BY <1>10 DEF SendBody
      <3>2. ok = TRUE
        BY <1>10, <3>1 DEF PosterMove, Sends
      <3>3. QED
        BY <3>1, <3>2 DEF PosterMove
    <2>2. /\ poster'[t] = "reading"
          /\ \A u \in Posters \ {t} : poster'[u] = poster[u]
          /\ text'["client"] = <<>> /\ text'["server"] = text["server"]
      BY <1>1, <1>5, <2>1
    <2>3. SentBy(t) = Header(t, "length 1")
      BY <2>1 DEF SentBy
    <2>4. PICK got : got = Returned(t)
      OBVIOUS
    <2>5. /\ Exchanged(t, c, Answer(t), got)'
          /\ inbox'[c]["client"] = inbox[c]["client"]
      <3>1. PICK put \in Seq(Units), units \in Seq(Units) :
              put = Header(t, "length 1") /\ units = <<Unit("body", t)>>
        BY <1>7
      <3>2. /\ Exchanged(t, c, put \o units, got)'
            /\ inbox'[c]["client"] = inbox[c]["client"]
        BY <1>2, <1>3, <1>6, <2>1, <2>2, <2>3, <2>4, <3>1, PutBehind
      <3>3. put \o units = Answer(t)
        BY <3>1 DEF Answer
      <3>4. QED
        BY <3>2, <3>3
    <2>6. got = inbox[c]["client"]
      BY <1>3, <2>1, <2>4 DEF Returned
    <2>7. Returned(t)' = got
      <3>1. Returned(t)' = <<>> \o inbox[c]["client"]
        BY <1>6, <2>2, <2>5 DEF Returned
      <3>2. QED
        BY <1>4, <2>6, <3>1, EmptyBefore
    <2>8. SentBy(t)' = Answer(t)
      BY <2>2 DEF SentBy, Answer
    <2>9. Exchange(t)'
      BY <1>6, <2>5, <2>7, <2>8 DEF Exchange, Exchanged
    <2>10. QED
      BY <1>2, <2>2, <2>9, OnlyExchange
  <1>11. QED
    BY <1>8, <1>9, <1>10

\* The client's end: a reply is taken whole.
LEMMA ReplyExchanges ==
  ASSUME PostInv, NEW t \in Posters, ReplyRead(t)
  PROVE  Exchanges' /\ ReplyIsWhole'
  <1>1. "client" \in Ends /\ "server" \in Ends
    BY DEF Ends
  <1>2. /\ poster[t] = "reading" /\ poster' = [poster EXCEPT ![t] = "succeeded"]
        /\ text' = text /\ HeaderRead("client") /\ Length("client") <= 0
    BY DEF ReplyRead, PosterMove, ReadComplete
  <1>3. /\ poster'[t] = "succeeded"
        /\ \A u \in Posters : u # t => poster'[u] = poster[u] /\ poster[u] \notin Holding
    BY <1>2, OneHolds DEF PostInv, AbortInv, PosterTypeOK, Holding
  <1>4. Exchanges'
    BY <1>3 DEF Exchanges, InUse, Holding
  <1>5. Exchange(t)
    BY <1>2 DEF PostInv, Exchanges, InUse
  <1>6. PICK b \in Seq(Units) : b = inbox[sock["client"]]["client"]
    BY <1>1, <1>5 DEF Exchange, PostInv, SocketInv, SocketTypeOK
  <1>7. text["client"] \in Seq(Units)
    BY <1>1 DEF PostInv, SocketInv, SocketTypeOK
  <1>8. text["client"] \o b \in {<<>>, Answer(t), Failure}
    BY <1>2, <1>5, <1>6 DEF Exchange, Exchanged, Returned
  <1>9. text["client"] = Answer(t) \/ text["client"] = Failure
    BY <1>2, <1>7, <1>8, WholeMessage
  <1>10. ReplyIsWhole'
    BY <1>2, <1>3, <1>9 DEF ReplyIsWhole, Holding, Answer, Failure
  <1>11. QED
    BY <1>4, <1>10

\* A step of the other end or of the network, with nothing moved in send: what
\* has been read at one end and what is still on its way there are one text.
LEMMA OtherEnd ==
  ASSUME PostInv, poster' = poster,
         \A t \in Posters : poster[t] = "succeeded" => text'["client"] = text["client"],
         sock'["client"] = sock["client"],
         \A t \in Posters, c \in Conns : \A put, got :
           /\ poster[t] \in InUse /\ c = sock["client"]
           /\ put = SentBy(t) /\ got = Returned(t)'
           /\ Exchanged(t, c, put, Returned(t))
           => Exchanged(t, c, put, got)'
  PROVE  Exchanges' /\ ReplyIsWhole'
  <1>1. ReplyIsWhole'
    BY DEF PostInv, ReplyIsWhole
  <1>2. ASSUME NEW t \in Posters, poster[t] \in InUse
        PROVE  Exchange(t)'
    <2>1. PICK c \in Conns : c = sock["client"] /\ Exchanged(t, c, SentBy(t), Returned(t))
      BY <1>2 DEF PostInv, Exchanges, Exchange
    <2>2. PICK put, got : put = SentBy(t) /\ got = Returned(t)'
      OBVIOUS
    <2>3. SentBy(t)' = put
      BY <2>2 DEF SentBy
    <2>4. Exchanged(t, c, put, got)'
      BY <1>2, <2>1, <2>2
    <2>5. QED
      BY <2>1, <2>2, <2>3, <2>4 DEF Exchange, Exchanged
  <1>3. QED
    BY <1>1, <1>2 DEF Exchanges

LEMMA ReadExchanges ==
  ASSUME PostInv, NEW e \in Ends, ReadStep(e)
  PROVE  Exchanges' /\ ReplyIsWhole'
  <1>1. /\ "client" \in Ends /\ "server" \in Ends /\ "client" # "server"
        /\ e = "client" \/ e = "server"
    BY DEF Ends
  <1>2. UNCHANGED <<postVars, server, sock, fd>> /\ reading[e] # "no"
    BY DEF ReadStep, ReadHeader, ReadBody, ReadEnd, socketVars
  <1>3. /\ \A d \in Ends : d # e => text'[d] = text[d]
        /\ \A c \in Conns, d \in Ends :
             c # sock[e] \/ d # e => inbox'[c][d] = inbox[c][d]
        /\ sock[e] \in Conns =>
             text'[e] \o inbox'[sock[e]][e] = text[e] \o inbox[sock[e]][e]
    <2>1. \/ \E n \in Int : Receive(e, n)
          \/ UNCHANGED <<inbox, text>>
      BY ReadsSome DEF PostInv, SocketInv
    <2>2. SocketTypeOK /\ Bound(e)
      <3>1. reading[e] # "no"
        BY DEF ReadStep, ReadHeader, ReadBody, ReadEnd
      <3>2. QED
        BY <3>1 DEF PostInv, SocketInv, ServerServes, ClientReads, Exchanges, Exchange, Bound,
                    InUse, Ends
    <2>3. ASSUME NEW n \in Int, Receive(e, n)
          PROVE  /\ \A d \in Ends \ {e} : text'[d] = text[d]
                 /\ \A c \in Conns, d \in Ends :
                      c # sock[e] \/ d # e => inbox'[c][d] = inbox[c][d]
                 /\ text'[e] \o inbox'[sock[e]][e] = text[e] \o inbox[sock[e]][e]
      BY <2>2, <2>3, Received
    <2>4. CASE UNCHANGED <<inbox, text>>
      BY <2>4
    <2>5. QED
      BY <2>1, <2>3, <2>4
  <1>4. CASE e = "client"
    <2>1. PICK r \in Posters : poster[r] = "reading"
      BY <1>2, <1>4 DEF PostInv, ClientReads
    <2>2. \A t \in Posters : poster[t] \in Holding => t = r
      BY <2>1, OneHolds DEF PostInv, Holding
    <2>3. ASSUME NEW t \in Posters, NEW c \in Conns, NEW put, NEW got,
                 poster[t] \in InUse, c = sock["client"], put = SentBy(t),
                 got = Returned(t)', Exchanged(t, c, put, Returned(t))
          PROVE  Exchanged(t, c, put, got)'
      <3>1. poster[t] = "reading"
        BY <2>1, <2>2, <2>3 DEF InUse, Holding
      <3>2. got = Returned(t)
        BY <1>2, <1>3, <1>4, <2>3, <3>1 DEF Returned, postVars
      <3>3. text'["server"] = text["server"] /\ inbox'[c]["server"] = inbox[c]["server"]
        BY <1>1, <1>3, <1>4
      <3>4. QED
        BY <1>2, <2>3, <3>2, <3>3 DEF Exchanged
    <2>4. \A t \in Posters : poster[t] # "succeeded"
      BY <2>1, <2>2 DEF Holding
    <2>5. QED
      BY <1>2, <2>3, <2>4, OtherEnd DEF postVars
  <1>5. CASE e = "server"
    <2>1. /\ server = "reading" /\ sock["server"] \in Conns
          /\ fd[sock["server"]]["server"] = "open"
      BY <1>1, <1>2, <1>5 DEF PostInv, SocketInv, ServerServes, Bound
    <2>2. ASSUME NEW t \in Posters, NEW c \in Conns, NEW put, NEW got,
                 poster[t] \in InUse, c = sock["client"], put = SentBy(t),
                 got = Returned(t)', Exchanged(t, c, put, Returned(t))
          PROVE  Exchanged(t, c, put, got)'
      <3>1. got = Returned(t)
        BY <1>1, <1>2, <1>3, <1>5, <2>2 DEF Returned, postVars
      <3>2. CASE c = sock["server"]
        <4>1. text'["server"] \o inbox'[c]["server"] = text["server"] \o inbox[c]["server"]
          BY <1>3, <1>5, <2>1, <3>2
        <4>2. QED
          BY <1>2, <2>1, <2>2, <3>1, <3>2, <4>1 DEF Exchanged
      <3>3. CASE c # sock["server"]
        <4>1. inbox'[c]["server"] = inbox[c]["server"]
          BY <1>1, <1>3, <1>5, <3>3
        <4>2. QED
          BY <1>2, <2>2, <3>1, <3>3, <4>1 DEF Exchanged
      <3>4. QED
        BY <3>2, <3>3
    <2>3. text'["client"] = text["client"]
      BY <1>1, <1>3, <1>5
    <2>4. QED
      BY <1>2, <2>2, <2>3, OtherEnd DEF postVars
  <1>6. QED
    BY <1>1, <1>4, <1>5

LEMMA AcceptExchanges ==
  ASSUME PostInv, Accept
  PROVE  Exchanges' /\ ReplyIsWhole'
  <1>1. "client" \in Ends /\ "server" \in Ends /\ "client" # "server"
    BY DEF Ends
  <1>2. PICK a \in Conns : /\ fd[a]["server"] = "backlog"
                           /\ fd' = [fd EXCEPT ![a]["server"] = "open"]
                           /\ sock' = [sock EXCEPT !["server"] = a]
    BY DEF Accept
  <1>3. /\ server = "accepting" /\ server' = "reading"
        /\ text' = [text EXCEPT !["server"] = <<>>]
        /\ UNCHANGED <<postVars, inbox>>
    BY DEF Accept
  <1>4. /\ sock'["server"] = a /\ sock'["client"] = sock["client"]
        /\ text'["server"] = <<>> /\ text'["client"] = text["client"]
        /\ \A c \in Conns : fd'[c]["server"] = IF c = a THEN "open" ELSE fd[c]["server"]
    BY <1>1, <1>2, <1>3 DEF PostInv, SocketInv, SocketTypeOK
  <1>5. ASSUME NEW t \in Posters, NEW c \in Conns, NEW put, NEW got,
               poster[t] \in InUse, c = sock["client"], put = SentBy(t),
               got = Returned(t)', Exchanged(t, c, put, Returned(t))
        PROVE  Exchanged(t, c, put, got)'
    <2>1. got = Returned(t)
      BY <1>3, <1>4, <1>5 DEF Returned, postVars
    <2>2. inbox[c]["server"] \in Seq(Units)
      BY <1>1 DEF PostInv, SocketInv, SocketTypeOK
    <2>3. <<>> \o inbox[c]["server"] = inbox[c]["server"]
      BY <2>2, EmptyBefore
    <2>4. QED
      BY <1>2, <1>3, <1>4, <1>5, <2>1, <2>3 DEF Exchanged
  <1>6. QED
    BY <1>3, <1>4, <1>5, OtherEnd DEF postVars

LEMMA FirstOf ==
  ASSUME NEW q \in Seq(Units), NEW a \in Seq(Units), NEW b \in Seq(Units), a # <<>>,
         a \o b = q
  PROVE  q # <<>> /\ a[1] = q[1]
  <1>1. /\ Len(a) \in Nat /\ \A i \in 1..Len(a) : a[i] = (a \o b)[i]
        /\ Len(a) <= Len(a \o b)
    BY PrefixItems
  <1>2. Len(a) # 0
    OBVIOUS
  <1>3. 1 \in 1..Len(a)
    BY <1>1, <1>2
  <1>4. QED
    BY <1>1, <1>2, <1>3

\* What the server answers is the sender it has read.
LEMMA RequestExchanges ==
  ASSUME PostInv, RequestRead
  PROVE  Exchanges' /\ ReplyIsWhole'
  <1>1. "client" \in Ends /\ "server" \in Ends /\ "client" # "server"
    BY DEF Ends
  <1>2. /\ server = "reading" /\ server' = "responding" /\ HeaderRead("server")
        /\ UNCHANGED <<postVars, socketVars, inbox, text>>
    BY DEF RequestRead, ReadComplete
  <1>3. ASSUME NEW t \in Posters, NEW c \in Conns, NEW put, NEW got,
               poster[t] \in InUse, c = sock["client"], put = SentBy(t),
               got = Returned(t)', Exchanged(t, c, put, Returned(t))
        PROVE  Exchanged(t, c, put, got)'
    <2>1. got = Returned(t)
      BY <1>2, <1>3 DEF Returned, postVars, socketVars
    <2>2. ASSUME sock["server"] = c
          PROVE  text["server"][1].of = t
      <3>1. PICK a \in Seq(Units), b \in Seq(Units) :
              a = text["server"] /\ b = inbox[c]["server"]
        BY <1>1 DEF PostInv, SocketInv, SocketTypeOK
      <3>2. a # <<>>
        BY <1>2, <3>1 DEF HeaderRead
      <3>3. a \o b = put
        BY <1>2, <1>3, <2>2, <3>1 DEF Exchanged
      <3>4. /\ put \in Seq(Units)
            /\ put # <<>> => put[1] = Unit("start", t)
        <4>1. put \in {<<>>, Header(t, "length 1"), Answer(t)}
          BY <1>3 DEF SentBy
        <4>2. /\ Answer(t) \in Seq(Units) /\ Answer(t)[1] = Unit("start", t)
              /\ Header(t, "length 1") \in Seq(Units)
              /\ Header(t, "length 1")[1] = Unit("start", t)
          BY AnswerIs
        <4>3. <<>> \in Seq(Units)
          OBVIOUS
        <4>4. QED
          BY <4>1, <4>2, <4>3
      <3>5. a[1] = Unit("start", t)
        BY <3>2, <3>3, <3>4, FirstOf
      <3>6. QED
        BY <3>1, <3>5 DEF Unit
    <2>3. QED
      BY <1>2, <1>3, <2>1, <2>2 DEF Exchanged, socketVars
  <1>4. QED
    BY <1>2, <1>3, OtherEnd DEF postVars, socketVars

\* The one message the server sends on a connection.
LEMMA AnswerExchanges ==
  ASSUME PostInv, server \in {"reading", "responding"}, server' = "closing",
         UNCHANGED <<postVars, socketVars, text>>,
         NEW ok \in Sends("server"), NEW units \in Seq(Units), Send("server", ok, units),
         \A t \in Posters : poster[t] \in InUse /\ sock["server"] = sock["client"]
           /\ Exchange(t) => units \in {Answer(t), Failure}
  PROVE  Exchanges' /\ ReplyIsWhole'
  <1>1. /\ "client" \in Ends /\ "server" \in Ends /\ "client" # "server"
        /\ Peer("server") = "client"
    BY DEF Ends, Peer
  <1>2. SocketTypeOK /\ ServerServes /\ Bound("server")
    BY DEF PostInv, SocketInv, ServerServes
  <1>3. sock["server"] \in Conns /\ fd[sock["server"]]["server"] = "open"
    BY <1>1, <1>2 DEF ServerServes, Bound
  <1>4. /\ \A f \in Conns, d \in Ends :
             f # sock["server"] \/ d # "client" => inbox'[f][d] = inbox[f][d]
        /\ ok => inbox'[sock["server"]]["client"] = inbox[sock["server"]]["client"] \o units
        /\ ~ok => inbox' = inbox
    <2>1. /\ \A f \in Conns, d \in Ends :
               f # sock["server"] \/ d # Peer("server") => inbox'[f][d] = inbox[f][d]
          /\ ok => inbox'[sock["server"]][Peer("server")]
                     = inbox[sock["server"]][Peer("server")] \o units
          /\ ~ok => inbox' = inbox
      BY <1>1, <1>2, Written
    <2>2. QED
      BY <1>1, <2>1
  <1>5. ASSUME NEW t \in Posters, NEW c \in Conns, NEW put, NEW got,
               poster[t] \in InUse, c = sock["client"], put = SentBy(t),
               got = Returned(t)', Exchanged(t, c, put, Returned(t))
        PROVE  Exchanged(t, c, put, got)'
    <2>1. inbox'[c]["server"] = inbox[c]["server"]
      BY <1>1, <1>4
    <2>2. CASE c # sock["server"] \/ ~ok
      <3>1. inbox'[c]["client"] = inbox[c]["client"]
        BY <1>1, <1>4, <2>2
      <3>2. got = Returned(t)
        BY <1>5, <3>1 DEF Returned, postVars, socketVars
      <3>3. QED
        BY <1>5, <2>1, <3>2 DEF Exchanged, socketVars
    <2>3. CASE c = sock["server"] /\ ok
      <3>1. Returned(t) = <<>>
        BY <1>5, <2>3 DEF Exchanged
      <3>2. units \in {Answer(t), Failure}
        BY <1>5, <2>3 DEF Exchange
      <3>3. PICK a \in Seq(Units), b \in Seq(Units) :
              a = text["client"] /\ b = inbox[c]["client"]
        BY <1>1, <1>2 DEF SocketTypeOK
      <3>4. inbox'[c]["client"] = b \o units
        BY <1>4, <2>3, <3>3
      <3>5. got = units
        <4>1. CASE poster[t] = "reading"
          <5>1. a \o b = <<>> /\ got = a \o (b \o units)
            BY <1>5, <3>1, <3>3, <3>4, <4>1 DEF Returned, postVars, socketVars
          <5>2. QED
            BY <5>1, Nothing
        <4>2. CASE poster[t] # "reading"
          <5>1. b = <<>> /\ got = b \o units
            BY <1>5, <3>1, <3>3, <3>4, <4>2 DEF Returned, postVars, socketVars
          <5>2. QED
            BY <5>1, EmptyBefore
        <4>3. QED
          BY <4>1, <4>2
      <3>6. QED
        BY <1>3, <1>5, <2>3, <3>2, <3>5 DEF Exchanged, socketVars
    <2>4. QED
      BY <2>2, <2>3
  <1>6. QED
    BY <1>5, OtherEnd DEF postVars, socketVars

LEMMA ServerExchanges ==
  ASSUME PostInv, RequestBad \/ Respond \/ ServerClose
  PROVE  Exchanges' /\ ReplyIsWhole'
  <1>1. "client" \in Ends /\ "server" \in Ends /\ "client" # "server"
    BY DEF Ends
  <1>2. CASE RequestBad
    <2>1. PICK ok \in Sends("server") : Send("server", ok, Failure)
      BY <1>2 DEF RequestBad, SendError, Failure
    <2>2. Failure \in Seq(Units)
      BY UnitsOf DEF Failure
    <2>3. server = "reading" /\ server' = "closing" /\ UNCHANGED <<postVars, socketVars, text>>
      BY <1>2 DEF RequestBad
    <2>4. QED
      BY <2>1, <2>2, <2>3, AnswerExchanges
  <1>3. CASE Respond
    <2>1. text["server"] # <<>> /\ text["server"] \in Seq(Units)
      BY <1>1, <1>3 DEF Respond, PostInv, SocketInv, ServerServes, Bound, SocketTypeOK
    <2>2. PICK o \in Posters \cup {"error"} : o = text["server"][1].of
      BY <2>1, OfUnits
    <2>3. PICK ok \in Sends("server") : Send("server", ok, Answer(o))
      BY <1>3, <2>2 DEF Respond, Answer
    <2>4. Answer(o) \in Seq(Units)
      BY UnitsOf DEF Answer
    <2>5. /\ server = "responding" /\ server' = "closing"
          /\ UNCHANGED <<postVars, socketVars, text>>
      BY <1>3 DEF Respond, readVars
    <2>6. \A t \in Posters : poster[t] \in InUse /\ sock["server"] = sock["client"]
            /\ Exchange(t) => o = t
      BY <2>2, <2>5 DEF Exchange, Exchanged
    <2>7. QED
      BY <2>3, <2>4, <2>5, <2>6, AnswerExchanges
  <1>4. CASE ServerClose
    <2>1. /\ server' = "accepting" /\ CloseSocket("server")
          /\ UNCHANGED <<postVars, text, inbox>>
      BY <1>4 DEF ServerClose, readVars
    <2>2. /\ sock'["client"] = sock["client"]
          /\ \A c \in Conns : fd'[c]["server"] = fd[c]["server"] \/ fd'[c]["server"] = "closed"
      <3>1. SocketTypeOK /\ Bound("server")
        BY DEF PostInv, SocketInv, ServerServes
      <3>2. \A d \in Ends : d # "server" => sock'[d] = sock[d] /\ status'[d] = status[d]
        BY <1>1, <2>1, <3>1, Closed
      <3>3. \A c \in Conns, d \in Ends : fd'[c][d] = fd[c][d] \/ fd'[c][d] = "closed"
        BY <1>1, <2>1, <3>1, Closed
      <3>4. QED
        BY <1>1, <3>2, <3>3
    <2>3. ASSUME NEW t \in Posters, NEW c \in Conns, NEW put, NEW got,
                 poster[t] \in InUse, c = sock["client"], put = SentBy(t),
                 got = Returned(t)', Exchanged(t, c, put, Returned(t))
          PROVE  Exchanged(t, c, put, got)'
      <3>1. got = Returned(t)
        BY <2>1, <2>2, <2>3 DEF Returned, postVars
      <3>2. QED
        BY <2>1, <2>2, <2>3, <3>1 DEF Exchanged
    <2>4. QED
      BY <2>1, <2>2, <2>3, OtherEnd DEF postVars
  <1>5. QED
    BY <1>2, <1>3, <1>4

LEMMA PostInvKept ==
  ASSUME PostInv, [NetNext]_netVars
  PROVE  PostInv'
  <1>1. AbortInv' /\ SocketInv' /\ ClientReads'
    <2>1. ClientConnects
      BY DEF PostInv, Exchanges, Exchange, ClientConnects
    <2>2. QED
      BY <2>1, AbortInvKept, SocketInvKept, ClientReadsKept DEF PostInv, AbortInv
  <1>2. ASSUME NEW t \in Posters,
               \/ PostBegin(t) \/ PostAborted(t) \/ PostLock(t) \/ DoSend(t) \/ HostUnknown(t)
               \/ CheckAbort(t) \/ PostReturn(t) \/ AbortSend(t) \/ AbortReturn(t)
        PROVE  Exchanges' /\ ReplyIsWhole'
    <2>1. UNCHANGED <<readVars, socketVars, server, inbox>>
      BY <1>2 DEF PostBegin, PostAborted, PostLock, DoSend, HostUnknown, CheckAbort,
                  PostReturn, AbortSend, AbortReturn
    <2>2. \A u \in Posters : poster'[u] \in InUse \cup {"succeeded"} =>
            \/ poster'[u] = poster[u]
            \/ poster'[u] = "headers" /\ poster[u] = "connected"
      BY <1>2 DEF InUse, PostInv, AbortInv, PosterTypeOK, PosterMove, PostBegin, PostAborted,
                  PostLock, DoSend, HostUnknown, CheckAbort, PostReturn, AbortSend, AbortReturn
    <2>3. QED
      BY <2>1, <2>2, PostsAlone
  <1>3. ASSUME NEW t \in Posters, ConnectRefused(t) \/ SocketFails(t) \/ ReplyBad(t)
        PROVE  Exchanges' /\ ReplyIsWhole'
    <2>1. poster[t] \in Holding /\ poster' = [poster EXCEPT ![t] = "failed"]
      BY <1>3 DEF ConnectRefused, SocketFails, ReplyBad, PosterMove, Holding
    <2>2. \A u \in Posters : u # t => poster[u] \notin Holding
      BY <2>1, OneHolds DEF PostInv
    <2>3. \A u \in Posters : poster'[u] \notin InUse \cup {"succeeded"}
      BY <2>1, <2>2 DEF InUse, Holding, PostInv, AbortInv, PosterTypeOK
    <2>4. QED
      BY <2>3, NobodySends
  <1>4. ASSUME UNCHANGED netVars
        PROVE  Exchanges' /\ ReplyIsWhole'
    <2>1. UNCHANGED <<readVars, socketVars, server, inbox, poster>>
      BY <1>4 DEF netVars, postVars
    <2>2. QED
      BY <2>1, PostsAlone
  <1>5. Exchanges' /\ ReplyIsWhole'
    BY <1>2, <1>3, <1>4, ConnectExchanges, SendExchanges, ReplyExchanges, ReadExchanges,
       AcceptExchanges, RequestExchanges, ServerExchanges
    DEF NetNext, PostStep, ServerStep
  <1>6. QED
    BY <1>1, <1>5 DEF PostInv

\* For any threads that send and abort, any number of connections, and a network
\* that cuts anywhere: a send that an abort met before it looked at m_abort puts
\* nothing on the wire, and a send that succeeds has a whole message, the answer
\* to its own request or the server's error.
\* (NetHttpClientPost.cpp:50-196, NetHttpSerPost.cpp:103-192)
THEOREM PostIsSafe == NetSpec => []PostSafe
  <1>1. NetInit => PostInv
    <2> SUFFICES ASSUME NetInit PROVE PostInv
      OBVIOUS
    <2>1. ClientReads
      BY DEF NetInit, ClientReads, Ends
    <2>2. Exchanges /\ ReplyIsWhole
      BY DEF NetInit, Exchanges, ReplyIsWhole, InUse
    <2>3. QED
      BY <2>1, <2>2, AbortInvInit, SocketInvInit DEF PostInv
  <1>2. PostInv /\ [NetNext]_netVars => PostInv'
    BY PostInvKept
  <1>3. PostInv => PostSafe
    <2> SUFFICES ASSUME PostInv PROVE PostSafe
      OBVIOUS
    <2>1. NetTypeOK
      BY DEF PostInv, AbortInv, PosterTypeOK, SocketInv, SocketTypeOK, NetTypeOK
    <2>2. AbortInTime
      BY DEF PostInv, AbortInv, AbortKept, AbortInTime
    <2>3. QED
      BY <2>1, <2>2 DEF PostInv, PostSafe
  <1>4. QED
    BY <1>1, <1>2, <1>3, PTL DEF NetSpec

=============================================================================
