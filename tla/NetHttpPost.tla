---------------------------- MODULE NetHttpPost ----------------------------
(***************************************************************************)
(* An HTTP exchange: HttpClientPost (src/src/net/NetHttpClientPost.cpp)    *)
(* with its one Socket, shared by threads that send and abort, and a       *)
(* server that accepts, reads with HttpSerPost and answers                 *)
(* (src/src/net/NetHttpSerPost.cpp), both over Socket                      *)
(* (src/src/net/NetSocket.cpp).                                            *)
(*                                                                         *)
(* A connection is a number; the kernel delivers in order and cuts         *)
(* anywhere.  A message is its header up to the empty line, in two units,  *)
(* and a unit per part of the body; the header says how many follow.       *)
(***************************************************************************)
EXTENDS Naturals, Sequences, SequencesExt, FiniteSets, FiniteSetsExt

CONSTANTS
  Posters,   \* the threads that use the HttpClientPost
  MaxConns,  \* bound: how often a socket is made
  NoPoster

ASSUME NetHttpPostAssumption ==
  /\ IsFiniteSet(Posters) /\ NoPoster \notin Posters
  /\ MaxConns \in Nat

Ends == {"client", "server"}
Conns == 1..MaxConns

VARIABLES
  sendMutex,  \* the owner of m_sendMutex
  abort,      \* m_abort
  poster,     \* where each thread is in send or abortSend
  sent,       \* what the last send of each thread returned
  intime,     \* the threads whose send was aborted before it looked
  server,     \* where the server is
  status,     \* m_status of the client's socket and of the accepted one
  sock,       \* their m_sock: a connection, 0 for -1
  fd,         \* the two descriptors of each connection
  inbox,      \* what is on its way to each end of a connection
  reading,    \* where each end is in readRequest
  text        \* what it has read

postVars == <<sendMutex, abort, poster, sent, intime>>
socketVars == <<status, sock, fd>>
readVars == <<reading, text>>
netVars == <<postVars, server, socketVars, inbox, readVars>>

Unit(part, of) == [part |-> part, of |-> of]
Header(of, length) == <<Unit("start", of), Unit(length, of)>>
Ending == {"length 0", "length 1"}

(***************************************************************************)
(* A thread: aborting, locking: in the abortSend that send begins with,    *)
(* and before its own lock; starting to reading: in doSend; succeeded,     *)
(* failed: before the mutex is released; cancelling: in abortSend.         *)
(***************************************************************************)
PosterPlaces == {"idle", "aborting", "locking", "starting", "connecting", "connected",
                 "headers", "body", "reading", "succeeded", "failed", "cancelling"}

NetTypeOK ==
  /\ sendMutex \in Posters \cup {NoPoster}
  /\ abort \in BOOLEAN
  /\ poster \in [Posters -> PosterPlaces]
  /\ sent \in [Posters -> BOOLEAN]
  /\ intime \subseteq Posters
  /\ server \in {"accepting", "reading", "responding", "closing"}
  /\ status \in [Ends -> {"closed", "connected", "read shutdown"}]
  /\ sock \in [Ends -> 0..MaxConns]
  /\ fd \in [Conns -> [Ends -> {"none", "unconnected", "backlog", "open", "closed"}]]
  /\ reading \in [Ends -> {"no", "header", "body", "bad"}]

NetInit ==
  /\ sendMutex = NoPoster
  /\ abort = FALSE
  /\ poster = [t \in Posters |-> "idle"]
  /\ sent = [t \in Posters |-> FALSE]
  /\ intime = {}
  /\ server = "accepting"
  /\ status = [e \in Ends |-> "closed"]
  /\ sock = [e \in Ends |-> 0]
  /\ fd = [c \in Conns |-> [e \in Ends |-> "none"]]
  /\ inbox = [c \in Conns |-> [e \in Ends |-> <<>>]]
  /\ reading = [e \in Ends |-> "no"]
  /\ text = [e \in Ends |-> <<>>]

PosterMove(t, from, to) ==
  /\ poster[t] = from
  /\ poster' = [poster EXCEPT ![t] = to]

Peer(e) == IF e = "client" THEN "server" ELSE "client"
Made == Cardinality({c \in Conns : fd[c]["client"] # "none"})

-----------------------------------------------------------------------------
(* Socket *)

\* What send may return: only a connected socket sends, and the first who writes
\* to an end that is closed may not learn of it.
Sends(e) ==
  {status[e] = "connected"} \cup
    IF status[e] = "connected" /\ fd[sock[e]][Peer(e)] = "closed" THEN {FALSE} ELSE {}

Send(e, ok, units) ==
  inbox' = IF ok THEN [inbox EXCEPT ![sock[e]][Peer(e)] = @ \o units] ELSE inbox

\* What is pending goes into the buffer, at most n units of it.
Receive(e, n) ==
  /\ status[e] = "connected"
  /\ \E k \in 1..Min({n, Len(inbox[sock[e]][e])}) :
       /\ text' = [text EXCEPT ![e] = @ \o SubSeq(inbox[sock[e]][e], 1, k)]
       /\ inbox' = [inbox EXCEPT ![sock[e]][e] = SubSeq(@, k + 1, Len(@))]

\* The other side is done and everything it sent is read, or it left something
\* unread, which resets the connection.
AtEnd(e) ==
  /\ fd[sock[e]][Peer(e)] = "closed"
  /\ inbox[sock[e]][e] = <<>> \/ inbox[sock[e]][Peer(e)] # <<>>

CloseSocket(e) ==
  IF status[e] = "closed"
  THEN UNCHANGED socketVars
  ELSE /\ fd' = [fd EXCEPT ![sock[e]][e] = "closed"]
       /\ sock' = [sock EXCEPT ![e] = 0]
       /\ status' = [status EXCEPT ![e] = "closed"]

-----------------------------------------------------------------------------
(* HttpSerPost::readRequest, for the server's request and the client's reply *)

HeaderRead(e) == \E i \in DOMAIN text[e] : text[e][i].part \in Ending

Length(e) ==
  LET i == CHOOSE i \in DOMAIN text[e] : text[e][i].part \in Ending
  IN (IF text[e][i].part = "length 1" THEN 1 ELSE 0) - (Len(text[e]) - i)

\* The message is whole: what comes behind it is cut off.
ReadComplete(e) ==
  /\ reading[e] \in {"header", "body"}
  /\ HeaderRead(e)
  /\ Length(e) <= 0
  /\ reading' = [reading EXCEPT ![e] = "no"]
  /\ UNCHANGED text

\* getHttpHeader goes on when a read times out.
ReadHeader(e) ==
  /\ reading[e] = "header"
  /\ ~HeaderRead(e)
  /\ Receive(e, 3)
  /\ UNCHANGED <<postVars, socketVars, server, reading>>

\* read gives up after TIMEOUT_READ, and what it has not got by then is an error.
ReadBody(e) ==
  /\ reading[e] \in {"header", "body"}
  /\ HeaderRead(e) /\ Length(e) > 0
  /\ \/ /\ Receive(e, Length(e))
        /\ reading' = [reading EXCEPT ![e] = "body"]
     \/ /\ reading' = [reading EXCEPT ![e] = "bad"]
        /\ UNCHANGED <<inbox, text>>
  /\ UNCHANGED <<postVars, socketVars, server>>

\* At the end of the stream one read returns 0 and the next one fails.
ReadEnd(e) ==
  /\ reading[e] = "header"
  /\ ~HeaderRead(e)
  /\ AtEnd(e)
  /\ status' = [status EXCEPT ![e] = "read shutdown"]
  /\ reading' = [reading EXCEPT ![e] = "bad"]
  /\ UNCHANGED <<postVars, server, sock, fd, inbox, text>>

\* The other end is told, if it can be.
SendError(e) ==
  \E ok \in Sends(e) : Send(e, ok, Header("error", "length 0"))

-----------------------------------------------------------------------------
(* HttpClientPost *)

\* send begins with an abortSend.
PostBegin(t) ==
  /\ PosterMove(t, "idle", "aborting")
  /\ Made + Cardinality({u \in Posters : poster[u] # "idle"}) < MaxConns
  /\ abort' = TRUE
  /\ sent' = [sent EXCEPT ![t] = FALSE]
  /\ intime' = (intime \ {t})
                 \cup {u \in Posters : poster[u] \in {"connecting", "connected"}}
  /\ UNCHANGED <<readVars, socketVars, sendMutex, server, inbox>>

PostAborted(t) ==
  /\ PosterMove(t, "aborting", "locking")
  /\ sendMutex = NoPoster
  /\ UNCHANGED <<readVars, socketVars, sendMutex, abort, sent, intime, server, inbox>>

PostLock(t) ==
  /\ PosterMove(t, "locking", "starting")
  /\ sendMutex = NoPoster
  /\ sendMutex' = t
  /\ UNCHANGED <<readVars, socketVars, abort, sent, intime, server, inbox>>

DoSend(t) ==
  /\ PosterMove(t, "starting", "connecting")
  /\ abort' = FALSE
  /\ UNCHANGED <<readVars, socketVars, sendMutex, sent, intime, server, inbox>>

\* m_sock is overwritten, whatever it was.
Connect(t) ==
  LET c == Made + 1 IN
  /\ PosterMove(t, "connecting", "connected")
  /\ sock' = [sock EXCEPT !["client"] = c]
  /\ fd' = [fd EXCEPT ![c] = [client |-> "open", server |-> "backlog"]]
  /\ status' = [status EXCEPT !["client"] = "connected"]
  /\ UNCHANGED <<readVars, sendMutex, abort, sent, intime, server, inbox>>

\* ::connect failed: close does nothing for a socket that was never connected.
ConnectRefused(t) ==
  LET c == Made + 1 IN
  /\ PosterMove(t, "connecting", "failed")
  /\ IF status["client"] = "closed"
     THEN /\ sock' = [sock EXCEPT !["client"] = c]
          /\ fd' = [fd EXCEPT ![c] = [client |-> "unconnected", server |-> "closed"]]
          /\ UNCHANGED status
     ELSE /\ sock' = [sock EXCEPT !["client"] = 0]
          /\ fd' = [fd EXCEPT ![c] = [client |-> "closed", server |-> "closed"]]
          /\ status' = [status EXCEPT !["client"] = "closed"]
  /\ UNCHANGED <<readVars, sendMutex, abort, sent, intime, server, inbox>>

\* gethostbyname failed.
HostUnknown(t) ==
  /\ PosterMove(t, "connecting", "failed")
  /\ UNCHANGED <<readVars, socketVars, sendMutex, abort, sent, intime, server, inbox>>

\* ::socket failed: m_sock is -1, and a status from the send before stays.
SocketFails(t) ==
  /\ PosterMove(t, "connecting", "failed")
  /\ sock' = [sock EXCEPT !["client"] = 0]
  /\ UNCHANGED <<readVars, status, fd, sendMutex, abort, sent, intime, server, inbox>>

\* Mutant: m_abort is not looked at.
CheckNothing(t) ==
  /\ PosterMove(t, "connected", "headers")
  /\ UNCHANGED <<readVars, socketVars, sendMutex, abort, sent, intime, server, inbox>>

CheckAbort(t) ==
  /\ PosterMove(t, "connected", IF abort THEN "failed" ELSE "headers")
  /\ UNCHANGED <<readVars, socketVars, sendMutex, abort, sent, intime, server, inbox>>

SendHeaders(t) ==
  /\ poster[t] = "headers"
  /\ \E ok \in Sends("client") :
       /\ PosterMove(t, "headers", IF ok THEN "body" ELSE "failed")
       /\ Send("client", ok, Header(t, "length 1"))
  /\ UNCHANGED <<readVars, socketVars, sendMutex, abort, sent, intime, server>>

SendBody(t) ==
  /\ poster[t] = "body"
  /\ \E ok \in Sends("client") :
       /\ PosterMove(t, "body", IF ok THEN "reading" ELSE "failed")
       /\ Send("client", ok, <<Unit("body", t)>>)
       /\ reading' = [reading EXCEPT !["client"] = IF ok THEN "header" ELSE @]
       /\ text' = [text EXCEPT !["client"] = IF ok THEN <<>> ELSE @]
  /\ UNCHANGED <<socketVars, sendMutex, abort, sent, intime, server>>

ReplyRead(t) ==
  /\ PosterMove(t, "reading", "succeeded")
  /\ ReadComplete("client")
  /\ CloseSocket("client")
  /\ UNCHANGED <<sendMutex, abort, sent, intime, server, inbox>>

ReplyBad(t) ==
  /\ PosterMove(t, "reading", "failed")
  /\ reading["client"] = "bad"
  /\ reading' = [reading EXCEPT !["client"] = "no"]
  /\ SendError("client")
  /\ CloseSocket("client")
  /\ UNCHANGED <<sendMutex, abort, sent, intime, server, text>>

PostReturn(t) ==
  /\ poster[t] \in {"succeeded", "failed"}
  /\ poster' = [poster EXCEPT ![t] = "idle"]
  /\ sent' = [sent EXCEPT ![t] = poster[t] = "succeeded"]
  /\ sendMutex' = NoPoster
  /\ UNCHANGED <<readVars, socketVars, abort, intime, server, inbox>>

\* abortSend of another thread
AbortSend(t) ==
  /\ PosterMove(t, "idle", "cancelling")
  /\ abort' = TRUE
  /\ intime' = intime \cup {u \in Posters : poster[u] \in {"connecting", "connected"}}
  /\ UNCHANGED <<readVars, socketVars, sendMutex, sent, server, inbox>>

AbortReturn(t) ==
  /\ PosterMove(t, "cancelling", "idle")
  /\ sendMutex = NoPoster
  /\ UNCHANGED <<readVars, socketVars, sendMutex, abort, sent, intime, server, inbox>>

-----------------------------------------------------------------------------
(* The server: one request per connection *)

Accept ==
  /\ server = "accepting"
  /\ \E c \in Conns :
       /\ fd[c]["server"] = "backlog"
       /\ \A d \in Conns : fd[d]["server"] = "backlog" => c <= d
       /\ fd' = [fd EXCEPT ![c]["server"] = "open"]
       /\ sock' = [sock EXCEPT !["server"] = c]
  /\ status' = [status EXCEPT !["server"] = "connected"]
  /\ server' = "reading"
  /\ reading' = [reading EXCEPT !["server"] = "header"]
  /\ text' = [text EXCEPT !["server"] = <<>>]
  /\ UNCHANGED <<postVars, inbox>>

RequestRead ==
  /\ server = "reading"
  /\ ReadComplete("server")
  /\ server' = "responding"
  /\ UNCHANGED <<postVars, socketVars, inbox>>

RequestBad ==
  /\ server = "reading"
  /\ reading["server"] = "bad"
  /\ reading' = [reading EXCEPT !["server"] = "no"]
  /\ SendError("server")
  /\ server' = "closing"
  /\ UNCHANGED <<postVars, socketVars, text>>

\* sendResponse: header and body, both of the request's sender.
Respond ==
  /\ server = "responding"
  /\ LET t == text["server"][1].of
     IN \E ok \in Sends("server") :
          Send("server", ok, Header(t, "length 1") \o <<Unit("body", t)>>)
  /\ server' = "closing"
  /\ UNCHANGED <<postVars, readVars, socketVars>>

ServerClose ==
  /\ server = "closing"
  /\ CloseSocket("server")
  /\ server' = "accepting"
  /\ UNCHANGED <<postVars, readVars, inbox>>

-----------------------------------------------------------------------------

PostStep(t) ==
  \/ PostAborted(t)
  \/ PostLock(t)
  \/ DoSend(t)
  \/ Connect(t)
  \/ ConnectRefused(t)
  \/ HostUnknown(t)
  \/ SocketFails(t)
  \/ CheckAbort(t)
  \/ SendHeaders(t)
  \/ SendBody(t)
  \/ ReplyRead(t)
  \/ ReplyBad(t)
  \/ PostReturn(t)
  \/ AbortReturn(t)

ReadStep(e) == ReadHeader(e) \/ ReadBody(e) \/ ReadEnd(e)

ServerStep == Accept \/ RequestRead \/ RequestBad \/ Respond \/ ServerClose

NetNext ==
  \/ \E t \in Posters : PostBegin(t) \/ AbortSend(t) \/ PostStep(t)
  \/ \E e \in Ends : ReadStep(e)
  \/ ServerStep

\* Threads that have begun go on, and a thread that waits for the mutex gets it
\* in the end: those before it leave send or abortSend.
NetFairness ==
  /\ \A t \in Posters : SF_netVars(PostStep(t))
  /\ \A e \in Ends : WF_netVars(ReadStep(e))
  /\ WF_netVars(ServerStep)

NetSpec == NetInit /\ [][NetNext]_netVars

-----------------------------------------------------------------------------
(* Properties *)

\* A send that an abort met before it looked at m_abort puts nothing on the
\* wire.  An abort that comes later, while send waits for the reply, changes
\* nothing, and one that comes before doSend is lost.
\* (NetHttpClientPost.cpp:50-58, 161, 192-196)
AbortInTime ==
  \A t \in intime : poster[t] \notin {"headers", "body", "reading"}

\* A send returns TRUE only with a whole message: an answer to its own request,
\* or the error the server sends when it could not read it.
\* (NetHttpSerPost.cpp:103-192)
ReplyIsWhole ==
  \A t \in Posters :
    poster[t] = "succeeded" =>
      \/ text["client"] = Header(t, "length 1") \o <<Unit("body", t)>>
      \/ text["client"] = Header("error", "length 0")

\* Descriptors nobody can close any more: a connect that failed, or an aborted
\* send whose socket was overwritten by the next one.
Leaked(c) == fd[c]["client"] \in {"open", "unconnected"} /\ sock["client"] # c

\* An aborted send leaves its socket connected: nothing is read, written or
\* closed on it before the next send.
Abandoned == status["client"] = "connected" /\ sendMutex = NoPoster

\* As long as no connection is abandoned or leaked, whoever calls send or
\* abortSend returns.  With one, the server waits for its request for ever and
\* so does everybody behind it. (NetHttpSerPost.cpp:88-97)
PostReturns ==
  [](~Abandoned /\ \A c \in Conns : ~Leaked(c))
    => \A t \in Posters : poster[t] # "idle" ~> poster[t] = "idle"

\* An abort in time ends the request, and a reply is never taken in part.
PostSafe == NetTypeOK /\ AbortInTime /\ ReplyIsWhole
=============================================================================
