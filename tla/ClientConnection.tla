-------------------------- MODULE ClientConnection --------------------------
(***************************************************************************)
(* One accepted connection: the Clientconnection object of                 *)
(* include/connection_types.h, driven by the reactor, with the handlers    *)
(* that src/server.cpp installs, over a TCP socket registered edge-        *)
(* triggered with epoll.                                                   *)
(*                                                                         *)
(* The socket, the peer and epoll are the environment; they may act        *)
(* between any two system calls of the handler, so one call of recv() or   *)
(* send() is one step. Everything the handler does between two calls       *)
(* (parsing, user callbacks, the destructor) belongs to the step of the    *)
(* call before it.                                                         *)
(*                                                                         *)
(* Data is abstract: a segment of the incoming stream is "part" (bytes     *)
(* inside a request), "end" (bytes that complete a request) or "bad"       *)
(* (bytes llhttp rejects); byte i of the answer to request r is <<r, i>>.  *)
(***************************************************************************)
EXTENDS Integers, Sequences, FiniteSets

CONSTANTS
  RecvMax,    \* recvBuffer.size(), in segments
  RespLen,    \* sendBuffer.size() after serialize()
  SndBuf,     \* capacity of the socket's send buffer
  MaxSegs     \* bound: segments the peer sends

ASSUME ConnectionAssumption ==
  /\ RecvMax \in Nat \ {0}
  /\ RespLen \in Nat \ {0}
  /\ SndBuf \in Nat \ {0}
  /\ MaxSegs \in Nat

VARIABLES
  \* the socket and the peer
  inq,          \* segments received and not yet read
  sentSegs,     \* number of segments the peer has sent
  fin,          \* the peer's FIN has arrived
  rst,          \* the connection was reset by the peer
  skErr,        \* pending socket error: "none", "reset" or "pipe"
  wire,         \* bytes accepted by send(), in order
  acked,        \* how many of them have reached the peer
  lost,         \* close() reset the connection: the others never will
  nospace,      \* a writer found the send buffer full (SOCK_NOSPACE)
  \* the socket's entry in the epoll instance
  mask,         \* registered events; {} when the socket is not registered
  armed,        \* the entry is on the ready list
  \* the Clientconnection object
  obj,          \* "live", or "deleted" once its destructor ran
  requests,     \* calls of on_message_complete
  response,     \* the request that *response answers; 0 for nullptr
  sendBuffer,
  sent_bytes,
  outcome,      \* the user callback that ended it: "success" or "error"
  \* the reactor's thread
  pc,           \* where it is with respect to this connection
  revents       \* the events it is about to handle

socketVars == <<inq, sentSegs, fin, rst, skErr, wire, acked, lost, nospace>>
epollVars  == <<mask, armed>>
objectVars == <<obj, requests, response, sendBuffer, sent_bytes, outcome>>
threadVars == <<pc, revents>>
vars == <<socketVars, epollVars, objectVars, threadVars>>

Segment == {"part", "end", "bad"}
Event   == {"IN", "OUT", "RDHUP", "ERR", "HUP"}

\* EPOLLIN | EPOLLET | EPOLLRDHUP | EPOLLERR | EPOLLHUP, set by the listener.
ReadMask  == {"IN", "RDHUP", "ERR", "HUP"}
\* Mutant: write() keeps the socket registered for input.
WriteMaskKeepsInput == {"IN", "OUT", "RDHUP", "ERR", "HUP"}

\* EPOLLOUT | EPOLLET | EPOLLRDHUP | EPOLLERR | EPOLLHUP, set by write().
WriteMask == {"OUT", "RDHUP", "ERR", "HUP"}

Lesser(a, b) == IF a < b THEN a ELSE b

\* serialize(): the bytes of the response to request r.
Serialize(r) == [i \in 1..RespLen |-> <<r, i>>]

-----------------------------------------------------------------------------
(* The environment's side of a socket.                                     *)

InFlight == Len(wire) - acked
Free     == SndBuf - InFlight

\* What poll() on the socket reports.
Poll ==
  {e \in Event : \/ e = "IN"    /\ (inq # <<>> \/ fin \/ rst)
                 \/ e = "OUT"   /\ (rst \/ Free > 0)
                 \/ e = "RDHUP" /\ (fin \/ rst)
                 \/ e = "ERR"   /\ skErr # "none"
                 \/ e = "HUP"   /\ rst}

\* A wakeup with event e puts the entry on the ready list if it asked for e.
Wake(e) == armed' = (armed \/ e \in mask)

\* The peer's actions matter while the server process holds the socket open.
Connected == obj = "live" /\ pc # "killed" /\ ~rst

PeerSend(s) ==
  /\ Connected /\ ~fin /\ sentSegs < MaxSegs
  /\ inq' = Append(inq, s)
  /\ sentSegs' = sentSegs + 1
  /\ Wake("IN")
  /\ UNCHANGED <<fin, rst, skErr, wire, acked, lost, nospace, mask>>
  /\ UNCHANGED <<objectVars, threadVars>>

\* The peer shuts down its sending side, or closes.
PeerFin ==
  /\ Connected /\ ~fin
  /\ fin' = TRUE
  /\ Wake("RDHUP")
  /\ UNCHANGED <<inq, sentSegs, rst, skErr, wire, acked, lost, nospace, mask>>
  /\ UNCHANGED <<objectVars, threadVars>>

\* The peer aborts the connection: unsent data is dropped, and the pending
\* error is EPIPE if a FIN had already arrived, ECONNRESET otherwise.
PeerReset ==
  /\ Connected
  /\ rst' = TRUE
  /\ skErr' = IF fin THEN "pipe" ELSE "reset"
  /\ Wake("ERR")
  /\ UNCHANGED <<inq, sentSegs, fin, wire, acked, lost, nospace, mask>>
  /\ UNCHANGED <<objectVars, threadVars>>

\* A byte reaches the peer. It goes on after close(), unless close() reset
\* the connection. A writer that found the buffer full is woken.
PeerRead ==
  /\ InFlight > 0 /\ ~rst /\ ~lost
  /\ acked' = acked + 1
  /\ nospace' = FALSE
  /\ IF nospace THEN Wake("OUT") ELSE UNCHANGED armed
  /\ UNCHANGED <<inq, sentSegs, fin, rst, skErr, wire, lost, mask>>
  /\ UNCHANGED <<objectVars, threadVars>>

-----------------------------------------------------------------------------
(* The object.                                                             *)

\* `delete conn': the destructor closes the socket, which leaves the epoll
\* instance; closing with unread data resets the connection. request, parser
\* and settings are freed, *response is not.
Delete(unread, why) ==
  /\ obj' = "deleted"
  /\ outcome' = why
  /\ lost' = (unread # <<>>)
  /\ mask' = {}
  /\ armed' = FALSE
  /\ sendBuffer' = <<>>
  /\ sent_bytes' = 0

\* Mutant: write() serializes before it stores the response.
RespondSerializesFirst(r) ==
  /\ response' = r
  /\ sendBuffer' = IF response = 0 THEN sendBuffer ELSE Serialize(response)
  /\ mask' = WriteMask
  /\ armed' = (armed \/ Poll \cap WriteMask # {})

\* Mutant: write() does not re-register the socket.
RespondKeepsMask(r) ==
  /\ response' = r
  /\ sendBuffer' = Serialize(r)
  /\ UNCHANGED epollVars

\* The callback of server.cpp for request r hands a new response to write(),
\* which serializes it and re-registers the socket for output.
Respond(r) ==
  /\ response' = r
  /\ sendBuffer' = Serialize(r)
  /\ mask' = WriteMask
  /\ armed' = (armed \/ Poll \cap WriteMask # {})

\* llhttp_execute on the segments b: the number of requests completed before
\* the first segment it rejects, and whether it rejects one.
Completed(b) ==
  Cardinality({i \in DOMAIN b : b[i] = "end" /\ \A j \in 1..i : b[j] # "bad"})
Rejected(b) == \E i \in DOMAIN b : b[i] = "bad"

\* What one recv() returns, and what it leaves.
Received  == SubSeq(inq, 1, Lesser(RecvMax, Len(inq)))
Remaining == SubSeq(inq, Lesser(RecvMax, Len(inq)) + 1, Len(inq))

-----------------------------------------------------------------------------
(* The reactor's thread.                                                   *)

Init ==
  /\ inq = <<>> /\ sentSegs = 0 /\ fin = FALSE /\ rst = FALSE
  /\ skErr = "none" /\ wire = <<>> /\ acked = 0 /\ lost = FALSE
  /\ nospace = FALSE
  /\ mask = ReadMask /\ armed = FALSE
  /\ obj = "live" /\ requests = 0 /\ response = 0
  /\ sendBuffer = <<>> /\ sent_bytes = 0 /\ outcome = "none"
  /\ pc = "wait" /\ revents = {}

\* epoll_wait takes the entry off the ready list and polls the socket; the
\* event it reports, if any, waits in the queue until its turn comes.
EpollWait ==
  /\ pc = "wait" /\ armed
  /\ armed' = FALSE
  /\ nospace' = (nospace \/ (~rst /\ Free <= 0))
  /\ revents' = Poll \cap mask
  /\ pc' = IF Poll \cap mask = {} THEN "wait" ELSE "event"
  /\ UNCHANGED <<inq, sentSegs, fin, rst, skErr, wire, acked, lost, mask>>
  /\ UNCHANGED objectVars

\* handleEvent looks at one event only: an error goes to the user's callback,
\* else input enters the read loop, else output enters the write loop;
\* EPOLLRDHUP on its own is dropped.
HandleEvent ==
  /\ pc = "event"
  /\ revents' = {}
  /\ \/ /\ "ERR" \in revents
        /\ Delete(inq, "error")
        /\ pc' = "done"
     \/ /\ "ERR" \notin revents
        /\ \/ "IN" \in revents /\ pc' = "recv"
           \/ "IN" \notin revents /\ "OUT" \in revents /\ pc' = "send"
           \/ "IN" \notin revents /\ "OUT" \notin revents /\ pc' = "wait"
        /\ UNCHANGED <<lost, epollVars, obj, sendBuffer, sent_bytes, outcome>>
  /\ UNCHANGED <<inq, sentSegs, fin, rst, skErr, wire, acked, nospace>>
  /\ UNCHANGED <<requests, response>>

\* recv() returns data that llhttp accepts, and the thread goes on at `next'.
\* Every request completed in the data calls the user's callback; of several,
\* the last response stays.
Accept(next) ==
  /\ pc = "recv" /\ obj = "live" /\ inq # <<>>
  /\ ~Rejected(Received)
  /\ inq' = Remaining
  /\ requests' = requests + Completed(Received)
  /\ \/ /\ Completed(Received) = 0
        /\ UNCHANGED <<response, sendBuffer, epollVars>>
     \/ /\ Completed(Received) > 0
        /\ Respond(requests')
  /\ pc' = next
  /\ UNCHANGED <<sentSegs, fin, rst, skErr, wire, acked, lost, nospace>>
  /\ UNCHANGED <<obj, sent_bytes, outcome, revents>>

\* Mutant: one recv() per event instead of a loop.
RecvOnce == Accept("wait")

\* The loop calls recv() again.
RecvAccepted == Accept("recv")

\* recv() returns data that llhttp rejects: the requests before the error are
\* answered as above, then error(this) deletes the object; the loop goes on.
RecvRejected ==
  /\ pc = "recv" /\ obj = "live" /\ inq # <<>>
  /\ Rejected(Received)
  /\ inq' = Remaining
  /\ requests' = requests + Completed(Received)
  /\ response' = IF Completed(Received) = 0 THEN response ELSE requests'
  /\ Delete(Remaining, "error")
  /\ UNCHANGED <<sentSegs, fin, rst, skErr, wire, acked, nospace, threadVars>>

\* Mutant: recv() returning 0 is taken for "no more data".
RecvEofIgnored ==
  /\ pc = "recv" /\ obj = "live" /\ inq = <<>>
  /\ fin \/ (rst /\ skErr = "none")
  /\ pc' = "wait"
  /\ UNCHANGED <<socketVars, epollVars, objectVars, revents>>

\* recv() returns 0: the peer shut down, and the object is deleted even when
\* it has an answer to send.
RecvEof ==
  /\ pc = "recv" /\ obj = "live" /\ inq = <<>>
  /\ fin \/ (rst /\ skErr = "none")
  /\ Delete(inq, "error")
  /\ pc' = "done"
  /\ UNCHANGED <<inq, sentSegs, fin, rst, skErr, wire, acked, nospace>>
  /\ UNCHANGED <<requests, response, revents>>

\* recv() returns -1. The loop ends whatever errno is: EAGAIN, or the pending
\* socket error, which the call consumes.
RecvFails ==
  /\ pc = "recv" /\ obj = "live" /\ inq = <<>>
  /\ ~fin /\ (rst => skErr # "none")
  /\ skErr' = "none"
  /\ pc' = "wait"
  /\ UNCHANGED <<inq, sentSegs, fin, rst, wire, acked, lost, nospace>>
  /\ UNCHANGED <<epollVars, objectVars, revents>>

\* After RecvRejected the loop reads `socket' and `recvBuffer' of a deleted
\* object: recv() fails on what it finds there, or the build's allocator
\* checks abort the process.
RecvDeleted ==
  /\ pc = "recv" /\ obj = "deleted"
  /\ pc' \in {"done", "aborted"}
  /\ UNCHANGED <<socketVars, epollVars, objectVars, revents>>

\* What one send() accepts.
Accepted == Lesser(Free, Len(sendBuffer) - sent_bytes)

\* Mutants: the test for the last byte is off by one, or is missing.
SentAllLate    == sent_bytes + Accepted > Len(sendBuffer)
SentAllAtOnce  == TRUE

\* This send() hands over the last byte.
SentAll == sent_bytes + Accepted >= Len(sendBuffer)

\* send() accepts bytes. After the last one, success(this) deletes the object.
SendAccepted ==
  /\ pc = "send" /\ ~rst /\ Accepted > 0
  /\ wire' = wire \o SubSeq(sendBuffer, sent_bytes + 1, sent_bytes + Accepted)
  /\ \/ /\ SentAll
        /\ Delete(inq, "success")
        /\ pc' = "done"
     \/ /\ ~SentAll
        /\ sent_bytes' = sent_bytes + Accepted
        /\ UNCHANGED <<lost, epollVars, obj, sendBuffer, outcome, pc>>
  /\ UNCHANGED <<inq, sentSegs, fin, rst, skErr, acked, nospace>>
  /\ UNCHANGED <<requests, response, revents>>

\* send() returns -1 with EAGAIN, or 0 when nothing is left to send: the loop
\* ends.
SendBlocked ==
  /\ pc = "send" /\ ~rst /\ Accepted <= 0
  /\ nospace' = (nospace \/ Free <= 0)
  /\ pc' = "wait"
  /\ UNCHANGED <<inq, sentSegs, fin, rst, skErr, wire, acked, lost>>
  /\ UNCHANGED <<epollVars, objectVars, revents>>

\* send() on a reset connection: ECONNRESET goes to error(this). A broken
\* pipe raises SIGPIPE, because MSG_NOSIGNAL is not set and the program does
\* not ignore the signal, and ends the process.
SendBroken ==
  /\ pc = "send" /\ rst
  /\ skErr' = "none"
  /\ \/ /\ skErr = "reset"
        /\ Delete(inq, "error")
        /\ pc' = "done"
     \/ /\ skErr # "reset"
        /\ pc' = "killed"
        /\ UNCHANGED <<lost, epollVars, obj, sendBuffer, sent_bytes, outcome>>
  /\ UNCHANGED <<inq, sentSegs, fin, rst, wire, acked, nospace>>
  /\ UNCHANGED <<requests, response, revents>>

-----------------------------------------------------------------------------

Peer == (\E s \in Segment : PeerSend(s)) \/ PeerFin \/ PeerReset \/ PeerRead

Recv == RecvAccepted \/ RecvRejected \/ RecvEof \/ RecvFails \/ RecvDeleted
Send == SendAccepted \/ SendBlocked \/ SendBroken

Reactor == EpollWait \/ HandleEvent \/ Recv \/ Send

Next == Peer \/ Reactor

Spec == Init /\ [][Next]_vars

\* The reactor's thread keeps running; the peer owes nothing.
FairSpec == Spec /\ WF_vars(Reactor)

\* The network delivers and the peer reads what it was sent.
PeerReads == WF_vars(PeerRead)

-----------------------------------------------------------------------------
(* Properties.                                                             *)

\* Every variable has its type; sent_bytes is always the index of a byte
\* still to be sent, also while sendBuffer is cleared and filled again.
TypeOK ==
  /\ inq \in Seq(Segment)
  /\ sentSegs \in 0..MaxSegs
  /\ fin \in BOOLEAN /\ rst \in BOOLEAN
  /\ skErr \in {"none", "reset", "pipe"}
  /\ wire \in Seq(Nat \X (1..RespLen))
  /\ acked \in 0..Len(wire)
  /\ lost \in BOOLEAN /\ nospace \in BOOLEAN
  /\ mask \in {{}, ReadMask, WriteMask}
  /\ armed \in BOOLEAN
  /\ obj \in {"live", "deleted"}
  /\ requests \in Nat /\ response \in Nat
  /\ sendBuffer \in Seq(Nat \X (1..RespLen))
  /\ sent_bytes \in 0..(RespLen - 1)
  /\ outcome \in {"none", "success", "error"}
  /\ pc \in {"wait", "event", "recv", "send", "done", "killed", "aborted"}
  /\ revents \in SUBSET Event

\* The peer is sent a prefix of the answer to one request: the bytes of two
\* answers never mix, although a second request may replace sendBuffer and
\* write() does not reset sent_bytes.
OneAnswerOnTheWire ==
  wire = SubSeq(Serialize(response), 1, Len(wire))

\* Edge-triggered registration loses nothing: when the reactor sleeps and the
\* entry is off the ready list, the socket has none of the registered events
\* pending (a bare half-close aside), and a connection that waits for room in
\* the send buffer will be woken when there is some.
NoLostEdge ==
  (pc = "wait" /\ obj = "live" /\ ~armed) =>
     /\ Poll \cap (mask \ {"RDHUP"}) = {}
     /\ "OUT" \in mask => nospace

\* The write loop is entered only with bytes left to send: send() is never
\* called with length 0, whose result 0 the loop would take for neither
\* success nor error, leaving the connection registered forever.
WriterHasBytes ==
  pc = "send" => obj = "live" /\ sent_bytes < Len(sendBuffer)

\* When the peer reads, a connection that has an answer is eventually
\* finished, with success or with an error, or the process ends.
AnswerFinishes ==
  PeerReads => (sendBuffer # <<>> ~> (obj = "deleted" \/ pc = "killed"))

\* When the peer reads, a connection that it has shut down or reset is
\* eventually deleted, or the process ends.
DisconnectFinishes ==
  PeerReads => (fin \/ rst ~> (obj = "deleted" \/ pc = "killed"))

\* Nothing is assumed of the peer. The only way in which one that has gone
\* holds its connection for ever is an answer it does not read: there is no
\* timeout, and handleEvent ignores an EPOLLRDHUP that comes alone.
Stalled == pc = "wait" /\ response # 0 /\ Free <= 0 /\ nospace
OnlyStalledStay ==
  <>[](fin \/ rst => obj = "deleted" \/ pc = "killed" \/ Stalled)

\* The exchange that the connection implements.
phase ==
  IF obj = "deleted" THEN outcome
  ELSE IF response = 0 THEN "reading" ELSE "writing"
Exch == INSTANCE Exchange WITH answer <- response

\* The connection reads, then hands over one answer in order, and ends once,
\* as a success only when the whole answer was handed over.
ImplementsExchange == Exch!Spec

\* What the callbacks of this connection leave behind when they return. A
\* thread in the read loop entered it without an answer; one that was aborted
\* there never came out.
InReadLoop == pc \in {"recv", "aborted"}
life ==
  IF InReadLoop THEN "reading" ELSE IF obj = "deleted" THEN "deleted"
  ELSE IF response = 0 THEN "reading" ELSE "writing"
watch ==
  IF InReadLoop \/ mask = ReadMask THEN "in"
  ELSE IF mask = WriteMask THEN "out" ELSE "none"
serving == pc \notin {"killed", "aborted"}
Life == INSTANCE Lifecycle

\* However the peer's moves fall between the system calls of a callback, the
\* callback does one of three things: nothing that shows, register the socket
\* for the output of an answer, or delete the object. In particular no input is
\* read once an earlier callback has left an answer to send.
ImplementsLifecycle == Life!Spec

-----------------------------------------------------------------------------
(* Properties the comments of the repository state and the code violates.  *)

\* connection_types.h:241: after error(this) the user has deleted the object,
\* so the handler must not use it again.
NoUseAfterDelete == obj = "deleted" => pc \notin {"recv", "send"}

\* server.cpp:58: an error while sending is reported to the error callback of
\* write(); it does not end the process.
SendErrorReported == pc # "killed"

\* server.cpp:55: when the success callback runs, the response was sent: no
\* part of it is thrown away afterwards.
SuccessMeansSent == outcome = "success" /\ lost => acked = Len(wire)
=============================================================================
