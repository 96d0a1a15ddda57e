----------------------- MODULE ClientConnectionProofs -----------------------
(***************************************************************************)
(* Proofs about ClientConnection, for every size of the buffers and of the *)
(* answer and every number of segments: that two answers never mix on the  *)
(* wire, that the write loop always has bytes to send, and that the        *)
(* connection implements Exchange and Lifecycle.                           *)
(*                                                                         *)
(* OneAnswerOnTheWire is not inductive: a request that is completed when   *)
(* part of an answer was sent would replace the rest of it. The invariant  *)
(* therefore ties the registered mask to the object's buffer (Reading,     *)
(* Writing) and the reactor's position to the mask (Thread): the read loop *)
(* is entered only while the mask has EPOLLIN, hence before any byte went  *)
(* out, and write() takes EPOLLIN out of the mask for good.                *)
(***************************************************************************)
EXTENDS ClientConnection, SequenceTheorems, FiniteSetTheorems, TLAPS

Byte == Nat \X (1..RespLen)

\* Before the first request is complete.
Reading ==
  obj = "live" /\ response = 0 =>
    /\ mask = ReadMask
    /\ sendBuffer = <<>> /\ sent_bytes = 0
    /\ wire = <<>>

\* Once there is an answer: sent_bytes counts what is on the wire.
Writing ==
  obj = "live" /\ response # 0 =>
    /\ mask = WriteMask
    /\ sendBuffer = Serialize(response)
    /\ sent_bytes = Len(wire)

\* What the position of the reactor's thread tells.
Thread ==
  /\ pc \in {"wait", "event", "send"} => obj = "live"
  /\ pc = "event" => revents \subseteq mask
  /\ pc = "recv" /\ obj = "live" => wire = <<>>
  /\ pc = "send" => response # 0
  /\ obj = "live" <=> outcome = "none"

\* The wire holds the first bytes of one answer.
WirePrefix ==
  /\ Len(wire) <= RespLen
  /\ wire = SubSeq(Serialize(response), 1, Len(wire))

\* The inductive invariant.
IndInv ==
  /\ TypeOK
  /\ Reading
  /\ Writing
  /\ Thread
  /\ WirePrefix
  /\ response <= requests

-----------------------------------------------------------------------------
(* The operators on data.                                                  *)

\* The bytes of an answer, and its first n of them.
LEMMA SerializeType ==
  ASSUME NEW r \in Nat
  PROVE  /\ Serialize(r) \in Seq(Byte)
         /\ Len(Serialize(r)) = RespLen
         /\ \A n \in 0..RespLen : /\ SubSeq(Serialize(r), 1, n) \in Seq(Byte)
                                  /\ Len(SubSeq(Serialize(r), 1, n)) = n
<1>1. Serialize(r) \in [1..RespLen -> Byte] /\ DOMAIN Serialize(r) = 1..RespLen
  BY DEF Serialize, Byte
<1>2. Serialize(r) \in Seq(Byte) /\ Len(Serialize(r)) = RespLen
  BY <1>1, ConnectionAssumption
<1>3. ASSUME NEW n \in 0..RespLen
      PROVE  /\ SubSeq(Serialize(r), 1, n) \in Seq(Byte)
             /\ Len(SubSeq(Serialize(r), 1, n)) = n
  <2>1. \A i \in 1..n : Serialize(r)[i] \in Byte
    BY <1>1, ConnectionAssumption
  <2> QED
    BY <2>1, SubSeqProperties, ConnectionAssumption
<1> QED
  BY <1>2, <1>3

\* llhttp completes a natural number of requests in a buffer.
LEMMA CompletedType ==
  ASSUME NEW b \in Seq(Segment)
  PROVE  Completed(b) \in Nat
<1> DEFINE ends == {i \in DOMAIN b : b[i] = "end" /\ \A j \in 1..i : b[j] # "bad"}
<1>1. IsFiniteSet(DOMAIN b)
  BY LenProperties, FS_Interval
<1>2. IsFiniteSet(ends)
  BY <1>1, FS_Subset
<1> QED
  BY <1>2, FS_CardinalityType DEF Completed

\* recv() splits what has arrived into what it returns and the rest.
LEMMA ReceivedType ==
  ASSUME inq \in Seq(Segment)
  PROVE  Received \in Seq(Segment) /\ Remaining \in Seq(Segment)
<1> DEFINE n == Lesser(RecvMax, Len(inq))
<1>1. n \in 0..Len(inq)
  BY ConnectionAssumption, LenProperties DEF Lesser
<1>2. \A i \in 1..Len(inq) : inq[i] \in Segment
  BY ElementOfSeq
<1>3. SubSeq(inq, 1, n) \in Seq(Segment)
  BY <1>1, <1>2, SubSeqProperties
<1>4. SubSeq(inq, n + 1, Len(inq)) \in Seq(Segment)
  BY <1>1, <1>2, SubSeqProperties
<1> QED
  BY <1>3, <1>4 DEF Received, Remaining

\* One send() hands over the next bytes of the answer.
LEMMA PushedBytes ==
  ASSUME IndInv, pc = "send", Accepted > 0
  PROVE  /\ sent_bytes + Accepted \in (Len(wire) + 1)..RespLen
         /\ wire \o SubSeq(sendBuffer, sent_bytes + 1, sent_bytes + Accepted)
              = SubSeq(Serialize(response), 1, sent_bytes + Accepted)
<1>1. /\ sendBuffer = Serialize(response) /\ sent_bytes = Len(wire)
      /\ response \in Nat
      /\ wire = SubSeq(Serialize(response), 1, Len(wire))
      /\ sent_bytes \in 0..(RespLen - 1)
      /\ acked \in 0..Len(wire)
  BY DEF IndInv, Thread, Writing, WirePrefix, TypeOK
<1>2. /\ Serialize(response) \in Seq(Byte)
      /\ Len(Serialize(response)) = RespLen
  BY <1>1, SerializeType
<1>3. Accepted \in Int /\ Accepted <= RespLen - sent_bytes
  BY <1>1, <1>2, ConnectionAssumption DEF Accepted, Free, InFlight, Lesser
<1>4. sent_bytes + Accepted \in (sent_bytes + 1)..RespLen
  BY <1>1, <1>3, ConnectionAssumption
<1>5. SubSeq(Serialize(response), 1, sent_bytes)
        \o SubSeq(Serialize(response), sent_bytes + 1, sent_bytes + Accepted)
        = SubSeq(Serialize(response), 1, sent_bytes + Accepted)
  <2>1. /\ 1 \in 1..(Len(Serialize(response)) + 1)
        /\ sent_bytes \in (1 - 1)..Len(Serialize(response))
        /\ sent_bytes + Accepted \in sent_bytes..Len(Serialize(response))
    BY <1>1, <1>2, <1>4, ConnectionAssumption
  <2> QED
    BY <1>2, <2>1, ConcatAdjacentSubSeq
<1> QED
  BY <1>1, <1>4, <1>5

-----------------------------------------------------------------------------
(* The invariant is inductive.                                             *)

\* The initial state satisfies the inductive invariant.
LEMMA InitInv == Init => IndInv
<1> SUFFICES ASSUME Init PROVE IndInv
  OBVIOUS
<1>1. /\ <<>> \in Seq(Segment) /\ <<>> \in Seq(Byte) /\ Len(<<>>) = 0
      /\ 0 \in 0..MaxSegs /\ 0 \in 0..(RespLen - 1)
  BY ConnectionAssumption, EmptySeq
<1>2. TypeOK
  <2>1. inq \in Seq(Segment) /\ wire \in Seq(Byte) /\ sendBuffer \in Seq(Byte)
    BY <1>1 DEF Init
  <2>2. /\ acked \in 0..Len(wire) /\ sentSegs \in 0..MaxSegs
        /\ sent_bytes \in 0..(RespLen - 1)
    BY <1>1 DEF Init
  <2>3. /\ fin \in BOOLEAN /\ rst \in BOOLEAN /\ lost \in BOOLEAN
        /\ nospace \in BOOLEAN /\ armed \in BOOLEAN
    BY DEF Init
  <2>4. /\ mask \in {{}, ReadMask, WriteMask}
        /\ revents \in SUBSET Event
        /\ requests \in Nat /\ response \in Nat
    BY DEF Init
  <2>5. /\ skErr \in {"none", "reset", "pipe"} /\ obj \in {"live", "deleted"}
        /\ outcome \in {"none", "success", "error"}
        /\ pc \in {"wait", "event", "recv", "send", "done", "killed", "aborted"}
    BY DEF Init
  <2> QED
    BY <2>1, <2>2, <2>3, <2>4, <2>5 DEF TypeOK, Byte
<1>3. WirePrefix
  BY ConnectionAssumption, EmptySeq, SubSeqEmpty DEF Init, WirePrefix
<1> QED
  BY <1>2, <1>3 DEF Init, IndInv, Reading, Writing, Thread

\* A wakeup preserves the type of armed.
LEMMA WakeType ==
  ASSUME NEW e, Wake(e)
  PROVE  armed' \in BOOLEAN
<1>1. CASE armed \/ e \in mask
  BY <1>1 DEF Wake
<1>2. CASE ~(armed \/ e \in mask)
  BY <1>2 DEF Wake
<1> QED
  BY <1>1, <1>2

\* The peer and the network leave the object and the thread alone.
LEMMA PeerInv ==
  ASSUME IndInv, Peer
  PROVE  IndInv'
<1>1. /\ UNCHANGED <<wire, mask, objectVars, threadVars>>
  BY DEF Peer, PeerSend, PeerFin, PeerReset, PeerRead
<1>2. TypeOK'
  <2>1. CASE \E seg \in Segment : PeerSend(seg)
    <3>1. PICK seg \in Segment : PeerSend(seg)
      BY <2>1
    <3>2. armed' \in BOOLEAN
      BY <3>1, WakeType DEF PeerSend
    <3>3. inq' \in Seq(Segment) /\ sentSegs' \in 0..MaxSegs
      BY <3>1, AppendProperties, ConnectionAssumption
      DEF IndInv, TypeOK, PeerSend
    <3> QED
      BY <3>1, <3>2, <3>3
      DEF IndInv, TypeOK, PeerSend, objectVars, threadVars
  <2>2. CASE PeerFin \/ PeerReset
    <3>1. armed' \in BOOLEAN
      BY <2>2, WakeType DEF PeerFin, PeerReset
    <3>2. fin' \in BOOLEAN /\ rst' \in BOOLEAN /\ skErr' \in {"none", "reset", "pipe"}
      BY <2>2 DEF IndInv, TypeOK, PeerFin, PeerReset
    <3> QED
      BY <2>2, <3>1, <3>2
      DEF IndInv, TypeOK, PeerFin, PeerReset, objectVars, threadVars
  <2>3. CASE PeerRead
    <3>1. armed' \in BOOLEAN
      BY <2>3, WakeType DEF IndInv, TypeOK, PeerRead
    <3>2. acked' \in 0..Len(wire)
      BY <2>3, LenProperties DEF IndInv, TypeOK, PeerRead, InFlight
    <3> QED
      BY <2>3, <3>1, <3>2
      DEF IndInv, TypeOK, PeerRead, objectVars, threadVars
  <2> QED
    BY <2>1, <2>2, <2>3 DEF Peer
<1> QED
  BY <1>1, <1>2
  DEF IndInv, Reading, Writing, Thread, WirePrefix, objectVars, threadVars

\* epoll_wait reports registered events only.
LEMMA EpollWaitInv ==
  ASSUME IndInv, EpollWait
  PROVE  IndInv'
<1>1. TypeOK'
  BY DEF IndInv, TypeOK, EpollWait, Poll, objectVars
<1> QED
  BY <1>1
  DEF IndInv, EpollWait, Reading, Writing, Thread, WirePrefix, objectVars

\* `delete conn' preserves the types.
LEMMA DeleteType ==
  ASSUME NEW unread, Delete(unread, "error") \/ Delete(unread, "success")
  PROVE  /\ obj' = "deleted" /\ outcome' \in {"success", "error"}
         /\ lost' \in BOOLEAN /\ mask' = {} /\ armed' = FALSE
         /\ sendBuffer' = <<>> /\ sendBuffer' \in Seq(Byte)
         /\ sent_bytes' = 0 /\ sent_bytes' \in 0..(RespLen - 1)
<1>1. (unread # <<>>) \in BOOLEAN
  OBVIOUS
<1>2. <<>> \in Seq(Byte) /\ 0 \in 0..(RespLen - 1)
  BY ConnectionAssumption, EmptySeq
<1> QED
  BY <1>1, <1>2 DEF Delete

\* handleEvent: the read loop is entered before anything was sent.
LEMMA HandleEventInv ==
  ASSUME IndInv, HandleEvent
  PROVE  IndInv'
<1>1. CASE "ERR" \in revents
  <2>1. Delete(inq, "error") /\ pc' = "done"
    BY <1>1 DEF HandleEvent
  <2> QED
    BY <2>1, DeleteType
    DEF HandleEvent, IndInv, TypeOK, Reading, Writing, Thread, WirePrefix, Byte
<1>2. CASE "ERR" \notin revents
  <2>1. pc' = "recv" => response = 0
    BY <1>2
    DEF HandleEvent, IndInv, Thread, Writing, WriteMask
  <2>2. pc' = "send" => response # 0
    BY <1>2
    DEF HandleEvent, IndInv, Thread, Reading, ReadMask
  <2> QED
    BY <1>2, <2>1, <2>2
    DEF HandleEvent, IndInv, TypeOK, Reading, Writing, Thread, WirePrefix,
        epollVars
<1> QED
  BY <1>1, <1>2

\* recv() returns accepted data: an answer may take the place of another one,
\* of which nothing was sent.
LEMMA AcceptInv ==
  ASSUME IndInv, RecvAccepted
  PROVE  IndInv'
<1>1. /\ pc = "recv" /\ obj = "live"
      /\ inq' = Remaining
      /\ requests' = requests + Completed(Received)
      /\ pc' = "recv"
      /\ UNCHANGED <<sentSegs, fin, rst, skErr, wire, acked, lost, nospace>>
      /\ UNCHANGED <<obj, sent_bytes, outcome, revents>>
  BY DEF RecvAccepted, Accept
<1>2. inq' \in Seq(Segment) /\ Completed(Received) \in Nat
  BY <1>1, ReceivedType, CompletedType DEF IndInv, TypeOK
<1>3. requests' \in Nat /\ requests' >= requests
  <2>1. requests \in Nat
    BY DEF IndInv, TypeOK
  <2>2. requests' \in Nat /\ requests' >= requests
    BY <1>1, <1>2, <2>1
  <2> QED
    BY <2>2
<1>4. wire = <<>> /\ Len(wire) = 0 /\ sent_bytes = 0
  BY <1>1, EmptySeq DEF IndInv, Thread, Reading, Writing
<1>5. CASE Completed(Received) = 0
  <2>1. UNCHANGED <<response, sendBuffer, epollVars>>
    BY <1>5 DEF RecvAccepted, Accept
  <2>2. TypeOK'
    BY <1>1, <1>2, <1>3, <2>1 DEF IndInv, TypeOK, epollVars
  <2>3. Reading' /\ Writing' /\ Thread' /\ WirePrefix'
    BY <1>1, <2>1
    DEF IndInv, Reading, Writing, Thread, WirePrefix, epollVars
  <2>4. response' <= requests'
    BY <1>3, <2>1 DEF IndInv, TypeOK
  <2> QED
    BY <2>2, <2>3, <2>4 DEF IndInv
<1>6. CASE Completed(Received) > 0
  <2>1. Respond(requests')
    BY <1>6 DEF RecvAccepted, Accept
  <2>2. /\ response' = requests' /\ response' # 0
        /\ sendBuffer' = Serialize(response')
        /\ mask' = WriteMask
        /\ armed' \in BOOLEAN
    BY <1>1, <1>2, <1>3, <1>6, <2>1 DEF Respond, IndInv, TypeOK
  <2>3. sendBuffer' \in Seq(Byte)
    BY <1>3, <2>2, SerializeType
  <2>4. WirePrefix'
    BY <1>1, <1>4, SubSeqEmpty, ConnectionAssumption DEF WirePrefix
  <2> QED
    BY <1>1, <1>2, <1>3, <1>4, <2>2, <2>3, <2>4
    DEF IndInv, TypeOK, Reading, Writing, Thread, Byte
<1> QED
  BY <1>2, <1>5, <1>6

\* recv() returns rejected data: the object is deleted, and nothing was sent.
LEMMA RejectInv ==
  ASSUME IndInv, RecvRejected
  PROVE  IndInv'
<1>1. /\ pc = "recv" /\ obj = "live"
      /\ inq' = Remaining
      /\ requests' = requests + Completed(Received)
      /\ response' = IF Completed(Received) = 0 THEN response ELSE requests'
      /\ Delete(Remaining, "error")
      /\ UNCHANGED <<sentSegs, fin, rst, skErr, wire, acked, nospace>>
      /\ UNCHANGED <<pc, revents>>
  BY DEF RecvRejected, threadVars
<1>2. inq' \in Seq(Segment) /\ Completed(Received) \in Nat
  BY <1>1, ReceivedType, CompletedType DEF IndInv, TypeOK
<1>3. /\ requests' \in Nat /\ response' \in Nat /\ response' <= requests'
  <2>1. requests \in Nat /\ response \in 0..requests
    BY DEF IndInv, TypeOK
  <2>2. /\ requests' \in Nat /\ requests' >= requests
        /\ response' \in Nat /\ response' <= requests'
    BY <1>1, <1>2, <2>1
  <2> QED
    BY <2>2
<1>4. wire = <<>> /\ Len(wire) = 0
  BY <1>1, EmptySeq DEF IndInv, Thread
<1>5. WirePrefix'
  BY <1>1, <1>4, SubSeqEmpty, ConnectionAssumption DEF WirePrefix
<1> QED
  BY <1>1, <1>2, <1>3, <1>5, DeleteType
  DEF IndInv, TypeOK, Reading, Writing, Thread, Byte

\* The other ways recv() returns.
LEMMA RecvInv ==
  ASSUME IndInv, RecvEof \/ RecvFails \/ RecvDeleted
  PROVE  IndInv'
<1>1. CASE RecvEof
  <2>1. Delete(inq, "error")
    BY <1>1 DEF RecvEof
  <2> QED
    BY <1>1, <2>1, DeleteType
    DEF RecvEof, IndInv, TypeOK, Reading, Writing, Thread, WirePrefix, Byte
<1>2. CASE RecvFails
  <2>1. TypeOK'
    BY <1>2 DEF RecvFails, IndInv, TypeOK, epollVars, objectVars
  <2> QED
    BY <1>2, <2>1
    DEF RecvFails, IndInv, Reading, Writing, Thread, WirePrefix, epollVars,
        objectVars
<1>3. CASE RecvDeleted
  <2>1. TypeOK'
    BY <1>3 DEF RecvDeleted, IndInv, TypeOK, socketVars, epollVars, objectVars
  <2> QED
    BY <1>3, <2>1
    DEF RecvDeleted, IndInv, Reading, Writing, Thread, WirePrefix, socketVars,
        epollVars, objectVars
<1> QED
  BY <1>1, <1>2, <1>3

\* send() accepts bytes: the wire grows by the next bytes of the same answer.
LEMMA SendAcceptedInv ==
  ASSUME IndInv, SendAccepted
  PROVE  IndInv'
<1> DEFINE n == sent_bytes + Accepted
<1>1. /\ pc = "send" /\ Accepted > 0
      /\ UNCHANGED <<inq, sentSegs, fin, rst, skErr, acked, nospace>>
      /\ UNCHANGED <<requests, response, revents>>
  BY DEF SendAccepted
<1>2. /\ n \in (Len(wire) + 1)..RespLen
      /\ wire' = SubSeq(Serialize(response), 1, n)
  BY <1>1, PushedBytes DEF SendAccepted
<1>3. /\ response \in Nat /\ Len(wire) \in Nat
      /\ sendBuffer = Serialize(response)
      /\ Len(sendBuffer) = RespLen
      /\ obj = "live"
  BY <1>1, LenProperties, SerializeType
  DEF IndInv, TypeOK, Thread, Writing, Byte
<1>4. wire' \in Seq(Byte) /\ Len(wire') = n
  BY <1>2, <1>3, SerializeType, ConnectionAssumption
<1>5. WirePrefix' /\ acked' \in 0..Len(wire')
  <2>1. acked' \in 0..Len(wire') /\ Len(wire') <= RespLen
    BY <1>1, <1>2, <1>3, <1>4, ConnectionAssumption DEF IndInv, TypeOK
  <2>2. wire' = SubSeq(Serialize(response'), 1, Len(wire'))
    BY <1>1, <1>2, <1>4 DEF Serialize
  <2> QED
    BY <2>1, <2>2 DEF WirePrefix
<1>6. CASE SentAll
  <2>1. Delete(inq, "success") /\ pc' = "done"
    BY <1>6 DEF SendAccepted
  <2> QED
    BY <1>1, <1>4, <1>5, <2>1, DeleteType
    DEF IndInv, TypeOK, Reading, Writing, Thread, Byte
<1>7. CASE ~SentAll
  <2>1. /\ sent_bytes' = n
        /\ UNCHANGED <<lost, mask, armed, obj, sendBuffer, outcome, pc>>
    BY <1>7 DEF SendAccepted, epollVars
  <2>2. n < RespLen
    BY <1>2, <1>3, <1>7, ConnectionAssumption DEF SentAll
  <2>3. sent_bytes' \in 0..(RespLen - 1)
    BY <1>2, <1>3, <2>1, <2>2, ConnectionAssumption
  <2> QED
    BY <1>1, <1>4, <1>5, <2>1, <2>3
    DEF IndInv, TypeOK, Reading, Writing, Thread, Byte
<1> QED
  BY <1>6, <1>7

\* The other ways send() returns.
LEMMA SendInv ==
  ASSUME IndInv, SendBlocked \/ SendBroken
  PROVE  IndInv'
<1>1. CASE SendBlocked
  BY <1>1
  DEF SendBlocked, IndInv, TypeOK, Reading, Writing, Thread, WirePrefix,
      epollVars, objectVars
<1>2. CASE SendBroken /\ skErr = "reset"
  <2>1. Delete(inq, "error") /\ pc' = "done"
    BY <1>2 DEF SendBroken
  <2> QED
    BY <1>2, <2>1, DeleteType
    DEF SendBroken, IndInv, TypeOK, Reading, Writing, Thread, WirePrefix, Byte
<1>3. CASE SendBroken /\ skErr # "reset"
  BY <1>3
  DEF SendBroken, IndInv, TypeOK, Reading, Writing, Thread, WirePrefix,
      epollVars
<1> QED
  BY <1>1, <1>2, <1>3

\* Every step preserves the inductive invariant.
LEMMA NextInv == IndInv /\ [Next]_vars => IndInv'
<1> SUFFICES ASSUME IndInv, [Next]_vars
             PROVE  IndInv'
  OBVIOUS
<1>1. CASE UNCHANGED vars
  <2>1. TypeOK'
    BY <1>1
    DEF vars, socketVars, epollVars, objectVars, threadVars, IndInv, TypeOK
  <2> QED
    BY <1>1, <2>1
    DEF vars, socketVars, epollVars, objectVars, threadVars, IndInv, Reading,
        Writing, Thread, WirePrefix
<1> QED
  BY <1>1, PeerInv, EpollWaitInv, HandleEventInv, AcceptInv, RejectInv, RecvInv,
     SendAcceptedInv, SendInv
  DEF Next, Reactor, Recv, Send

\* The inductive invariant holds in every reachable state.
THEOREM Invariance == Spec => []IndInv
<1> QED
  BY InitInv, NextInv, PTL DEF Spec

\* Type correctness: sent_bytes (connection_types.h:47) is always the index of
\* a byte still to be sent.
THEOREM TypeCorrect == Spec => []TypeOK
<1>1. IndInv => TypeOK
  BY DEF IndInv
<1> QED
  BY <1>1, Invariance, PTL

\* However requests are pipelined, the peer is sent the first bytes of the
\* answer to one of them: write() (connection_types.h:215) never replaces the
\* buffer once a byte of it went out.
THEOREM OneAnswerIsSent == Spec => []OneAnswerOnTheWire
<1>1. IndInv => OneAnswerOnTheWire
  BY DEF IndInv, WirePrefix, OneAnswerOnTheWire
<1> QED
  BY <1>1, Invariance, PTL

\* The write loop (connection_types.h:262) is entered with bytes left to send:
\* send() is never called with length 0.
THEOREM WriterIsNotIdle == Spec => []WriterHasBytes
<1>1. IndInv => WriterHasBytes
  <2> SUFFICES ASSUME IndInv, pc = "send"
               PROVE  obj = "live" /\ sent_bytes < Len(sendBuffer)
    BY DEF WriterHasBytes
  <2>1. /\ obj = "live" /\ sendBuffer = Serialize(response)
        /\ response \in Nat /\ sent_bytes \in 0..(RespLen - 1)
    BY DEF IndInv, TypeOK, Thread, Writing
  <2> QED
    BY <2>1, SerializeType, ConnectionAssumption
<1> QED
  BY <1>1, Invariance, PTL

-----------------------------------------------------------------------------
(* ClientConnection implements Exchange. Only five kinds of step are not   *)
(* stutters there: a completed request, accepted bytes, and the three ways *)
(* to end with an error.                                                   *)

\* Steps that leave the exchange as it is.
LEMMA Stutter ==
  ASSUME UNCHANGED <<obj, outcome, response, wire>>
  PROVE  UNCHANGED Exch!evars
BY DEF Exch!evars, phase

\* A live connection is reading or writing.
LEMMA LivePhase ==
  ASSUME obj = "live"
  PROVE  phase \in {"reading", "writing"}
BY DEF phase

\* Deleting a live connection with "error" is the abstract failure, whether
\* or not requests were completed in the same step before anything was sent.
LEMMA DeleteFails ==
  ASSUME obj = "live", NEW unread, Delete(unread, "error"), UNCHANGED wire,
         \/ UNCHANGED response
         \/ wire = <<>> /\ response' \in Nat /\ response' > response
  PROVE  Exch!Fail
<1>1. phase \in {"reading", "writing"}
  BY LivePhase
<1>2. phase' = "error"
  BY DEF Delete, phase
<1> QED
  BY <1>1, <1>2 DEF Exch!Fail, Exch!NextAnswer

\* A recv() that completes requests is the abstract Answer.
LEMMA AcceptRefines ==
  ASSUME IndInv, RecvAccepted
  PROVE  Exch!Answer \/ UNCHANGED Exch!evars
<1>1. /\ pc = "recv" /\ obj = "live"
      /\ requests' = requests + Completed(Received)
      /\ UNCHANGED <<wire, obj, outcome>>
  BY DEF RecvAccepted, Accept
<1>2. /\ Completed(Received) \in Nat
      /\ requests \in Nat /\ response \in 0..requests
  BY ReceivedType, CompletedType DEF IndInv, TypeOK
<1>3. CASE Completed(Received) = 0
  BY <1>1, <1>3, Stutter DEF RecvAccepted, Accept
<1>4. CASE Completed(Received) > 0
  <2>1. response' = requests'
    BY <1>4 DEF RecvAccepted, Accept, Respond
  <2>2. response' \in Nat /\ response' > response /\ response' # 0
    BY <1>1, <1>2, <1>4, <2>1
  <2>3. phase' = "writing"
    BY <1>1, <2>2 DEF phase
  <2>4. wire = <<>>
    BY <1>1 DEF IndInv, Thread
  <2> QED
    BY <1>1, <2>2, <2>3, <2>4, LivePhase DEF Exch!Answer, Exch!NextAnswer
<1> QED
  BY <1>2, <1>3, <1>4

\* A recv() whose data is rejected is the abstract Fail.
LEMMA RejectRefines ==
  ASSUME IndInv, RecvRejected
  PROVE  Exch!Fail
<1>1. /\ pc = "recv" /\ obj = "live"
      /\ requests' = requests + Completed(Received)
      /\ response' = IF Completed(Received) = 0 THEN response ELSE requests'
      /\ Delete(Remaining, "error")
      /\ UNCHANGED wire
  BY DEF RecvRejected
<1>2. /\ Completed(Received) \in Nat
      /\ requests \in Nat /\ response \in 0..requests
  BY ReceivedType, CompletedType DEF IndInv, TypeOK
<1>3. wire = <<>>
  BY <1>1 DEF IndInv, Thread
<1>4. \/ UNCHANGED response
      \/ response' \in Nat /\ response' > response
  BY <1>1, <1>2
<1> QED
  BY <1>1, <1>3, <1>4, DeleteFails

\* A send() that accepts bytes is the abstract Push.
LEMMA SendRefines ==
  ASSUME IndInv, SendAccepted
  PROVE  Exch!Push
<1> DEFINE n == sent_bytes + Accepted
<1>1. pc = "send" /\ Accepted > 0 /\ UNCHANGED response
  BY DEF SendAccepted
<1>2. /\ n \in (Len(wire) + 1)..RespLen
      /\ wire' = SubSeq(Serialize(response), 1, n)
  BY <1>1, PushedBytes DEF SendAccepted
<1>3. /\ obj = "live" /\ response # 0 /\ Len(sendBuffer) = RespLen
      /\ Len(wire) \in Nat
  BY <1>1, SerializeType, LenProperties
  DEF IndInv, TypeOK, Thread, Writing, Byte
<1>4. wire' = Exch!PrefixOf(response, n)
  BY <1>2 DEF Exch!PrefixOf, Exch!Serialized, Serialize
<1>5. phase = "writing"
  BY <1>3 DEF phase
<1>6. phase' = IF n = RespLen THEN "success" ELSE "writing"
  <2>1. CASE SentAll
    <3>1. n = RespLen
      BY <1>2, <1>3, <2>1, ConnectionAssumption DEF SentAll
    <3>2. Delete(inq, "success")
      BY <2>1 DEF SendAccepted
    <3> QED
      BY <3>1, <3>2 DEF Delete, phase
  <2>2. CASE ~SentAll
    <3>1. n # RespLen
      BY <1>2, <1>3, <2>2, ConnectionAssumption DEF SentAll
    <3>2. UNCHANGED <<obj, response>>
      BY <2>2 DEF SendAccepted
    <3> QED
      BY <1>3, <3>1, <3>2 DEF phase
  <2> QED
    BY <2>1, <2>2
<1> QED
  BY <1>1, <1>2, <1>4, <1>5, <1>6 DEF Exch!Push

\* Every step of the connection is a step of the exchange or a stutter.
LEMMA StepRefines ==
  ASSUME IndInv, [Next]_vars
  PROVE  [Exch!Next]_(Exch!evars)
<1>1. CASE Peer \/ EpollWait \/ RecvFails \/ RecvDeleted \/ SendBlocked \/ UNCHANGED vars
  <2>1. UNCHANGED <<obj, outcome, response, wire>>
    BY <1>1
    DEF Peer, PeerSend, PeerFin, PeerReset, PeerRead, EpollWait, RecvFails,
        RecvDeleted, SendBlocked, vars, socketVars, objectVars
  <2> QED
    BY <2>1, Stutter
<1>2. CASE HandleEvent
  <2>1. obj = "live" /\ UNCHANGED <<response, wire>>
    BY <1>2 DEF HandleEvent, IndInv, Thread
  <2>2. CASE Delete(inq, "error")
    BY <2>1, <2>2, DeleteFails DEF Exch!Next
  <2>3. CASE UNCHANGED <<obj, outcome>>
    BY <2>1, <2>3, Stutter
  <2> QED
    BY <1>2, <2>2, <2>3 DEF HandleEvent
<1>3. CASE RecvAccepted
  BY <1>3, AcceptRefines DEF Exch!Next
<1>4. CASE RecvRejected
  BY <1>4, RejectRefines DEF Exch!Next
<1>5. CASE RecvEof
  <2>1. obj = "live" /\ Delete(inq, "error") /\ UNCHANGED <<response, wire>>
    BY <1>5 DEF RecvEof
  <2> QED
    BY <2>1, DeleteFails DEF Exch!Next
<1>6. CASE SendAccepted
  BY <1>6, SendRefines DEF Exch!Next
<1>7. CASE SendBroken
  <2>1. obj = "live" /\ UNCHANGED <<response, wire>>
    BY <1>7 DEF SendBroken, IndInv, Thread
  <2>2. CASE Delete(inq, "error")
    BY <2>1, <2>2, DeleteFails DEF Exch!Next
  <2>3. CASE UNCHANGED <<obj, outcome>>
    BY <2>1, <2>3, Stutter
  <2> QED
    BY <1>7, <2>2, <2>3 DEF SendBroken
<1> QED
  BY <1>1, <1>2, <1>3, <1>4, <1>5, <1>6, <1>7 DEF Next, Reactor, Recv, Send

\* handleEvent, write() and the callbacks of server.cpp implement the exchange:
\* one answer, in order, and one end, a success only after the last byte.
THEOREM ExchangeIsImplemented == Spec => ImplementsExchange
<1>1. Init => Exch!Init
  BY DEF Init, Exch!Init, phase
<1>2. IndInv /\ [Next]_vars => [Exch!Next]_(Exch!evars)
  BY StepRefines
<1> QED
  BY <1>1, <1>2, Invariance, PTL DEF Spec, ImplementsExchange, Exch!Spec

-----------------------------------------------------------------------------
(* The life of the connection, as the rest of the server sees it.          *)

\* A deleted object's socket is closed, hence not watched.
Unwatched == obj = "deleted" => mask = {}

\* A descriptor that no live object has is not watched.
LEMMA UnwatchedInv == Spec => []Unwatched
<1>1. Init => Unwatched
  BY DEF Init, Unwatched
<1>2. Unwatched /\ [Next]_vars => Unwatched'
  <2> SUFFICES ASSUME Unwatched, [Next]_vars
               PROVE  Unwatched'
    OBVIOUS
  <2>1. CASE Peer \/ EpollWait \/ RecvFails \/ RecvDeleted \/ SendBlocked \/ UNCHANGED vars
    BY <2>1
    DEF Unwatched, Peer, PeerSend, PeerFin, PeerReset, PeerRead, EpollWait, RecvFails,
        RecvDeleted, SendBlocked, vars, socketVars, epollVars, objectVars
  <2>2. CASE HandleEvent \/ SendAccepted \/ SendBroken
    BY <2>2
    DEF Unwatched, HandleEvent, SendAccepted, SendBroken, Delete, epollVars
  <2>3. CASE RecvAccepted
    BY <2>3 DEF Unwatched, RecvAccepted, Accept
  <2>4. CASE RecvRejected \/ RecvEof
    BY <2>4 DEF Unwatched, RecvRejected, RecvEof, Delete
  <2> QED
    BY <2>1, <2>2, <2>3, <2>4 DEF Next, Reactor, Recv, Send
<1> QED
  BY <1>1, <1>2, PTL DEF Spec

\* Outside the read loop a live connection is registered for what it does.
LEMMA LifeOutside ==
  ASSUME IndInv, obj = "live", ~InReadLoop
  PROVE  <<life, watch>> \in {<<"reading", "in">>, <<"writing", "out">>}
<1>1. ReadMask # WriteMask
  BY DEF ReadMask, WriteMask
<1> QED
  BY <1>1 DEF IndInv, Reading, Writing, life, watch

\* A callback that returns after deleting the object is the abstract End.
LEMMA LifeEnds ==
  ASSUME serving, <<life, watch>> \in {<<"reading", "in">>, <<"writing", "out">>},
         pc' = "done", obj' = "deleted", mask' = {}
  PROVE  Life!End
<1>1. ReadMask # {} /\ WriteMask # {}
  BY DEF ReadMask, WriteMask
<1>2. life' = "deleted" /\ watch' = "none" /\ serving' = TRUE
  BY <1>1 DEF life, watch, serving, InReadLoop
<1> QED
  BY <1>2 DEF Life!End, serving

\* A step that leaves the object and its registration alone and neither enters nor
\* leaves the read loop is not seen.
LEMMA LifeStutters ==
  ASSUME UNCHANGED <<obj, response, mask>>, InReadLoop' = InReadLoop,
         serving' = serving
  PROVE  UNCHANGED Life!lvars
BY DEF Life!lvars, life, watch

\* handleEvent deletes the object, enters one of the loops or returns. It enters
\* the read loop only without an answer.
LEMMA HandleLife ==
  ASSUME IndInv, HandleEvent
  PROVE  Life!End \/ UNCHANGED Life!lvars
<1>1. pc = "event" /\ obj = "live" /\ revents \subseteq mask
  BY DEF HandleEvent, IndInv, Thread
<1>2. ~InReadLoop /\ serving
  BY <1>1 DEF InReadLoop, serving
<1>3. CASE Delete(inq, "error") /\ pc' = "done"
  BY <1>1, <1>2, <1>3, LifeOutside, LifeEnds DEF Delete
<1>4. CASE "IN" \in revents /\ pc' = "recv" /\ UNCHANGED <<obj, response, mask>>
  <2>1. response = 0 /\ mask = ReadMask
    BY <1>1, <1>4 DEF IndInv, Reading, Writing, WriteMask
  <2>2. life = "reading" /\ watch = "in"
    BY <1>1, <1>2, <2>1 DEF life, watch
  <2>3. life' = "reading" /\ watch' = "in" /\ serving' = serving
    BY <1>1, <1>4 DEF life, watch, serving, InReadLoop
  <2> QED
    BY <2>2, <2>3 DEF Life!lvars
<1>5. CASE pc' \in {"send", "wait"} /\ UNCHANGED <<obj, response, mask>>
  BY <1>1, <1>5, LifeStutters DEF InReadLoop, serving
<1> QED
  BY <1>3, <1>4, <1>5 DEF HandleEvent, epollVars

\* The read loop ends: what it did shows all at once.
LEMMA ReadLife ==
  ASSUME IndInv, Unwatched, Recv
  PROVE  [Life!Next]_(Life!lvars)
<1>1. pc = "recv" /\ life = "reading" /\ watch = "in" /\ serving = TRUE
  BY DEF Recv, RecvAccepted, Accept, RecvRejected, RecvEof, RecvFails, RecvDeleted,
         life, watch, serving, InReadLoop
<1>2. CASE RecvAccepted \/ RecvRejected
  <2>1. pc' = "recv"
    BY <1>1, <1>2 DEF RecvAccepted, Accept, RecvRejected, threadVars
  <2>2. life' = "reading" /\ watch' = "in" /\ serving' = TRUE
    BY <2>1 DEF life, watch, serving, InReadLoop
  <2> QED
    BY <1>1, <2>2 DEF Life!lvars
<1>3. CASE RecvEof
  <2>1. pc' = "done" /\ obj' = "deleted" /\ mask' = {}
    BY <1>3 DEF RecvEof, Delete
  <2> QED
    BY <1>1, <2>1, LifeEnds DEF Life!Next
<1>4. CASE RecvFails
  <2>1. pc' = "wait" /\ obj = "live" /\ UNCHANGED <<obj, response, mask>>
    BY <1>4 DEF RecvFails, objectVars, epollVars
  <2>2. serving' = TRUE
    BY <2>1 DEF serving
  <2>3. \/ life' = "reading" /\ watch' = "in"
        \/ life' = "writing" /\ watch' = "out"
    <3>1. CASE response = 0
      BY <2>1, <3>1 DEF IndInv, Reading, life, watch, InReadLoop
    <3>2. CASE response # 0
      <4>1. WriteMask # ReadMask
        BY DEF ReadMask, WriteMask
      <4> QED
        BY <2>1, <3>2, <4>1 DEF IndInv, Writing, life, watch, InReadLoop
    <3> QED
      BY <3>1, <3>2
  <2> QED
    BY <1>1, <2>2, <2>3 DEF Life!Next, Life!Respond, Life!lvars
<1>5. CASE RecvDeleted
  <2>1. obj = "deleted" /\ mask = {} /\ UNCHANGED <<obj, mask>>
    BY <1>5 DEF RecvDeleted, Unwatched, objectVars, epollVars
  <2>2. CASE pc' = "done"
    BY <1>1, <2>1, <2>2, LifeEnds DEF Life!Next
  <2>3. CASE pc' = "aborted"
    <3>1. life' = "reading" /\ watch' = "in" /\ serving' = FALSE
      BY <2>3 DEF life, watch, serving, InReadLoop
    <3> QED
      BY <1>1, <3>1 DEF Life!Next, Life!Stop
  <2> QED
    BY <1>5, <2>2, <2>3 DEF RecvDeleted
<1> QED
  BY <1>2, <1>3, <1>4, <1>5 DEF Recv

\* One send() goes on, ends the connection, or ends the process.
LEMMA SendLife ==
  ASSUME IndInv, Send
  PROVE  [Life!Next]_(Life!lvars)
<1>1. pc = "send" /\ obj = "live"
  BY DEF Send, SendAccepted, SendBlocked, SendBroken, IndInv, Thread
<1>2. /\ ~InReadLoop /\ serving = TRUE
      /\ <<life, watch>> \in {<<"reading", "in">>, <<"writing", "out">>}
  BY <1>1, LifeOutside DEF InReadLoop, serving
<1>3. CASE pc' = "done" /\ obj' = "deleted" /\ mask' = {}
  BY <1>2, <1>3, LifeEnds DEF Life!Next
<1>4. CASE pc' \in {"send", "wait"} /\ UNCHANGED <<obj, response, mask>>
  BY <1>1, <1>4, LifeStutters DEF InReadLoop, serving
<1>5. CASE pc' = "killed" /\ UNCHANGED <<obj, response, mask>>
  <2>1. life' = life /\ watch' = watch /\ serving' = FALSE
    BY <1>2, <1>5 DEF life, watch, serving, InReadLoop
  <2> QED
    BY <1>2, <2>1 DEF Life!Next, Life!Stop
<1> QED
  BY <1>1, <1>3, <1>4, <1>5
  DEF Send, SendAccepted, SendBlocked, SendBroken, Delete, objectVars, epollVars

\* Every step of the connection is one of its life or does not show.
LEMMA LifeStep ==
  ASSUME IndInv, Unwatched, [Next]_vars
  PROVE  [Life!Next]_(Life!lvars)
<1>1. CASE Peer \/ UNCHANGED vars
  <2>1. UNCHANGED <<obj, response, mask, pc>>
    BY <1>1
    DEF Peer, PeerSend, PeerFin, PeerReset, PeerRead, vars, objectVars, epollVars,
        threadVars
  <2> QED
    BY <2>1, LifeStutters DEF InReadLoop, serving
<1>2. CASE EpollWait
  <2>1. /\ UNCHANGED <<obj, response, mask>>
        /\ pc = "wait" /\ pc' \in {"wait", "event"}
    BY <1>2 DEF EpollWait, objectVars
  <2> QED
    BY <2>1, LifeStutters DEF InReadLoop, serving
<1>3. CASE HandleEvent
  BY <1>3, HandleLife DEF Life!Next
<1>4. CASE Recv
  BY <1>4, ReadLife
<1>5. CASE Send
  BY <1>5, SendLife
<1> QED
  BY <1>1, <1>2, <1>3, <1>4, <1>5 DEF Next, Reactor

\* A callback of the connection, whatever the peer does between its system calls,
\* leaves the object and its registration as one step of Lifecycle does.
THEOREM LifecycleIsImplemented == Spec => ImplementsLifecycle
<1>1. Init => Life!Init
  BY DEF Init, Life!Init, life, watch, serving, InReadLoop
<1>2. IndInv /\ Unwatched /\ [Next]_vars => [Life!Next]_(Life!lvars)
  BY LifeStep
<1> QED
  BY <1>1, <1>2, Invariance, UnwatchedInv, PTL
  DEF Spec, ImplementsLifecycle, Life!Spec
=============================================================================
