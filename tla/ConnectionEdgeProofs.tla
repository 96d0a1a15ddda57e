------------------------- MODULE ConnectionEdgeProofs -------------------------
(***************************************************************************)
(* A proof that the edge-triggered registration of ClientConnection loses  *)
(* nothing, for every size of the buffers and of the answer.               *)
(*                                                                         *)
(* NoLostEdge speaks of a sleeping thread. What makes it inductive is what *)
(* must be true, while the entry is off the ready list, of a thread that   *)
(* holds an event (every pending event is in it) or reads (there is no     *)
(* answer yet, and no error that recv() could swallow unseen).             *)
(***************************************************************************)
EXTENDS ClientConnectionProofs

\* The registered events that the socket has, a bare half-close aside.
Pending == Poll \cap (mask \ {"RDHUP"})

\* The inductive invariant, beside IndInv.
Edges ==
  /\ skErr # "none" => rst
  /\ obj = "live" /\ ~armed =>
       /\ pc = "wait" => Pending = {} /\ ("OUT" \in mask => nospace)
       /\ pc = "event" =>
            /\ Pending \subseteq revents
            /\ "OUT" \in mask /\ "OUT" \notin revents => nospace
       /\ pc = "recv" => skErr = "none" /\ response = 0

-----------------------------------------------------------------------------

\* What poll() reports, event by event.
LEMMA PollMembers ==
  /\ Poll \subseteq Event
  /\ "IN" \in Poll <=> inq # <<>> \/ fin \/ rst
  /\ "OUT" \in Poll <=> rst \/ Free > 0
  /\ "ERR" \in Poll <=> skErr # "none"
  /\ "HUP" \in Poll <=> rst
BY DEF Poll, Event

\* What is pending while the connection is registered for input.
LEMMA ReadPending ==
  ASSUME mask = ReadMask
  PROVE  /\ Pending \subseteq {"IN", "ERR", "HUP"}
         /\ "IN" \in Pending <=> inq # <<>> \/ fin \/ rst
         /\ "ERR" \in Pending <=> skErr # "none"
         /\ "HUP" \in Pending <=> rst
         /\ "OUT" \notin mask
BY PollMembers DEF Pending, ReadMask

\* What is pending while it is registered for output.
LEMMA WritePending ==
  ASSUME mask = WriteMask
  PROVE  /\ Pending \subseteq {"OUT", "ERR", "HUP"}
         /\ "OUT" \in Pending <=> rst \/ Free > 0
         /\ "ERR" \in Pending <=> skErr # "none"
         /\ "HUP" \in Pending <=> rst
         /\ "OUT" \in mask
BY PollMembers DEF Pending, WriteMask

\* A live connection is registered for input until it has an answer, and for
\* output after that.
LEMMA LiveMask ==
  ASSUME IndInv, obj = "live"
  PROVE  /\ response = 0 => mask = ReadMask
         /\ response # 0 => mask = WriteMask
         /\ "RDHUP" \in mask /\ "ERR" \in mask
BY DEF IndInv, Reading, Writing, ReadMask, WriteMask

\* The initial state satisfies the invariant.
LEMMA InitEdges == Init => Edges
<1> SUFFICES ASSUME Init
             PROVE  Edges
  OBVIOUS
<1>1. Pending = {} /\ "OUT" \notin mask
  BY ReadPending DEF Init
<1> QED
  BY <1>1 DEF Init, Edges

\* The peer's steps put the entry on the ready list, or cause no registered
\* event that is not expected already.
LEMMA PeerEdges ==
  ASSUME IndInv, Edges, Peer
  PROVE  Edges'
<1>1. UNCHANGED <<mask, objectVars, threadVars>>
  BY DEF Peer, PeerSend, PeerFin, PeerReset, PeerRead
<1>2. CASE \E s \in Segment : PeerSend(s)
  <2>1. PICK s \in Segment : PeerSend(s)
    BY <1>2
  <2>2. obj = "live" /\ UNCHANGED <<fin, rst, skErr, wire, acked, nospace>>
    BY <2>1 DEF PeerSend, Connected
  <2>3. armed' = (armed \/ "IN" \in mask)
    BY <2>1 DEF PeerSend, Wake
  <2>4. CASE response = 0
    BY <1>1, <2>2, <2>3, <2>4, LiveMask DEF Edges, ReadMask
  <2>5. CASE response # 0
    <3>1. Pending' = Pending
      BY <1>1, <2>2, <2>5, LiveMask DEF Pending, Poll, WriteMask, Free, InFlight
    <3>2. armed' = armed
      BY <2>2, <2>3, <2>5, LiveMask DEF WriteMask, IndInv, TypeOK
    <3> QED
      BY <1>1, <2>2, <3>1, <3>2 DEF Edges, objectVars, threadVars
  <2> QED
    BY <2>4, <2>5
<1>3. CASE PeerFin
  <2>1. obj = "live" /\ armed' /\ UNCHANGED <<rst, skErr>>
    BY <1>3, LiveMask DEF PeerFin, Connected, Wake
  <2> QED
    BY <2>1 DEF Edges
<1>4. CASE PeerReset
  <2>1. obj = "live" /\ armed' /\ rst'
    BY <1>4, LiveMask DEF PeerReset, Connected, Wake
  <2> QED
    BY <2>1 DEF Edges
<1>5. CASE PeerRead
  <2>1. /\ InFlight > 0
        /\ UNCHANGED <<inq, fin, rst, skErr, wire>>
        /\ nospace => armed' = (armed \/ "OUT" \in mask)
        /\ ~nospace => armed' = armed
    BY <1>5 DEF PeerRead, Wake
  <2>2. CASE obj = "live"
    <3>1. response # 0
      BY <2>1, <2>2 DEF InFlight, IndInv, Reading, TypeOK
    <3>2. mask = WriteMask
      BY <2>2, <3>1, LiveMask
    <3>3. CASE nospace
      BY <2>1, <3>2, <3>3, WritePending DEF Edges
    <3>4. CASE ~nospace
      <4>1. Pending' \subseteq Pending \cup {"OUT"}
        BY <1>1, <2>1, <3>2 DEF Pending, Poll, WriteMask
      <4>2. "OUT" \in mask
        BY <3>2, WritePending
      <4> QED
        BY <1>1, <2>1, <3>1, <3>4, <4>1, <4>2 DEF Edges, objectVars, threadVars
    <3> QED
      BY <3>3, <3>4
  <2>3. CASE obj # "live"
    BY <1>1, <2>1, <2>3 DEF Edges, objectVars
  <2> QED
    BY <2>2, <2>3
<1> QED
  BY <1>2, <1>3, <1>4, <1>5 DEF Peer

\* epoll_wait takes everything that is pending along.
LEMMA EpollWaitEdges ==
  ASSUME IndInv, Edges, EpollWait
  PROVE  Edges'
<1>1. /\ nospace' = (nospace \/ (~rst /\ Free <= 0))
      /\ revents' = Poll \cap mask
      /\ pc' = IF Poll \cap mask = {} THEN "wait" ELSE "event"
      /\ UNCHANGED <<inq, sentSegs, fin, rst, skErr, wire, acked, lost, mask>>
      /\ UNCHANGED objectVars
  BY DEF EpollWait
<1>2. Pending' = Pending /\ Pending \subseteq Poll \cap mask
  BY <1>1 DEF Pending, Poll, Free, InFlight
<1>3. "OUT" \in mask /\ "OUT" \notin Poll => nospace'
  <2>1. Free \in Int
    BY ConnectionAssumption DEF Free, InFlight, IndInv, TypeOK
  <2>2. ASSUME "OUT" \notin Poll
        PROVE  ~rst /\ Free <= 0
    BY <2>1, <2>2, PollMembers
  <2> QED
    BY <1>1, <2>2
<1>4. CASE Poll \cap mask = {}
  BY <1>1, <1>2, <1>3, <1>4 DEF Edges
<1>5. CASE Poll \cap mask # {}
  BY <1>1, <1>2, <1>3, <1>5 DEF Edges
<1> QED
  BY <1>4, <1>5

\* An event without error, input or output leaves nothing behind.
LEMMA HandleEventEdges ==
  ASSUME IndInv, Edges, HandleEvent
  PROVE  Edges'
<1>1. pc = "event" /\ UNCHANGED <<inq, fin, rst, skErr, wire, acked, nospace, response>>
  BY DEF HandleEvent
<1>2. CASE "ERR" \in revents
  BY <1>1, <1>2 DEF HandleEvent, Delete, Edges
<1>3. CASE "ERR" \notin revents
  <2>1. /\ \/ "IN" \in revents /\ pc' = "recv"
           \/ "IN" \notin revents /\ "OUT" \in revents /\ pc' = "send"
           \/ "IN" \notin revents /\ "OUT" \notin revents /\ pc' = "wait"
        /\ UNCHANGED <<mask, armed, obj>>
    BY <1>3 DEF HandleEvent, epollVars
  <2>2. obj = "live" /\ revents \subseteq mask
    BY <1>1 DEF IndInv, Thread
  <2>3. CASE armed
    BY <1>1, <2>1, <2>3 DEF Edges
  <2>4. CASE ~armed /\ response = 0
    <3>1. /\ Pending \subseteq revents
          /\ Pending \subseteq {"IN", "ERR", "HUP"}
          /\ "IN" \in Pending <=> inq # <<>> \/ fin \/ rst
          /\ "ERR" \in Pending <=> skErr # "none"
          /\ "HUP" \in Pending <=> rst
          /\ "OUT" \notin mask
      BY <1>1, <2>2, <2>4, LiveMask, ReadPending DEF Edges
    <3>2. skErr = "none"
      BY <1>3, <3>1
    <3>3. "IN" \notin revents => Pending = {}
      BY <1>3, <3>1
    <3>4. Pending' = Pending
      BY <1>1, <2>1 DEF Pending, Poll, Free, InFlight
    <3> QED
      BY <1>1, <2>1, <2>4, <3>1, <3>2, <3>3, <3>4 DEF Edges
  <2>5. CASE ~armed /\ response # 0
    <3>1. /\ Pending \subseteq revents
          /\ "OUT" \notin revents => nospace
          /\ Pending \subseteq {"OUT", "ERR", "HUP"}
          /\ "OUT" \in Pending <=> rst \/ Free > 0
          /\ "ERR" \in Pending <=> skErr # "none"
          /\ "HUP" \in Pending <=> rst
      BY <1>1, <2>2, <2>5, LiveMask, WritePending DEF Edges
    <3>2. "IN" \notin revents
      BY <2>2, <2>5, LiveMask DEF WriteMask
    <3>3. "OUT" \notin revents => Pending = {}
      BY <1>3, <3>1
    <3>4. Pending' = Pending
      BY <1>1, <2>1 DEF Pending, Poll, Free, InFlight
    <3> QED
      BY <1>1, <2>1, <3>1, <3>2, <3>3, <3>4 DEF Edges
  <2> QED
    BY <2>3, <2>4, <2>5
<1> QED
  BY <1>2, <1>3

\* Registering for output always finds room in an unused send buffer.
LEMMA RespondArms ==
  ASSUME IndInv, pc = "recv", obj = "live", NEW r, Respond(r)
  PROVE  armed'
<1>1. Len(wire) = 0 /\ acked = 0
  BY EmptySeq DEF IndInv, Thread, TypeOK
<1>2. "OUT" \in Poll
  BY <1>1, PollMembers, ConnectionAssumption DEF Free, InFlight
<1> QED
  BY <1>2 DEF Respond, WriteMask

\* The read loop ends with nothing unread, or with the object deleted.
LEMMA RecvEdges ==
  ASSUME IndInv, Edges, Recv
  PROVE  Edges'
<1>1. CASE RecvAccepted
  <2>1. /\ pc = "recv" /\ obj = "live" /\ pc' = "recv"
        /\ UNCHANGED <<rst, skErr, obj>>
    BY <1>1 DEF RecvAccepted, Accept
  <2>2. CASE UNCHANGED <<response, sendBuffer, epollVars>>
    BY <2>1, <2>2 DEF Edges, epollVars
  <2>3. CASE Respond(requests')
    BY <2>1, <2>3, RespondArms DEF Edges
  <2> QED
    BY <1>1, <2>2, <2>3 DEF RecvAccepted, Accept
<1>2. CASE RecvRejected \/ RecvEof
  BY <1>2 DEF RecvRejected, RecvEof, Delete, Edges
<1>3. CASE RecvFails
  <2>1. /\ pc = "recv" /\ obj = "live" /\ inq = <<>> /\ ~fin
        /\ rst => skErr # "none"
        /\ skErr' = "none" /\ pc' = "wait"
        /\ UNCHANGED <<inq, fin, rst, epollVars, objectVars>>
    BY <1>3 DEF RecvFails
  <2>2. CASE armed
    BY <2>1, <2>2 DEF Edges, epollVars
  <2>3. CASE ~armed
    <3>1. skErr = "none" /\ ~rst /\ mask = ReadMask
      BY <2>1, <2>3, LiveMask DEF Edges
    <3>2. Pending' = {} /\ "OUT" \notin mask
      BY <2>1, <3>1 DEF Pending, Poll, ReadMask, epollVars
    <3> QED
      BY <2>1, <3>2 DEF Edges, epollVars
  <2> QED
    BY <2>2, <2>3
<1>4. CASE RecvDeleted
  BY <1>4 DEF RecvDeleted, Edges, socketVars, objectVars
<1> QED
  BY <1>1, <1>2, <1>3, <1>4 DEF Recv

\* The write loop ends when the send buffer is full, or with the object
\* deleted.
LEMMA SendEdges ==
  ASSUME IndInv, Edges, Send
  PROVE  Edges'
<1>1. CASE SendAccepted
  BY <1>1 DEF SendAccepted, Delete, Edges
<1>2. CASE SendBlocked
  <2>1. /\ pc = "send" /\ ~rst /\ Accepted <= 0
        /\ nospace' = (nospace \/ Free <= 0)
        /\ pc' = "wait"
        /\ UNCHANGED <<inq, fin, rst, skErr, wire, acked, epollVars, objectVars>>
    BY <1>2 DEF SendBlocked
  <2>2. /\ obj = "live" /\ response # 0 /\ mask = WriteMask
        /\ response \in Nat /\ sendBuffer = Serialize(response)
        /\ sent_bytes \in 0..(RespLen - 1)
    BY <2>1 DEF IndInv, Thread, Writing, TypeOK
  <2>3. Free <= 0
    <3>1. Len(sendBuffer) = RespLen
      BY <2>2, SerializeType
    <3> QED
      BY <2>1, <2>2, <3>1, ConnectionAssumption DEF Accepted, Lesser
  <2>4. Pending = {}
    <3>1. ~(Free > 0)
      BY <2>3, ConnectionAssumption DEF Free, InFlight, IndInv, TypeOK
    <3>2. skErr = "none"
      BY <2>1 DEF Edges
    <3> QED
      BY <2>1, <2>2, <3>1, <3>2, WritePending
  <2>5. Pending' = Pending
    BY <2>1 DEF Pending, Poll, Free, InFlight, epollVars
  <2> QED
    BY <2>1, <2>3, <2>4, <2>5 DEF Edges
<1>3. CASE SendBroken
  BY <1>3 DEF SendBroken, Delete, Edges
<1> QED
  BY <1>1, <1>2, <1>3 DEF Send

\* Every step preserves the invariant.
LEMMA NextEdges == IndInv /\ Edges /\ [Next]_vars => Edges'
<1> SUFFICES ASSUME IndInv, Edges, [Next]_vars
             PROVE  Edges'
  OBVIOUS
<1>1. CASE Next
  BY <1>1, PeerEdges, EpollWaitEdges, HandleEventEdges, RecvEdges, SendEdges
  DEF Next, Reactor
<1>2. CASE UNCHANGED vars
  <2>1. Pending' = Pending
    BY <1>2
    DEF vars, socketVars, epollVars, objectVars, threadVars, Pending, Poll, Free,
        InFlight
  <2> QED
    BY <1>2, <2>1 DEF vars, socketVars, epollVars, objectVars, threadVars, Edges
<1> QED
  BY <1>1, <1>2

\* No wakeup of the edge-triggered registration (listening_server.h:41,
\* connection_types.h:223) is lost, for any sizes and any peer.
THEOREM NoEdgeIsLost == Spec => []NoLostEdge
<1>1. Edges => NoLostEdge
  BY DEF Edges, Pending, NoLostEdge
<1>2. Spec => []Edges
  BY InitEdges, NextEdges, Invariance, PTL DEF Spec
<1> QED
  BY <1>1, <1>2, PTL
=============================================================================
