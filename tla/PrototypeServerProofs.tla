------------------------ MODULE PrototypeServerProofs ------------------------
(***************************************************************************)
(* Proofs about PrototypeServer, for any number of connections,            *)
(* descriptors and failures and any batch size.                            *)
(*                                                                         *)
(* fd_map keeps the entries of closed connections, so that a handler may   *)
(* meet the object of another connection. What keeps the objects of open   *)
(* connections alive all the same is that no entry but the one of its own  *)
(* descriptor names an open connection (EntriesOwn).                       *)
(***************************************************************************)
EXTENDS PrototypeServer, TLAPS

\* The listening socket, and no other, stays behind its descriptor.
ListenerKept ==
  \A f \in Fd : open[f] = Server <=> f = ListenSock

\* No two descriptors refer to one connection.
OneFdPerConn ==
  \A f, g \in Fd : open[f] \in Conn /\ open[f] = open[g] => f = g

\* A batch has at most one event for a descriptor.
OneEventPerFd ==
  \A e1, e2 \in events : e1.fd = e2.fd => e1 = e2

\* An entry names a connection that was accepted, and if that connection is
\* open, its descriptor is the entry's.
EntriesOwn ==
  \A g \in Fd : fd_map[g] \in Conn =>
    /\ object[fd_map[g]] # "none"
    /\ \A f \in Fd : open[f] = fd_map[g] => f = g

\* The inductive invariant.
IndInv ==
  /\ TypeOK /\ ListenerKept /\ OneFdPerConn /\ OneEventPerFd
  /\ EventsCurrent /\ OpenIsLive /\ EntriesOwn

-----------------------------------------------------------------------------

\* The initial state satisfies the inductive invariant.
LEMMA InitInv == Init => IndInv
BY PrototypeAssumption
DEF Init, IndInv, TypeOK, ListenerKept, OneFdPerConn, OneEventPerFd,
    EventsCurrent, OpenIsLive, EntriesOwn

\* Steps of the peers touch neither descriptors, events nor objects.
LEMMA PeerInv ==
  ASSUME IndInv, NEW c \in Conn, Connect(c) \/ PeerActs(c)
  PROVE  IndInv'
<1>1. UNCHANGED <<open, watched, programVars>>
  BY DEF Connect, PeerActs, kernelVars
<1>2. TypeOK'
  <2>1. CASE Connect(c)
    BY <2>1 DEF Connect, kernelVars, programVars, IndInv, TypeOK
  <2>2. CASE PeerActs(c)
    BY <2>2 DEF PeerActs, Wake, FdOf, programVars, IndInv, TypeOK
  <2> QED
    BY <2>1, <2>2
<1> QED
  BY <1>1, <1>2
  DEF IndInv, ListenerKept, OneFdPerConn, OneEventPerFd, EventsCurrent,
      OpenIsLive, EntriesOwn, programVars

\* Starting, or stopping, changes only the state of the process.
LEMMA StopInv ==
  ASSUME IndInv, Start \/ WaitFails
  PROVE  IndInv'
BY DEF Start, WaitFails, peerVars, kernelVars, IndInv, TypeOK, ListenerKept,
       OneFdPerConn, OneEventPerFd, EventsCurrent, OpenIsLive, EntriesOwn

\* A batch is fetched into an empty queue.
LEMMA EpollWaitInv ==
  ASSUME IndInv, EpollWait
  PROVE  IndInv'
<1>1. /\ events = {}
      /\ UNCHANGED <<peerVars, open, watched, fd_map, object, running, faults>>
  BY DEF EpollWait, BatchDone
<1>2. PICK batch \in SUBSET Reportable :
        /\ events' = events \cup {Event(f) : f \in batch}
        /\ armed' = (armed \ batch) \cap Reportable
  BY DEF EpollWait
<1>3. \A f \in batch : f \in Fd /\ open[f] \in Conn \cup {Server}
  BY PrototypeAssumption DEF Reportable, IndInv, TypeOK, ListenerKept
<1>4. \A e \in events' : \E f \in batch :
        e = [fd |-> f, sock |-> open[f], gone |-> Gone(open[f])]
  BY <1>1, <1>2 DEF Event
<1>5. \A e \in events' : /\ e \in [fd : Fd, sock : Conn \cup {Server}, gone : BOOLEAN]
                         /\ e.sock = open[e.fd]
  <2> TAKE e \in events'
  <2>1. PICK f \in batch : e = [fd |-> f, sock |-> open[f], gone |-> Gone(open[f])]
    BY <1>4
  <2>2. Gone(open[f]) \in BOOLEAN
    BY DEF Gone
  <2> QED
    BY <1>3, <2>1, <2>2
<1>6. OneEventPerFd'
  BY <1>4 DEF OneEventPerFd
<1>7. EventsCurrent'
  BY <1>1, <1>5 DEF EventsCurrent
<1>8. TypeOK'
  BY <1>1, <1>2, <1>5 DEF IndInv, TypeOK, peerVars
<1> QED
  BY <1>1, <1>6, <1>7, <1>8
  DEF IndInv, ListenerKept, OneFdPerConn, OpenIsLive, EntriesOwn

\* An accepted connection has had no object, entry or descriptor, and no event
\* is queued for its new descriptor.
LEMMA AdmitInv ==
  ASSUME IndInv, NEW e \in events, NEW c \in Conn, NEW fd \in Fd,
         events' = events \ {e}, Admit(c, fd)
  PROVE  IndInv'
<1>1. /\ c \in backlog /\ open[fd] = Nobody
      /\ backlog' = backlog \ {c}
      /\ open' = [open EXCEPT ![fd] = c]
      /\ object' = [object EXCEPT ![c] = "live"]
      /\ fd_map' = [fd_map EXCEPT ![fd] = IF @ = Nobody THEN c ELSE @]
      /\ watched' \in {watched, watched \cup {fd}}
      /\ armed' \in {armed, armed \cup {fd}}
      /\ fd \in armed' => fd \in watched' \/ fd \in armed
      /\ faults' \in 0..MaxFaults
      /\ UNCHANGED <<unborn, unread, fin, rst, running>>
  BY PrototypeAssumption
  DEF Admit, Allocate, InsertIfAbsent, IsNewFd, IndInv, TypeOK
<1>2. /\ fd # ListenSock /\ c # Server /\ c # Nobody
  BY <1>1, PrototypeAssumption DEF IndInv, ListenerKept
<1>3. object[c] = "none"
  BY <1>1 DEF IndInv, TypeOK
<1>4. /\ \A g \in Fd : open[g] # c
      /\ \A g \in Fd : fd_map[g] # c
  <2>1. \A g \in Fd : open[g] = c => g # ListenSock
    BY <1>2, PrototypeAssumption DEF IndInv, ListenerKept
  <2> QED
    BY <1>3, <2>1 DEF IndInv, OpenIsLive, EntriesOwn
<1>5. \A e1 \in events : e1.fd # fd
  BY <1>1, PrototypeAssumption DEF IndInv, TypeOK, EventsCurrent
<1>6. TypeOK'
  <2>1. \A d \in Conn : object'[d] = "none" <=> d \in unborn' \cup backlog'
    BY <1>1 DEF IndInv, TypeOK
  <2>2. armed' \subseteq watched' /\ watched' \subseteq {f \in Fd : open'[f] # Nobody}
    BY <1>1, <1>2 DEF IndInv, TypeOK
  <2> QED
    BY <1>1, <2>1, <2>2 DEF IndInv, TypeOK
<1>7. ListenerKept' /\ OneFdPerConn'
  BY <1>1, <1>2, <1>4 DEF IndInv, TypeOK, ListenerKept, OneFdPerConn
<1>8. OneEventPerFd' /\ EventsCurrent'
  BY <1>1, <1>5 DEF IndInv, TypeOK, OneEventPerFd, EventsCurrent
<1>9. OpenIsLive'
  BY <1>1, <1>4 DEF IndInv, TypeOK, OpenIsLive
<1>10. EntriesOwn'
  <2> SUFFICES ASSUME NEW g \in Fd, fd_map'[g] \in Conn
               PROVE  /\ object'[fd_map'[g]] # "none"
                      /\ \A f \in Fd : open'[f] = fd_map'[g] => f = g
    BY DEF EntriesOwn
  <2>1. CASE fd_map'[g] = fd_map[g]
    BY <1>1, <1>4, <2>1 DEF IndInv, TypeOK, EntriesOwn
  <2>2. CASE g = fd /\ fd_map'[g] = c
    BY <1>1, <1>4, <2>2 DEF IndInv, TypeOK
  <2> QED
    BY <1>1, <2>1, <2>2 DEF IndInv, TypeOK
<1> QED
  BY <1>6, <1>7, <1>8, <1>9, <1>10 DEF IndInv

\* A failed accept, or fcntl, changes no descriptor.
LEMMA AdmitFailsInv ==
  ASSUME IndInv, NEW e \in events, events' = events \ {e}, AdmitFails
  PROVE  IndInv'
<1>1. /\ UNCHANGED <<peerVars, kernelVars, fd_map, object>>
      /\ faults' \in 0..MaxFaults
      /\ running' \in {running, "exited"}
  BY PrototypeAssumption DEF AdmitFails, IndInv, TypeOK
<1> QED
  BY <1>1
  DEF IndInv, TypeOK, ListenerKept, OneFdPerConn, OneEventPerFd, EventsCurrent,
      OpenIsLive, EntriesOwn, peerVars, kernelVars

\* The event of the closed descriptor is the one being handled, and the deleted
\* object is of that descriptor's connection or of one that is not open.
LEMMA HandleAlreadyConnectedInv ==
  ASSUME IndInv, NEW e \in events, e.fd # ListenSock,
         events' = events \ {e}, HandleAlreadyConnected(e)
  PROVE  IndInv'
<1>1. PICK old \in Conn :
        /\ fd_map[e.fd] = old
        /\ Disconnect(e.fd, old) \/ UNCHANGED <<kernelVars, object>>
        /\ unread' = unread \ {open[e.fd]}
        /\ running' \in {running, "crashed"}
        /\ UNCHANGED <<backlog, unborn, fin, rst, fd_map, faults>>
  BY DEF HandleAlreadyConnected
<1>2. e.fd \in Fd /\ object[old] # "none"
  BY <1>1 DEF IndInv, TypeOK, EntriesOwn
<1>3. \A e1 \in events' : e1 \in events /\ e1.fd # e.fd
  BY DEF IndInv, OneEventPerFd
<1>4. CASE UNCHANGED <<kernelVars, object>>
  BY <1>1, <1>4
  DEF IndInv, TypeOK, ListenerKept, OneFdPerConn, OneEventPerFd, EventsCurrent,
      OpenIsLive, EntriesOwn, kernelVars
<1>5. CASE Disconnect(e.fd, old)
  <2>1. /\ object' = [object EXCEPT ![old] = "deleted"]
        /\ open' = [open EXCEPT ![e.fd] = Nobody]
        /\ watched' = watched \ {e.fd}
        /\ armed' = armed \ {e.fd}
    BY <1>5 DEF Disconnect, CloseFd
  <2>2. TypeOK'
    BY <1>1, <1>2, <2>1 DEF IndInv, TypeOK
  <2>3. ListenerKept' /\ OneFdPerConn'
    BY <1>2, <2>1, PrototypeAssumption DEF IndInv, TypeOK, ListenerKept, OneFdPerConn
  <2>4. OneEventPerFd' /\ EventsCurrent'
    <3>1. \A e1 \in events' : e1.fd \in Fd
      BY <1>3 DEF IndInv, TypeOK
    <3> QED
      BY <1>2, <1>3, <2>1, <3>1 DEF IndInv, TypeOK, OneEventPerFd, EventsCurrent
  <2>5. \A f \in Fd : f # e.fd => open[f] # old
    BY <1>1, <1>2 DEF IndInv, EntriesOwn
  <2>6. OpenIsLive'
    BY <1>2, <2>1, <2>5, PrototypeAssumption DEF IndInv, TypeOK, OpenIsLive
  <2>7. EntriesOwn'
    BY <1>1, <1>2, <2>1, PrototypeAssumption DEF IndInv, TypeOK, EntriesOwn
  <2> QED
    BY <2>2, <2>3, <2>4, <2>6, <2>7 DEF IndInv
<1> QED
  BY <1>1, <1>4, <1>5

\* The handler of one event keeps the inductive invariant.
LEMMA HandleInv ==
  ASSUME IndInv, NEW e \in events, Handle(e)
  PROVE  IndInv'
<1>1. events' = events \ {e}
  BY DEF Handle
<1>2. CASE e.fd = ListenSock /\ HandleNewConnection
  BY <1>1, <1>2, AdmitInv, AdmitFailsInv DEF HandleNewConnection
<1>3. CASE e.fd # ListenSock /\ HandleAlreadyConnected(e)
  BY <1>1, <1>3, HandleAlreadyConnectedInv
<1> QED
  BY <1>2, <1>3 DEF Handle

\* Every step preserves the inductive invariant.
LEMMA NextInv == IndInv /\ [Next]_vars => IndInv'
<1> SUFFICES ASSUME IndInv, [Next]_vars
             PROVE  IndInv'
  OBVIOUS
<1>1. CASE Next
  BY <1>1, PeerInv, StopInv, EpollWaitInv, HandleInv DEF Next, Loop
<1>2. CASE UNCHANGED vars
  BY <1>2
  DEF vars, peerVars, kernelVars, programVars, IndInv, TypeOK, ListenerKept,
      OneFdPerConn, OneEventPerFd, EventsCurrent, OpenIsLive, EntriesOwn
<1> QED
  BY <1>1, <1>2

\* The inductive invariant holds in every reachable state.
THEOREM Invariance == Spec => []IndInv
BY InitInv, NextInv, PTL DEF Spec

\* Every variable of the prototype has its type.
THEOREM TypeCorrect == Spec => []TypeOK
<1>1. IndInv => TypeOK
  BY DEF IndInv
<1> QED
  BY <1>1, Invariance, PTL

\* However batches interleave with accepts and closes, an event is handled
\* while its descriptor refers to the socket it was reported for (temp.cpp:241).
THEOREM EventsAreCurrent == Spec => []EventsCurrent
<1>1. IndInv => EventsCurrent
  BY DEF IndInv
<1> QED
  BY <1>1, Invariance, PTL

\* Stale entries of fd_map never delete the object of an open connection
\* (temp.cpp:89).
THEOREM OpenStaysLive == Spec => []OpenIsLive
<1>1. IndInv => OpenIsLive
  BY DEF IndInv
<1> QED
  BY <1>1, Invariance, PTL
=============================================================================
