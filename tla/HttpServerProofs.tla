-------------------------- MODULE HttpServerProofs --------------------------
(***************************************************************************)
(* Proofs about HttpServer, for every number of descriptors, connections   *)
(* and resource failures and every batch size.                             *)
(*                                                                         *)
(* DispatchLive is not inductive: that the callback found for an event is  *)
(* that of the live object the event is for rests on what is true of       *)
(* descriptors without a queued event. What epoll watches belongs to a     *)
(* live object that owns the descriptor (Watched), the listening socket is *)
(* never closed (ListenerKept), and no two queued events have the same     *)
(* descriptor (OneEventPerFd), so that the deletion of the object of one   *)
(* event leaves the objects of the others alone. For the same reasons each *)
(* connection lives its Lifecycle whatever the other callbacks do.         *)
(***************************************************************************)
EXTENDS HttpServer, FiniteSetTheorems, TLAPS

\* The listening socket stays open, watched and registered, and no other
\* descriptor is watched the way it is.
ListenerKept ==
  /\ open[ListenSock] = Server
  /\ event_callback_[ListenSock] = Server
  /\ event_priority_[ListenSock] = LISTEN_SOCK
  /\ \A f \in Fd : interest[f] = "accept" <=> f = ListenSock

\* What epoll watches a descriptor for is what its live owner is doing, and
\* the reactor has the owner's callback and priority for it.
Watched ==
  \A f \in Fd : interest[f] \in {"in", "out"} =>
    /\ open[f] \in Conn
    /\ sock[open[f]] = f
    /\ conn[open[f]] = (IF interest[f] = "in" THEN "reading" ELSE "writing")
    /\ event_callback_[f] = open[f]
    /\ event_priority_[f] =
         (IF interest[f] = "in" THEN NEW_SOCK ELSE HELPER_SOCK)

\* A queued event is for the socket its descriptor still refers to, and the
\* descriptor is still watched, with the priority the event was queued with.
QueueCurrent ==
  \A e \in event_queue_ :
    /\ e.sock = open[e.fd]
    /\ interest[e.fd] # "none"
    /\ e.priority = event_priority_[e.fd]

\* No descriptor has two queued events.
OneEventPerFd ==
  \A e1, e2 \in event_queue_ : e1.fd = e2.fd => e1 = e2

\* Each failed system call costs at most one descriptor.
FewOrphans == Cardinality(Orphans) <= faults

\* The inductive invariant.
IndInv ==
  /\ TypeOK
  /\ ListenerKept
  /\ OwnSocket
  /\ Watched
  /\ QueueCurrent
  /\ OneEventPerFd
  /\ FewOrphans

-----------------------------------------------------------------------------

\* A step that makes no orphan keeps their number within the failures.
LEMMA OrphansKept ==
  ASSUME FewOrphans, faults \in Nat, faults' \in Nat, faults' >= faults,
         Orphans' \subseteq Orphans
  PROVE  FewOrphans'
<1>1. IsFiniteSet(Orphans)
  BY FS_Subset, ReactorAssumption DEF Orphans
<1>2. /\ IsFiniteSet(Orphans')
      /\ Cardinality(Orphans') <= Cardinality(Orphans)
  BY <1>1, FS_Subset
<1>3. Cardinality(Orphans) \in Nat /\ Cardinality(Orphans') \in Nat
  BY <1>1, <1>2, FS_CardinalityType
<1> QED
  BY <1>2, <1>3 DEF FewOrphans

\* A failed call may make one more.
LEMMA OrphansGrow ==
  ASSUME FewOrphans, faults \in Nat, NEW fd,
         Orphans' \subseteq Orphans \cup {fd}, faults' = faults + 1
  PROVE  FewOrphans'
<1> DEFINE more == Orphans \cup {fd}
<1>1. IsFiniteSet(Orphans)
  BY FS_Subset, ReactorAssumption DEF Orphans
<1>2. /\ IsFiniteSet(more)
      /\ Cardinality(more) = Cardinality(Orphans)
         \/ Cardinality(more) = Cardinality(Orphans) + 1
  BY <1>1, FS_AddElement
<1>3. /\ IsFiniteSet(Orphans')
      /\ Cardinality(Orphans') <= Cardinality(more)
  BY <1>2, FS_Subset
<1>4. /\ Cardinality(Orphans) \in Nat
      /\ Cardinality(more) \in Nat
      /\ Cardinality(Orphans') \in Nat
  BY <1>1, <1>2, <1>3, FS_CardinalityType
<1> QED
  BY <1>2, <1>3, <1>4 DEF FewOrphans

\* What the inductive invariant says of a descriptor with a queued event:
\* DispatchLive follows from it.
LEMMA InvDispatchLive == IndInv => DispatchLive
<1> SUFFICES ASSUME IndInv, NEW e \in event_queue_
             PROVE  /\ event_callback_[e.fd] = e.sock
                    /\ open[e.fd] = e.sock
                    /\ \/ e.sock = Server
                       \/ e.sock \in Conn /\ Live(e.sock) /\ sock[e.sock] = e.fd
  BY DEF DispatchLive
<1>1. e.fd \in Fd /\ interest[e.fd] \in Interest
  BY DEF IndInv, TypeOK, EventRecord
<1>2. e.sock = open[e.fd] /\ interest[e.fd] # "none"
  BY DEF IndInv, QueueCurrent
<1>3. CASE interest[e.fd] = "accept"
  BY <1>1, <1>2, <1>3 DEF IndInv, ListenerKept
<1>4. CASE interest[e.fd] \in {"in", "out"}
  BY <1>1, <1>2, <1>4 DEF IndInv, Watched, Live
<1> QED
  BY <1>1, <1>2, <1>3, <1>4 DEF Interest

\* The initial state satisfies the inductive invariant.
LEMMA InitInv == Init => IndInv
<1> SUFFICES ASSUME Init PROVE IndInv
  OBVIOUS
<1>1. /\ TypeOK /\ ListenerKept /\ OwnSocket /\ Watched
      /\ QueueCurrent /\ OneEventPerFd
  BY ReactorAssumption, ServerAssumption
  DEF Init, TypeOK, ListenerKept, OwnSocket, Watched, QueueCurrent,
      OneEventPerFd, Interest, Priority, LISTEN_SOCK, NEW_SOCK,
      HELPER_SOCK, NoPriority, ConnState, Live, EventRecord
<1>2. Orphans = {}
  BY DEF Init, Orphans
<1>3. FewOrphans
  BY <1>2, FS_EmptySet DEF FewOrphans, Init
<1> QED
  BY <1>1, <1>3 DEF IndInv

\* A step that changes nothing but the state of one connecting peer.
LEMMA ConnectInv ==
  ASSUME IndInv, NEW c \in Conn, Connect(c)
  PROVE  IndInv'
<1>1. Orphans' \subseteq Orphans /\ faults' = faults
  BY DEF Connect, kernelVars, Orphans
<1>2. FewOrphans'
  BY <1>1, OrphansKept DEF IndInv, TypeOK
<1> QED
  BY <1>2
  DEF Connect, kernelVars, reactorVars, IndInv, TypeOK, ListenerKept, OwnSocket, Watched,
      QueueCurrent, OneEventPerFd, Live, ConnState, EventRecord

\* Activity on a watched descriptor.
LEMMA ActivityInv ==
  ASSUME IndInv, NEW fd \in Fd, Activity(fd)
  PROVE  IndInv'
<1>1. Orphans' \subseteq Orphans /\ faults' = faults
  BY DEF Activity, SocketEvent, serverVars, Orphans
<1>2. FewOrphans'
  BY <1>1, OrphansKept DEF IndInv, TypeOK
<1> QED
  BY <1>2
  DEF Activity, SocketEvent, serverVars, reactorVars, IndInv, TypeOK, ListenerKept, OwnSocket, Watched,
      QueueCurrent, OneEventPerFd, Live

\* reactorRun returns.
LEMMA InterruptInv ==
  ASSUME IndInv, Interrupt
  PROVE  IndInv'
<1>1. Orphans' \subseteq Orphans /\ faults' = faults
  BY DEF Interrupt, WaitInterrupted, serverVars, kernelVars, Orphans
<1>2. FewOrphans'
  BY <1>1, OrphansKept DEF IndInv, TypeOK
<1> QED
  BY <1>2
  DEF Interrupt, WaitInterrupted, serverVars, kernelVars, mapVars, IndInv, TypeOK, ListenerKept, OwnSocket, Watched,
      QueueCurrent, OneEventPerFd, Live

\* epoll_wait queues one event for each descriptor of a batch, all of them
\* watched; the queue was empty.
LEMMA WaitInv ==
  ASSUME IndInv, Wait
  PROVE  IndInv'
<1>1. PICK batch \in SUBSET (ready \cup Acceptable) :
        /\ event_queue_' = event_queue_ \cup {QueuedEvent(fd) : fd \in batch}
        /\ ready' = ready \ batch
  BY DEF Wait, EpollWait
<1>2. /\ UNCHANGED <<open, interest, event_callback_, event_priority_, running>>
      /\ UNCHANGED <<conn, sock, faults>>
      /\ event_queue_ = {}
  BY DEF Wait, EpollWait, mapVars, serverVars, Drained
<1>3. \A f \in batch : f \in Fd /\ interest[f] # "none"
  BY ServerAssumption DEF IndInv, TypeOK, Acceptable, ListenerKept
<1>4. \A e \in event_queue_' : \E f \in batch : e = QueuedEvent(f)
  BY <1>1, <1>2
<1>5. \A f \in batch : /\ QueuedEvent(f) \in EventRecord
                       /\ QueuedEvent(f).fd = f
                       /\ QueuedEvent(f).sock = open[f]
                       /\ QueuedEvent(f).priority = event_priority_[f]
  <2> SUFFICES ASSUME NEW f \in batch
               PROVE  /\ QueuedEvent(f) \in EventRecord
                      /\ QueuedEvent(f).fd = f
                      /\ QueuedEvent(f).sock = open[f]
                      /\ QueuedEvent(f).priority = event_priority_[f]
    OBVIOUS
  <2>1. event_priority_[f] \in Priority
    BY <1>3 DEF IndInv, TypeOK, Interest, ListenerKept, Watched, Priority
  <2> QED
    BY <1>3, <2>1 DEF QueuedEvent, EventRecord, IndInv, TypeOK, Priority,
                      LISTEN_SOCK, NEW_SOCK, HELPER_SOCK, NoPriority
<1>6. TypeOK'
  BY <1>1, <1>2, <1>4, <1>5 DEF IndInv, TypeOK
<1>7. QueueCurrent' /\ OneEventPerFd'
  BY <1>2, <1>3, <1>4, <1>5 DEF QueueCurrent, OneEventPerFd
<1>8. ListenerKept' /\ OwnSocket' /\ Watched'
  BY <1>2 DEF IndInv, ListenerKept, OwnSocket, Watched, Live
<1>9. Orphans' \subseteq Orphans
  BY <1>2 DEF Orphans
<1>10. FewOrphans'
  BY <1>2, <1>9, OrphansKept DEF IndInv, TypeOK
<1> QED
  BY <1>6, <1>7, <1>8, <1>10 DEF IndInv

-----------------------------------------------------------------------------
(* One dispatched event. Its callback is the live owner's, by              *)
(* InvDispatchLive.                                                        *)

\* A step that only takes an event out of the queue, and may be a failed call.
LEMMA PopInv ==
  ASSUME IndInv,
         event_queue_' \subseteq event_queue_,
         UNCHANGED <<kernelVars, mapVars, conn, sock>>,
         faults' \in Nat, faults' >= faults,
         running' \in {"running", "stopped", "killed"}
  PROVE  IndInv'
<1>1. Orphans' \subseteq Orphans
  BY DEF kernelVars, Orphans
<1>2. FewOrphans'
  BY <1>1, OrphansKept DEF IndInv, TypeOK
<1> QED
  BY <1>2
  DEF kernelVars, mapVars, IndInv, TypeOK, ListenerKept, OwnSocket, Watched,
      QueueCurrent, OneEventPerFd, Live

\* accept() returns a descriptor that referred to nothing: no live object has
\* it as its socket and no queued event is for it.
LEMMA NewFdInv ==
  ASSUME IndInv, NEW fd \in Fd, IsNewFd(fd)
  PROVE  /\ fd # ListenSock
         /\ interest[fd] = "none"
         /\ \A c \in Conn : Live(c) => sock[c] # fd
         /\ \A e \in event_queue_ : e.fd # fd
<1>1. open[fd] = Nobody
  BY DEF IsNewFd
<1>2. fd # ListenSock
  BY <1>1, ReactorAssumption DEF IndInv, ListenerKept
<1>3. interest[fd] = "none"
  BY <1>1, <1>2, ReactorAssumption
  DEF IndInv, TypeOK, Interest, ListenerKept, Watched
<1>4. \A c \in Conn : Live(c) => sock[c] # fd
  BY <1>1, ReactorAssumption DEF IndInv, OwnSocket
<1>5. \A e \in event_queue_ : e.fd # fd
  BY <1>3 DEF IndInv, QueueCurrent
<1> QED
  BY <1>2, <1>3, <1>4, <1>5

\* The descriptor of an accepted connection is forgotten.
LEMMA AcceptForgetsInv ==
  ASSUME IndInv, event_queue_' \subseteq event_queue_,
         NEW c \in Conn, NEW fd \in Fd, AcceptForgets(c, fd)
  PROVE  IndInv'
<1>1. /\ fd # ListenSock
      /\ interest[fd] = "none"
      /\ \A d \in Conn : Live(d) => sock[d] # fd
      /\ \A e \in event_queue_ : e.fd # fd
  BY NewFdInv DEF AcceptForgets
<1>2. /\ conn[c] = "pending"
      /\ open' = [open EXCEPT ![fd] = c]
      /\ conn' = [conn EXCEPT ![c] = "dropped"]
      /\ faults' = faults + 1
      /\ UNCHANGED <<interest, ready, event_callback_, event_priority_>>
      /\ UNCHANGED <<running, sock>>
  BY DEF AcceptForgets, mapVars
<1>3. TypeOK'
  BY <1>2 DEF IndInv, TypeOK, ConnState
<1>4. \A d \in Conn : Live(d)' <=> Live(d)
  BY <1>2 DEF IndInv, TypeOK, Live
<1>5. ListenerKept' /\ OwnSocket' /\ Watched'
  BY <1>1, <1>2, <1>4
  DEF IndInv, TypeOK, ListenerKept, OwnSocket, Watched
<1>6. QueueCurrent' /\ OneEventPerFd'
  BY <1>1, <1>2
  DEF IndInv, TypeOK, EventRecord, QueueCurrent, OneEventPerFd
<1>7. Orphans' \subseteq Orphans \cup {fd}
  BY <1>2 DEF IndInv, TypeOK, Orphans
<1>8. FewOrphans'
  BY <1>2, <1>7, OrphansGrow DEF IndInv, TypeOK
<1> QED
  BY <1>3, <1>5, <1>6, <1>8 DEF IndInv

\* An accepted connection gets an object, and is watched unless addTrack
\* fails.
LEMMA AcceptTracksInv ==
  ASSUME IndInv, event_queue_' \subseteq event_queue_,
         NEW c \in Conn, NEW fd \in Fd, AcceptTracks(c, fd)
  PROVE  IndInv'
<1>1. /\ fd # ListenSock
      /\ interest[fd] = "none"
      /\ \A d \in Conn : Live(d) => sock[d] # fd
      /\ \A e \in event_queue_ : e.fd # fd
  BY NewFdInv DEF AcceptTracks
<1>2. /\ conn[c] = "pending"
      /\ open' = [open EXCEPT ![fd] = c]
      /\ conn' = [conn EXCEPT ![c] = "reading"]
      /\ sock' = [sock EXCEPT ![c] = fd]
      /\ UNCHANGED <<ready, running>>
  BY DEF AcceptTracks, AddTrack, mapVars
<1>3. \/ /\ interest' = [interest EXCEPT ![fd] = "in"]
         /\ event_callback_' = [event_callback_ EXCEPT ![fd] = c]
         /\ event_priority_' = [event_priority_ EXCEPT ![fd] = NEW_SOCK]
         /\ UNCHANGED faults
      \/ /\ faults' = faults + 1
         /\ UNCHANGED <<interest, event_callback_, event_priority_>>
  BY DEF AcceptTracks, AddTrack, Track, Insert, mapVars
<1>4. \A d \in Conn : d # c => (Live(d)' <=> Live(d))
  BY <1>2 DEF IndInv, TypeOK, Live
<1>5. \A f \in Fd : interest[f] \in {"in", "out"} => open[f] # c
  BY <1>2 DEF IndInv, Watched
<1>6. /\ event_callback_' \in [Fd -> Conn \cup {Server, Nobody}]
      /\ event_priority_' \in [Fd -> Priority \cup {NoPriority}]
      /\ \A f \in Fd :
           event_callback_'[f] = Nobody <=> event_priority_'[f] = NoPriority
      /\ event_callback_'[ListenSock] = event_callback_[ListenSock]
      /\ event_priority_'[ListenSock] = event_priority_[ListenSock]
      /\ interest' \in [Fd -> Interest]
      /\ \A f \in Fd : f # fd => interest'[f] = interest[f]
      /\ interest'[fd] \in {"none", "in"}
      /\ faults' \in Nat
  <2>1. CASE /\ interest' = [interest EXCEPT ![fd] = "in"]
             /\ event_callback_' = [event_callback_ EXCEPT ![fd] = c]
             /\ event_priority_' = [event_priority_ EXCEPT ![fd] = NEW_SOCK]
             /\ UNCHANGED faults
    BY <1>1, <2>1, ReactorAssumption
    DEF IndInv, TypeOK, Interest, Priority, NoPriority, NEW_SOCK
  <2>2. CASE /\ faults' = faults + 1
             /\ UNCHANGED <<interest, event_callback_, event_priority_>>
    BY <1>1, <2>2 DEF IndInv, TypeOK, Interest
  <2> QED
    BY <1>3, <2>1, <2>2
<1>7. TypeOK' /\ ListenerKept'
  <2>1. TypeOK'
    BY <1>1, <1>2, <1>6 DEF IndInv, TypeOK, ConnState
  <2>2. ListenerKept'
    BY <1>1, <1>2, <1>6, ServerAssumption DEF IndInv, TypeOK, ListenerKept
  <2> QED
    BY <2>1, <2>2
<1>8. OwnSocket'
  BY <1>1, <1>2, <1>4 DEF IndInv, TypeOK, OwnSocket
<1>9. Watched'
  BY <1>1, <1>2, <1>3, <1>5 DEF IndInv, TypeOK, Watched
<1>10. QueueCurrent' /\ OneEventPerFd'
  BY <1>1, <1>2, <1>3
  DEF IndInv, TypeOK, EventRecord, QueueCurrent, OneEventPerFd
<1>11. FewOrphans'
  <2>1. CASE interest' = [interest EXCEPT ![fd] = "in"] /\ UNCHANGED faults
    <3>1. Orphans' \subseteq Orphans
      BY <1>2, <2>1 DEF IndInv, TypeOK, Orphans
    <3> QED
      BY <2>1, <3>1, OrphansKept DEF IndInv, TypeOK
  <2>2. CASE faults' = faults + 1 /\ UNCHANGED interest
    <3>1. Orphans' \subseteq Orphans \cup {fd}
      BY <1>2, <2>2 DEF IndInv, TypeOK, Orphans
    <3> QED
      BY <2>2, <3>1, OrphansGrow DEF IndInv, TypeOK
  <2> QED
    BY <1>3, <2>1, <2>2
<1> QED
  BY <1>7, <1>8, <1>9, <1>10, <1>11 DEF IndInv

\* write() turns the registration of a reading connection to output, while no
\* other event for its descriptor is in the queue.
LEMMA RespondsInv ==
  ASSUME IndInv, event_queue_' \subseteq event_queue_,
         NEW c \in Conn, interest[sock[c]] # "none",
         \A e \in event_queue_' : e.fd # sock[c],
         Responds(c)
  PROVE  IndInv'
<1> DEFINE fd == sock[c]
<1>1. /\ conn[c] = "reading"
      /\ conn' = [conn EXCEPT ![c] = "writing"]
      /\ interest' = [interest EXCEPT ![fd] = "out"]
      /\ ready' = ready \cup {fd}
      /\ event_callback_' = [event_callback_ EXCEPT ![fd] = c]
      /\ event_priority_' = [event_priority_ EXCEPT ![fd] = HELPER_SOCK]
      /\ UNCHANGED <<open, running, sock, faults>>
  BY DEF Responds, ModifyTrack, Track, Insert
<1>2. fd \in Fd /\ open[fd] = c /\ fd # ListenSock
  BY <1>1, ReactorAssumption
  DEF IndInv, TypeOK, OwnSocket, Live, ListenerKept
<1>3. \A f \in Fd : f # fd /\ interest[f] \in {"in", "out"} => open[f] # c
  BY DEF IndInv, Watched
<1>4. /\ event_callback_' \in [Fd -> Conn \cup {Server, Nobody}]
      /\ event_priority_' \in [Fd -> Priority \cup {NoPriority}]
      /\ \A f \in Fd :
           event_callback_'[f] = Nobody <=> event_priority_'[f] = NoPriority
      /\ event_callback_'[ListenSock] = event_callback_[ListenSock]
      /\ event_priority_'[ListenSock] = event_priority_[ListenSock]
  BY <1>1, <1>2, ReactorAssumption
  DEF IndInv, TypeOK, Priority, NoPriority, HELPER_SOCK
<1>5. TypeOK' /\ ListenerKept'
  <2>1. TypeOK'
    BY <1>1, <1>2, <1>4 DEF IndInv, TypeOK, ConnState, Interest
  <2>2. ListenerKept'
    BY <1>1, <1>2, <1>4, ServerAssumption DEF IndInv, TypeOK, ListenerKept
  <2> QED
    BY <2>1, <2>2
<1>6. OwnSocket'
  BY <1>1 DEF IndInv, TypeOK, OwnSocket, Live
<1>7. Watched'
  BY <1>1, <1>2, <1>3 DEF IndInv, TypeOK, Watched
<1>8. QueueCurrent' /\ OneEventPerFd'
  BY <1>1, <1>2
  DEF IndInv, TypeOK, EventRecord, QueueCurrent, OneEventPerFd
<1>9. Orphans' \subseteq Orphans
  BY <1>1, <1>2 DEF IndInv, TypeOK, Orphans
<1>10. FewOrphans'
  BY <1>1, <1>9, OrphansKept DEF IndInv, TypeOK
<1> QED
  BY <1>5, <1>6, <1>7, <1>8, <1>10 DEF IndInv

\* The object of a connection is deleted and its descriptor closed, while no
\* event for that descriptor remains in the queue.
LEMMA EndsInv ==
  ASSUME IndInv, event_queue_' \subseteq event_queue_,
         NEW c \in Conn, Live(c),
         \A e \in event_queue_' : e.fd # sock[c],
         Ends(c)
  PROVE  IndInv'
<1> DEFINE fd == sock[c]
<1>1. /\ conn' = [conn EXCEPT ![c] = "deleted"]
      /\ open' = [open EXCEPT ![fd] = Nobody]
      /\ interest' = [interest EXCEPT ![fd] = "none"]
      /\ ready' = ready \ {fd}
      /\ UNCHANGED <<running, sock, faults>>
  BY DEF Ends, Deletes, CloseFd
<1>2. \/ UNCHANGED <<event_callback_, event_priority_>>
      \/ /\ event_callback_' = [event_callback_ EXCEPT ![fd] = c]
         /\ event_priority_' = [event_priority_ EXCEPT ![fd] = HELPER_SOCK]
  BY DEF Ends, Track, Insert, mapVars
<1>3. fd \in Fd /\ open[fd] = c /\ fd # ListenSock
  BY ReactorAssumption DEF IndInv, TypeOK, OwnSocket, ListenerKept
<1>4. \A f \in Fd : f # fd /\ interest[f] \in {"in", "out"} => open[f] # c
  BY DEF IndInv, Watched
<1>5. \A d \in Conn : d # c /\ Live(d) => sock[d] # fd
  BY <1>3 DEF IndInv, OwnSocket
<1>6. /\ event_callback_' \in [Fd -> Conn \cup {Server, Nobody}]
      /\ event_priority_' \in [Fd -> Priority \cup {NoPriority}]
      /\ \A f \in Fd :
           event_callback_'[f] = Nobody <=> event_priority_'[f] = NoPriority
      /\ event_callback_'[ListenSock] = event_callback_[ListenSock]
      /\ event_priority_'[ListenSock] = event_priority_[ListenSock]
  <2>1. CASE UNCHANGED <<event_callback_, event_priority_>>
    BY <2>1 DEF IndInv, TypeOK
  <2>2. CASE /\ event_callback_' = [event_callback_ EXCEPT ![fd] = c]
             /\ event_priority_' = [event_priority_ EXCEPT ![fd] = HELPER_SOCK]
    BY <1>3, <2>2, ReactorAssumption
    DEF IndInv, TypeOK, Priority, NoPriority, HELPER_SOCK
  <2> QED
    BY <1>2, <2>1, <2>2
<1>7. TypeOK' /\ ListenerKept'
  <2>1. TypeOK'
    BY <1>1, <1>3, <1>6 DEF IndInv, TypeOK, ConnState, Interest
  <2>2. ListenerKept'
    BY <1>1, <1>3, <1>6, ServerAssumption DEF IndInv, TypeOK, ListenerKept
  <2> QED
    BY <2>1, <2>2
<1>8. OwnSocket'
  BY <1>1, <1>5 DEF IndInv, TypeOK, OwnSocket, Live
<1>9. Watched'
  BY <1>1, <1>2, <1>4 DEF IndInv, TypeOK, Watched
<1>10. QueueCurrent' /\ OneEventPerFd'
  BY <1>1, <1>2 DEF IndInv, TypeOK, EventRecord, QueueCurrent, OneEventPerFd
<1>11. Orphans' \subseteq Orphans
  BY <1>1, <1>3 DEF IndInv, TypeOK, Orphans
<1>12. FewOrphans'
  BY <1>1, <1>11, OrphansKept DEF IndInv, TypeOK
<1> QED
  BY <1>7, <1>8, <1>9, <1>10, <1>12 DEF IndInv

\* The dispatch of an event preserves the inductive invariant.
LEMMA DispatchInv ==
  ASSUME IndInv, NEW e \in event_queue_, Dispatch(e)
  PROVE  IndInv'
<1>1. event_queue_' = event_queue_ \ {e} /\ running = "running"
  BY DEF Dispatch, Pop
<1>2. /\ event_callback_[e.fd] = e.sock
      /\ open[e.fd] = e.sock
      /\ \/ e.sock = Server
         \/ e.sock \in Conn /\ Live(e.sock) /\ sock[e.sock] = e.fd
  BY InvDispatchLive DEF DispatchLive
<1>3. CASE AcceptCallback
  <2>1. CASE AcceptFails
    BY <1>1, <2>1, PopInv
    DEF AcceptFails, IndInv, TypeOK, kernelVars, mapVars, serverVars
  <2>2. CASE \E c \in Conn, fd \in Fd : AcceptForgets(c, fd) \/ AcceptTracks(c, fd)
    BY <1>1, <2>2, AcceptForgetsInv, AcceptTracksInv
  <2> QED
    BY <1>3, <2>1, <2>2 DEF AcceptCallback
<1>4. ASSUME NEW c \in Conn, event_callback_[e.fd] = c, ConnCallback(c)
      PROVE  IndInv'
  <2>1. Live(c) /\ sock[c] = e.fd
    BY <1>2, <1>4, ReactorAssumption
  <2>2. CASE KeepsOn(c) \/ Kills(c)
    BY <1>1, <2>2, PopInv
    DEF KeepsOn, Kills, IndInv, TypeOK, kernelVars, mapVars, serverVars
  <2>3. CASE Responds(c)
    <3>1. interest[sock[c]] # "none"
      BY <2>1 DEF IndInv, QueueCurrent
    <3>2. \A other \in event_queue_' : other.fd # sock[c]
      BY <1>1, <2>1 DEF IndInv, OneEventPerFd
    <3> QED
      BY <1>1, <2>3, <3>1, <3>2, RespondsInv
  <2>4. CASE Ends(c)
    <3>1. \A other \in event_queue_' : other.fd # sock[c]
      BY <1>1, <2>1 DEF IndInv, OneEventPerFd
    <3> QED
      BY <1>1, <2>1, <2>4, <3>1, EndsInv
  <2> QED
    BY <1>4, <2>2, <2>3, <2>4 DEF ConnCallback
<1> QED
  BY <1>3, <1>4 DEF Dispatch

-----------------------------------------------------------------------------

\* Every step preserves the inductive invariant.
LEMMA NextInv == IndInv /\ [Next]_vars => IndInv'
<1> SUFFICES ASSUME IndInv, [Next]_vars
             PROVE  IndInv'
  OBVIOUS
<1>1. CASE Wait
  BY <1>1, WaitInv
<1>2. CASE \E e \in event_queue_ : Dispatch(e)
  BY <1>2, DispatchInv
<1>3. CASE Interrupt
  BY <1>3, InterruptInv
<1>4. CASE \E c \in Conn : Connect(c)
  BY <1>4, ConnectInv
<1>5. CASE \E fd \in Fd : Activity(fd)
  BY <1>5, ActivityInv
<1>6. CASE UNCHANGED vars
  BY <1>6, PopInv
  DEF vars, kernelVars, reactorVars, mapVars, serverVars, IndInv, TypeOK
<1> QED
  BY <1>1, <1>2, <1>3, <1>4, <1>5, <1>6 DEF Next, Reacts

\* The inductive invariant holds in every reachable state.
THEOREM Invariance == Spec => []IndInv
<1> QED
  BY InitInv, NextInv, PTL DEF Spec

\* Type correctness: in particular the two maps of IOReactor always have the
\* same keys.
THEOREM TypeCorrect == Spec => []TypeOK
<1>1. IndInv => TypeOK
  BY DEF IndInv
<1> QED
  BY <1>1, Invariance, PTL

\* runCallback (reactor.h:91) never meets a dangling callback: an event is
\* dispatched to the live object of the socket it was reported for, although
\* callbacks are never unregistered and descriptors are reused.
THEOREM DispatchIsLive == Spec => []DispatchLive
<1> QED
  BY InvDispatchLive, Invariance, PTL

\* The destructor (connection_types.h:90) closes only its own descriptor.
THEOREM OwnSocketIsKept == Spec => []OwnSocket
<1>1. IndInv => OwnSocket
  BY DEF IndInv
<1> QED
  BY <1>1, Invariance, PTL

\* A failed fcntl or EPOLL_CTL_ADD after accept() (socket_utilities.h:172,
\* listening_server.h:43) loses one descriptor, and nothing else loses any.
THEOREM DescriptorsAreAccounted == Spec => []DescriptorsAccounted
<1>1. IndInv => DescriptorsAccounted
  <2> SUFFICES ASSUME IndInv
               PROVE  DescriptorsAccounted
    OBVIOUS
  <2>1. ASSUME NEW f \in Fd \ {ListenSock}, open[f] # Nobody, f \notin Orphans
        PROVE  \E c \in Conn : Live(c) /\ sock[c] = f
    <3>1. interest[f] \in {"in", "out"}
      BY <2>1 DEF IndInv, TypeOK, Interest, Orphans, ListenerKept
    <3> QED
      BY <3>1 DEF IndInv, Watched, Live
  <2> QED
    BY <2>1 DEF DescriptorsAccounted, IndInv, FewOrphans
<1> QED
  BY <1>1, Invariance, PTL

\* The three steps of modifyTrack and addTrack (reactor.h:61-80) leave epoll's
\* mask, the callback and the priority in agreement with the object's state.
THEOREM RegistrationIsCoherent == Spec => []RegistrationCoherent
<1>1. IndInv => RegistrationCoherent
  <2> SUFFICES ASSUME IndInv, NEW c \in Conn, Live(c), interest[sock[c]] # "none"
               PROVE  /\ event_callback_[sock[c]] = c
                      /\ interest[sock[c]] =
                           (IF conn[c] = "reading" THEN "in" ELSE "out")
                      /\ event_priority_[sock[c]] =
                           (IF conn[c] = "reading" THEN NEW_SOCK ELSE HELPER_SOCK)
    BY DEF RegistrationCoherent
  <2>1. sock[c] \in Fd /\ open[sock[c]] = c
    BY DEF IndInv, TypeOK, OwnSocket
  <2>2. sock[c] # ListenSock
    BY <2>1, ReactorAssumption DEF IndInv, ListenerKept
  <2>3. interest[sock[c]] \in {"in", "out"}
    BY <2>1, <2>2 DEF IndInv, TypeOK, Interest, ListenerKept
  <2> QED
    BY <2>1, <2>3 DEF IndInv, Watched
<1> QED
  BY <1>1, Invariance, PTL

\* The answers go last, whatever was closed, reused or registered again between
\* the epoll_wait that queued a batch and the dispatch (PQComparator,
\* reactor.h:26, with the priorities looked up at reactor.h:129): a queued event
\* has the priority that goes with what its connection does now, so that the
\* least priority is an answer's only when every event left is one's.
THEOREM AnswersAreLast == Spec => AnswersGoLast
<1> DEFINE Last == \A e \in event_queue_ \ event_queue_' :
                     Writes(e) => \A other \in event_queue_' : Writes(other)
<1>1. ASSUME IndInv, NEW e \in event_queue_
      PROVE  /\ e.priority \in {LISTEN_SOCK, NEW_SOCK, HELPER_SOCK}
             /\ Writes(e) <=> e.priority = HELPER_SOCK
  <2>1. /\ e.fd \in Fd /\ interest[e.fd] \in Interest
        /\ e.sock = open[e.fd] /\ interest[e.fd] # "none"
        /\ e.priority = event_priority_[e.fd]
    BY <1>1 DEF IndInv, TypeOK, EventRecord, QueueCurrent
  <2>2. CASE interest[e.fd] = "accept"
    <3>1. e.sock = Server /\ e.priority = LISTEN_SOCK
      BY <1>1, <2>1, <2>2 DEF IndInv, ListenerKept
    <3> QED
      BY <3>1, ReactorAssumption DEF Writes, LISTEN_SOCK, NEW_SOCK, HELPER_SOCK
  <2>3. CASE interest[e.fd] \in {"in", "out"}
    BY <1>1, <2>1, <2>3
    DEF IndInv, Watched, Writes, LISTEN_SOCK, NEW_SOCK, HELPER_SOCK
  <2> QED
    BY <2>1, <2>2, <2>3 DEF Interest
<1>2. ASSUME IndInv, [Next]_vars
      PROVE  [Last]_vars
  <2>1. ASSUME NEW e \in event_queue_, Dispatch(e)
        PROVE  Last
    <3>1. /\ event_queue_' = event_queue_ \ {e}
          /\ \A other \in event_queue_ : e.priority <= other.priority
      BY <2>1 DEF Dispatch, Pop, IsTop
    <3> SUFFICES ASSUME Writes(e), NEW other \in event_queue_'
                 PROVE  Writes(other)
      BY <3>1
    <3> QED
      BY <1>1, <1>2, <3>1 DEF LISTEN_SOCK, NEW_SOCK, HELPER_SOCK
  <2>2. CASE Wait
    BY <2>2 DEF Wait, EpollWait
  <2>3. CASE Interrupt \/ (\E c \in Conn : Connect(c)) \/ (\E fd \in Fd : Activity(fd))
    BY <2>3 DEF Interrupt, WaitInterrupted, Connect, Activity, SocketEvent,
                reactorVars
  <2>4. CASE UNCHANGED vars
    BY <2>4
  <2> QED
    BY <1>2, <2>1, <2>2, <2>3, <2>4 DEF Next, Reacts
<1> QED
  BY <1>2, Invariance, PTL DEF Spec, AnswersGoLast

-----------------------------------------------------------------------------
(* The life of each connection.                                            *)

\* A step that changes neither the connection nor what its descriptor is
\* watched for is not seen by it.
LEMMA LifeStutters ==
  ASSUME NEW c \in Conn, conn'[c] = conn[c], running' = running,
         Live(c) => sock'[c] = sock[c] /\ interest'[sock[c]] = interest[sock[c]]
  PROVE  UNCHANGED Life(c)!lvars
BY DEF Life!lvars, LifeOf, WatchOf, Serving, Live

\* A connection without an object that gets none.
LEMMA LifeAbsent ==
  ASSUME NEW c \in Conn, conn[c] \in {"unborn", "pending"},
         conn'[c] \in {"pending", "dropped"}, running' = running
  PROVE  UNCHANGED Life(c)!lvars
BY DEF Life!lvars, LifeOf, WatchOf, Serving, Live

\* Two live objects have different descriptors.
LEMMA LiveApart ==
  ASSUME IndInv, NEW c \in Conn, NEW d \in Conn, Live(c), Live(d), c # d
  PROVE  sock[c] # sock[d]
BY DEF IndInv, OwnSocket

\* What a watched live object is registered for.
LEMMA LiveWatched ==
  ASSUME IndInv, NEW c \in Conn, Live(c), interest[sock[c]] # "none"
  PROVE  /\ interest[sock[c]] = (IF conn[c] = "reading" THEN "in" ELSE "out")
         /\ LifeOf(c) = conn[c] /\ WatchOf(c) = interest[sock[c]]
<1>1. sock[c] \in Fd /\ open[sock[c]] = c
  BY DEF IndInv, TypeOK, OwnSocket
<1>2. sock[c] # ListenSock
  BY <1>1, ReactorAssumption DEF IndInv, ListenerKept
<1>3. interest[sock[c]] \in {"in", "out"}
  BY <1>1, <1>2 DEF IndInv, TypeOK, Interest, ListenerKept
<1> QED
  BY <1>1, <1>3 DEF IndInv, Watched, Live, LifeOf, WatchOf

\* The listener's callback gives an object to one connection.
LEMMA AcceptLife ==
  ASSUME IndInv, running = "running", NEW c \in Conn, AcceptCallback
  PROVE  [Life(c)!Next]_(Life(c)!lvars)
<1>1. CASE AcceptFails
  BY <1>1, LifeStutters DEF AcceptFails, kernelVars, serverVars
<1>2. ASSUME NEW d \in Conn, NEW fd \in Fd, AcceptForgets(d, fd)
      PROVE  [Life(c)!Next]_(Life(c)!lvars)
  <2>1. /\ conn[d] = "pending" /\ conn' = [conn EXCEPT ![d] = "dropped"]
        /\ UNCHANGED <<interest, sock, running>>
    BY <1>2 DEF AcceptForgets
  <2>2. CASE c = d
    BY <2>1, <2>2, LifeAbsent DEF IndInv, TypeOK
  <2>3. CASE c # d
    BY <2>1, <2>3, LifeStutters DEF IndInv, TypeOK
  <2> QED
    BY <2>2, <2>3
<1>3. ASSUME NEW d \in Conn, NEW fd \in Fd, AcceptTracks(d, fd)
      PROVE  [Life(c)!Next]_(Life(c)!lvars)
  <2>1. /\ interest[fd] = "none"
        /\ \A b \in Conn : Live(b) => sock[b] # fd
    BY <1>3, NewFdInv DEF AcceptTracks
  <2>2. /\ conn[d] = "pending" /\ conn' = [conn EXCEPT ![d] = "reading"]
        /\ sock' = [sock EXCEPT ![d] = fd]
        /\ running' = running
        /\ interest' = [interest EXCEPT ![fd] = "in"] \/ interest' = interest
    BY <1>3 DEF AcceptTracks, AddTrack
  <2>3. CASE c = d
    <3>1. LifeOf(c) = "absent" /\ Serving = TRUE
      BY <2>2, <2>3 DEF LifeOf, Serving
    <3>2. conn'[c] = "reading" /\ sock'[c] = fd /\ interest'[fd] \in {"in", "none"}
      BY <2>1, <2>2, <2>3 DEF IndInv, TypeOK
    <3>3. LifeOf(c)' = "reading" /\ WatchOf(c)' \in {"in", "none"} /\ Serving' = Serving
      BY <2>2, <3>2 DEF LifeOf, WatchOf, Live, Serving
    <3> QED
      BY <3>1, <3>3 DEF Life!Next, Life!Accept
  <2>4. CASE c # d
    <3>1. conn'[c] = conn[c] /\ sock'[c] = sock[c]
      BY <2>2, <2>4 DEF IndInv, TypeOK
    <3>2. Live(c) => interest'[sock[c]] = interest[sock[c]]
      BY <2>1, <2>2 DEF IndInv, TypeOK
    <3> QED
      BY <2>2, <3>1, <3>2, LifeStutters
  <2> QED
    BY <2>3, <2>4
<1> QED
  BY <1>1, <1>2, <1>3 DEF AcceptCallback

\* The callback of connection d is a step of d's life and of no other.
LEMMA CallbackLife ==
  ASSUME IndInv, running = "running", NEW c \in Conn, NEW d \in Conn,
         Live(d), interest[sock[d]] # "none", ConnCallback(d)
  PROVE  [Life(c)!Next]_(Life(c)!lvars)
<1>1. /\ interest[sock[d]] = (IF conn[d] = "reading" THEN "in" ELSE "out")
      /\ LifeOf(d) = conn[d] /\ WatchOf(d) = interest[sock[d]]
      /\ Serving = TRUE
  BY LiveWatched DEF Serving
<1>2. sock[d] \in Fd
  BY DEF IndInv, TypeOK
<1>3. CASE KeepsOn(d)
  BY <1>3, LifeStutters DEF KeepsOn, kernelVars, serverVars
<1>4. CASE Kills(d)
  <2>1. LifeOf(c)' = LifeOf(c) /\ WatchOf(c)' = WatchOf(c) /\ Serving' = FALSE
    BY <1>4 DEF Kills, kernelVars, serverVars, LifeOf, WatchOf, Live, Serving
  <2> QED
    BY <1>1, <2>1 DEF Life!Next, Life!Stop
<1>5. CASE Responds(d)
  <2>1. /\ conn[d] = "reading" /\ conn' = [conn EXCEPT ![d] = "writing"]
        /\ interest' = [interest EXCEPT ![sock[d]] = "out"]
        /\ UNCHANGED <<running, sock>>
    BY <1>5 DEF Responds, ModifyTrack
  <2>2. CASE c = d
    <3>1. LifeOf(c)' = "writing" /\ WatchOf(c)' = "out" /\ Serving' = Serving
      BY <1>2, <2>1, <2>2 DEF IndInv, TypeOK, LifeOf, WatchOf, Live, Serving
    <3> QED
      BY <1>1, <2>1, <2>2, <3>1 DEF Life!Next, Life!Respond
  <2>3. CASE c # d
    BY <2>1, <2>3, LiveApart, LifeStutters DEF IndInv, TypeOK
  <2> QED
    BY <2>2, <2>3
<1>6. CASE Ends(d)
  <2>1. /\ conn' = [conn EXCEPT ![d] = "deleted"]
        /\ interest' = [interest EXCEPT ![sock[d]] = "none"]
        /\ UNCHANGED <<running, sock>>
    BY <1>6 DEF Ends, Deletes, CloseFd
  <2>2. CASE c = d
    <3>1. LifeOf(c)' = "deleted" /\ WatchOf(c)' = "none" /\ Serving' = Serving
      BY <1>2, <2>1, <2>2 DEF IndInv, TypeOK, LifeOf, WatchOf, Live, Serving
    <3> QED
      BY <1>1, <2>2, <3>1 DEF Life!Next, Life!End, Live
  <2>3. CASE c # d
    BY <2>1, <2>3, LiveApart, LifeStutters DEF IndInv, TypeOK
  <2> QED
    BY <2>2, <2>3
<1> QED
  BY <1>3, <1>4, <1>5, <1>6 DEF ConnCallback

\* Every step of the server is, for each connection, a step of its life or not
\* seen by it.
LEMMA LifeStep ==
  ASSUME IndInv, [Next]_vars, NEW c \in Conn
  PROVE  [Life(c)!Next]_(Life(c)!lvars)
<1>1. CASE Wait \/ (\E fd \in Fd : Activity(fd)) \/ UNCHANGED vars
  <2>1. UNCHANGED <<conn, sock, interest, running>>
    BY <1>1 DEF Wait, EpollWait, Activity, SocketEvent, vars, kernelVars, reactorVars,
                serverVars
  <2> QED
    BY <2>1, LifeStutters
<1>2. CASE Interrupt
  <2>1. /\ UNCHANGED <<conn, sock, interest>>
        /\ running = "running" /\ running' = "stopped"
    BY <1>2 DEF Interrupt, WaitInterrupted, kernelVars, serverVars
  <2>2. /\ LifeOf(c)' = LifeOf(c) /\ WatchOf(c)' = WatchOf(c)
        /\ Serving = TRUE /\ Serving' = FALSE
    BY <2>1 DEF LifeOf, WatchOf, Live, Serving
  <2> QED
    BY <2>2 DEF Life!Next, Life!Stop
<1>3. ASSUME NEW d \in Conn, Connect(d)
      PROVE  [Life(c)!Next]_(Life(c)!lvars)
  <2>1. /\ conn[d] = "unborn" /\ conn' = [conn EXCEPT ![d] = "pending"]
        /\ UNCHANGED <<interest, sock, running>>
    BY <1>3 DEF Connect, kernelVars, reactorVars
  <2>2. CASE c = d
    BY <2>1, <2>2, LifeAbsent DEF IndInv, TypeOK
  <2>3. CASE c # d
    BY <2>1, <2>3, LifeStutters DEF IndInv, TypeOK
  <2> QED
    BY <2>2, <2>3
<1>4. ASSUME NEW e \in event_queue_, Dispatch(e)
      PROVE  [Life(c)!Next]_(Life(c)!lvars)
  <2>1. running = "running"
    BY <1>4 DEF Dispatch, Pop
  <2>2. /\ event_callback_[e.fd] = e.sock
        /\ \/ e.sock = Server
           \/ e.sock \in Conn /\ Live(e.sock) /\ sock[e.sock] = e.fd
    BY InvDispatchLive DEF DispatchLive
  <2>3. interest[e.fd] # "none"
    BY DEF IndInv, QueueCurrent
  <2>4. ASSUME NEW d \in Conn, event_callback_[e.fd] = d, ConnCallback(d)
        PROVE  [Life(c)!Next]_(Life(c)!lvars)
    <3>1. Live(d) /\ sock[d] = e.fd
      BY <2>2, <2>4, ReactorAssumption
    <3> QED
      BY <2>1, <2>3, <2>4, <3>1, CallbackLife
  <2> QED
    BY <1>4, <2>1, <2>4, AcceptLife DEF Dispatch
<1> QED
  BY <1>1, <1>2, <1>3, <1>4 DEF Next, Reacts

\* Each connection of the server lives as Lifecycle says: descriptors that are
\* reused and callbacks that are never removed let no connection act on another.
THEOREM LivesAreImplemented == Spec => ImplementsLifecycle
<1> DEFINE Steps == \A c \in Conn : [Life(c)!Next]_(Life(c)!lvars)
<1>1. Init => \A c \in Conn : Life(c)!Init
  BY DEF Init, Life!Init, LifeOf, WatchOf, Live, Serving
<1>2. IndInv /\ [Next]_vars => [Steps]_vars
  BY LifeStep
<1> QED
  BY <1>1, <1>2, Invariance, PTL DEF Spec, ImplementsLifecycle
=============================================================================
