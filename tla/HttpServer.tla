----------------------------- MODULE HttpServer -----------------------------
(***************************************************************************)
(* The running server of src/server.cpp: HttpServer::listen of             *)
(* include/listening_server.h accepts connections, the reactor dispatches  *)
(* their events, and each Clientconnection answers or deletes itself.      *)
(* Descriptors are reused, callbacks are never unregistered and callbacks  *)
(* hold pointers to objects that may be gone: this module is about which   *)
(* object an event reaches.                                                *)
(*                                                                         *)
(* One dispatched callback is one step. Within it a connection does what   *)
(* ClientConnection, which has the system calls of the handler one by one, *)
(* can do from one epoll_wait to the next.                                 *)
(***************************************************************************)
EXTENDS Reactor

CONSTANTS
  ListenSock,   \* the descriptor of the listening socket
  MaxFaults     \* bound: system calls that fail for want of resources

ASSUME ServerAssumption ==
  /\ ListenSock \in Fd
  /\ MaxFaults \in Nat

VARIABLES
  conn,    \* the state of each connection and its object
  sock,    \* the member `socket' of each object
  faults   \* number of failed system calls

serverVars == <<conn, sock, faults>>
vars == <<kernelVars, reactorVars, serverVars>>

\* Not yet connecting; in the backlog of the listening socket; accepted, with
\* an object that reads or writes; object deleted; accepted and given up.
ConnState == {"unborn", "pending", "reading", "writing", "deleted", "dropped"}

Live(c) == conn[c] \in {"reading", "writing"}

\* The listening socket is level-triggered: ready while the backlog is not
\* empty.
Acceptable == IF \E c \in Conn : conn[c] = "pending" THEN {ListenSock} ELSE {}

\* The constructor bound the socket, listen() registered it and entered
\* reactorRun.
Init ==
  /\ open = [f \in Fd |-> IF f = ListenSock THEN Server ELSE Nobody]
  /\ interest = [f \in Fd |-> IF f = ListenSock THEN "accept" ELSE "none"]
  /\ ready = {}
  /\ event_callback_ = [f \in Fd |-> IF f = ListenSock THEN Server ELSE Nobody]
  /\ event_priority_ =
       [f \in Fd |-> IF f = ListenSock THEN LISTEN_SOCK ELSE NoPriority]
  /\ event_queue_ = {}
  /\ running = "running"
  /\ conn = [c \in Conn |-> "unborn"]
  /\ sock = [c \in Conn |-> ListenSock]
  /\ faults = 0

\* A peer connects; the connection waits to be accepted.
Connect(c) ==
  /\ running = "running"
  /\ conn[c] = "unborn"
  /\ conn' = [conn EXCEPT ![c] = "pending"]
  /\ UNCHANGED <<kernelVars, reactorVars, sock, faults>>

-----------------------------------------------------------------------------
(* The callback of the listening socket.                                   *)

\* accept() fails, because no descriptor is left or for a reason outside the
\* process; the connection stays in the backlog.
AcceptFails ==
  /\ \/ Free = {} /\ UNCHANGED faults
     \/ faults < MaxFaults /\ faults' = faults + 1
  /\ UNCHANGED <<kernelVars, mapVars, running, conn, sock>>

\* accept() succeeds but making the descriptor non-blocking fails: -1 is
\* returned and the descriptor forgotten.
AcceptForgets(c, fd) ==
  /\ conn[c] = "pending" /\ IsNewFd(fd)
  /\ faults < MaxFaults
  /\ faults' = faults + 1
  /\ open' = [open EXCEPT ![fd] = c]
  /\ conn' = [conn EXCEPT ![c] = "dropped"]
  /\ UNCHANGED <<interest, ready, mapVars, running, sock>>

\* A new Clientconnection is registered with the reactor; the result of
\* addTrack, -1 when EPOLL_CTL_ADD fails, is not looked at.
AcceptTracks(c, fd) ==
  /\ conn[c] = "pending" /\ IsNewFd(fd)
  /\ open' = [open EXCEPT ![fd] = c]
  /\ conn' = [conn EXCEPT ![c] = "reading"]
  /\ sock' = [sock EXCEPT ![c] = fd]
  /\ \/ /\ AddTrack(fd, "in", NEW_SOCK, c)
        /\ UNCHANGED faults
     \/ /\ faults < MaxFaults
        /\ faults' = faults + 1
        /\ UNCHANGED <<interest, ready, mapVars>>
  /\ UNCHANGED running

\* Mutant: the tests for EPOLLERR and EPOLLIN are swapped.
AcceptSwapped == UNCHANGED <<kernelVars, mapVars, running, serverVars>>

AcceptCallback ==
  \/ AcceptFails
  \/ \E c \in Conn, fd \in Fd : AcceptForgets(c, fd) \/ AcceptTracks(c, fd)

-----------------------------------------------------------------------------
(* The callback of connection c: handleEvent, see ClientConnection.        *)

\* Nothing that shows here: part of a request is read, or part of an answer
\* is sent, or the event is dropped.
KeepsOn(c) == UNCHANGED <<kernelVars, mapVars, running, serverVars>>

\* A request is complete: write() turns the registration to output.
Responds(c) ==
  /\ conn[c] = "reading"
  /\ conn' = [conn EXCEPT ![c] = "writing"]
  /\ ModifyTrack(sock[c], "out", HELPER_SOCK, c)
  /\ UNCHANGED <<open, running, sock, faults>>

\* Mutant: the user's callback calls close() instead of deleting the object.
ClosesOnly(c) ==
  /\ CloseFd(sock[c])
  /\ UNCHANGED serverVars

\* Mutant: the destructor does not close the socket.
DeletesOnly(c) ==
  /\ conn' = [conn EXCEPT ![c] = "deleted"]
  /\ UNCHANGED <<kernelVars, sock, faults>>

\* `delete conn': the destructor closes whatever its descriptor refers to;
\* the reactor keeps the callback and the priority.
Deletes(c) ==
  /\ conn' = [conn EXCEPT ![c] = "deleted"]
  /\ CloseFd(sock[c])
  /\ UNCHANGED <<sock, faults>>

\* The exchange is over, or the peer has gone. When a complete request is
\* followed by the end of the stream in one read loop, write() has registered
\* the socket again before.
Ends(c) ==
  /\ Deletes(c)
  /\ \/ UNCHANGED mapVars
     \/ conn[c] = "reading" /\ Track(sock[c], HELPER_SOCK, c)
  /\ UNCHANGED running

\* SIGPIPE, or the abort of RecvDeleted.
Kills(c) ==
  /\ running' = "killed"
  /\ UNCHANGED <<kernelVars, mapVars, serverVars>>

ConnCallback(c) == KeepsOn(c) \/ Responds(c) \/ Ends(c) \/ Kills(c)

-----------------------------------------------------------------------------

\* The callback that runCallback finds is run; DispatchLive shows that there
\* is one.
Dispatch(e) ==
  /\ Pop(e)
  /\ \/ event_callback_[e.fd] = Server /\ AcceptCallback
     \/ \E c \in Conn : event_callback_[e.fd] = c /\ ConnCallback(c)

Wait == EpollWait(Acceptable) /\ UNCHANGED serverVars
Interrupt == WaitInterrupted /\ UNCHANGED serverVars
Activity(fd) == SocketEvent(fd) /\ UNCHANGED serverVars

Reacts == Wait \/ \E e \in event_queue_ : Dispatch(e)

Next ==
  \/ Reacts
  \/ Interrupt
  \/ \E c \in Conn : Connect(c)
  \/ \E fd \in Fd : Activity(fd)

Spec == Init /\ [][Next]_vars

\* The one thread of the server keeps running: it is scheduled, epoll_wait
\* returns when a descriptor is ready, and takes turns among the ready
\* descriptors when there are more than MaxEvents of them.
Fetches(f) == Wait /\ \E e \in event_queue_' : e.fd = f
FairSpec == Spec /\ WF_vars(Reacts) /\ \A f \in Fd : SF_vars(Fetches(f))

-----------------------------------------------------------------------------
(* Properties.                                                             *)

EventRecord ==
  [fd : Fd, sock : Conn \cup {Server, Nobody}, priority : Priority]

\* Every variable has its type; only watched descriptors are on the ready
\* list; the two maps have the same keys.
TypeOK ==
  /\ open \in [Fd -> Conn \cup {Server, Nobody}]
  /\ interest \in [Fd -> Interest]
  /\ ready \subseteq {f \in Fd : interest[f] \in {"in", "out"}}
  /\ event_callback_ \in [Fd -> Conn \cup {Server, Nobody}]
  /\ event_priority_ \in [Fd -> Priority \cup {NoPriority}]
  /\ \A f \in Fd : event_callback_[f] = Nobody <=> event_priority_[f] = NoPriority
  /\ event_queue_ \subseteq EventRecord
  /\ running \in {"running", "stopped", "killed"}
  /\ conn \in [Conn -> ConnState]
  /\ sock \in [Conn -> Fd]
  /\ faults \in Nat

\* An event is dispatched to the object of the socket it was reported for,
\* and that object is alive, although callbacks of closed descriptors stay in
\* the map with pointers to deleted objects, descriptors are reused, and
\* other callbacks run between epoll_wait and the dispatch.
DispatchLive ==
  \A e \in event_queue_ :
    /\ event_callback_[e.fd] = e.sock
    /\ open[e.fd] = e.sock
    /\ \/ e.sock = Server
       \/ e.sock \in Conn /\ Live(e.sock) /\ sock[e.sock] = e.fd

\* The descriptor a live object will close is still its own: no destructor
\* closes a descriptor that was reused for another connection.
OwnSocket == \A c \in Conn : Live(c) => open[sock[c]] = c

\* Each failed system call costs at most one descriptor, which no event can
\* reach any more; every other open descriptor is the listening socket's or
\* that of a live object that the reactor watches.
Orphans == {f \in Fd : open[f] # Nobody /\ interest[f] = "none"}
DescriptorsAccounted ==
  /\ Cardinality(Orphans) <= faults
  /\ \A f \in Fd \ {ListenSock} :
       open[f] # Nobody /\ f \notin Orphans =>
         \E c \in Conn : Live(c) /\ sock[c] = f

\* What the kernel watches a descriptor for and what the reactor has stored
\* for it agree with the state of the object behind it.
RegistrationCoherent ==
  \A c \in Conn :
    Live(c) /\ interest[sock[c]] # "none" =>
      /\ event_callback_[sock[c]] = c
      /\ interest[sock[c]] = (IF conn[c] = "reading" THEN "in" ELSE "out")
      /\ event_priority_[sock[c]] =
           (IF conn[c] = "reading" THEN NEW_SOCK ELSE HELPER_SOCK)

\* Answers go last: when an event of a connection that has an answer to send is
\* dispatched, no accept and no connection that reads is waiting in the queue.
\* The order is that of the priorities looked up when the batch was fetched, in
\* a map that keeps those of closed connections; this is about what the
\* connections behind the events are at the dispatch.
Writes(e) == e.sock \in Conn /\ conn[e.sock] = "writing"
AnswersGoLast ==
  [][\A e \in event_queue_ \ event_queue_' :
       Writes(e) => \A other \in event_queue_' : Writes(other)]_vars

\* One connection, and what epoll watches its descriptor for.
LifeOf(c)  == IF conn[c] \in {"reading", "writing", "deleted"} THEN conn[c]
              ELSE "absent"
WatchOf(c) == IF Live(c) THEN interest[sock[c]] ELSE "none"
Serving    == running = "running"
Life(c)    == INSTANCE Lifecycle
                WITH life <- LifeOf(c), watch <- WatchOf(c), serving <- Serving

\* Each connection lives through its own callbacks and nobody else's: although
\* descriptors are reused and callbacks are found by descriptor, no callback
\* of another connection changes its object or its registration. This
\* is Life(c)!Spec for every c, with the quantifier inside the box.
ImplementsLifecycle ==
  /\ \A c \in Conn : Life(c)!Init
  /\ [][\A c \in Conn : [Life(c)!Next]_(Life(c)!lvars)]_vars

\* Every queued event is dispatched, however busy the listening socket is,
\* unless the reactor stops.
QueueServed ==
  \A f \in Fd :
    (\E e \in event_queue_ : e.fd = f)
      ~> ((\A e \in event_queue_ : e.fd # f) \/ running # "running")

\* A pending connection is accepted unless all descriptors are in use or the
\* reactor stops, although each event of the listening socket accepts one
\* connection only.
BacklogServed ==
  \A c \in Conn :
    conn[c] = "pending" ~> (conn[c] # "pending" \/ Free = {} \/ running # "running")

=============================================================================
