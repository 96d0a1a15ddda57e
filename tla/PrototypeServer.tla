--------------------------- MODULE PrototypeServer ---------------------------
(***************************************************************************)
(* The older server of src/temp.cpp: one loop that fetches a batch of      *)
(* events and handles each by a lookup in fd_map, a map from descriptor to *)
(* connection object. HttpConnection comes from a header that the          *)
(* repository does not have; only its allocation and deletion matter here. *)
(*                                                                         *)
(* One handler is one step. What a peer does while a handler runs has the  *)
(* effect of the same done between epoll_wait and the handler, since an    *)
(* event keeps the flags that epoll_wait reported.                         *)
(***************************************************************************)
EXTENDS Integers, FiniteSets

CONSTANTS
  Fd,           \* the descriptors the process may have open for sockets
  Conn,         \* the connections, each also naming its HttpConnection
  Server,       \* the listening socket
  Nobody,       \* no socket behind a descriptor; no entry in fd_map
  ListenSock,   \* sockfd
  MaxEvents,    \* MAX_EVENTS
  MaxFaults     \* bound: system calls that fail for want of resources

ASSUME PrototypeAssumption ==
  /\ Fd \subseteq Nat /\ ListenSock \in Fd
  /\ Server \notin Conn /\ Nobody \notin Conn /\ Server # Nobody
  /\ MaxEvents \in Nat \ {0}
  /\ MaxFaults \in Nat

VARIABLES
  \* the peers
  backlog,    \* connections waiting to be accepted
  unborn,     \* connections not made yet
  unread,     \* connections with bytes that were not received
  fin, rst,   \* connections whose peer shut down, or reset
  \* the kernel's side of the process
  open,       \* the socket each descriptor refers to
  watched,    \* descriptors in the epoll instance
  armed,      \* watched descriptors on the ready list
  \* the program
  events,     \* fetched events that were not handled yet
  fd_map,
  object,     \* each connection's HttpConnection: "none", "live" or "deleted"
  running,    \* "starting", "running", "exited" or "crashed"
  faults      \* number of failed system calls

peerVars    == <<backlog, unborn, unread, fin, rst>>
kernelVars  == <<open, watched, armed>>
programVars == <<events, fd_map, object, running, faults>>
vars == <<peerVars, kernelVars, programVars>>

Init ==
  /\ backlog = {} /\ unborn = Conn /\ unread = {} /\ fin = {} /\ rst = {}
  /\ open = [f \in Fd |-> IF f = ListenSock THEN Server ELSE Nobody]
  /\ watched = {ListenSock} /\ armed = {}
  /\ events = {}
  /\ fd_map = [f \in Fd |-> Nobody]
  /\ object = [c \in Conn |-> "none"]
  /\ running = "starting"
  /\ faults = 0

-----------------------------------------------------------------------------
(* The peers and the kernel.                                               *)

\* The descriptor of an accepted connection.
FdOf(c) == {f \in Fd : open[f] = c}

\* Something happens on connection c.
Wake(c) == armed' = armed \cup (FdOf(c) \cap watched)

Connect(c) ==
  /\ running = "running" /\ c \in unborn
  /\ unborn' = unborn \ {c}
  /\ backlog' = backlog \cup {c}
  /\ UNCHANGED <<unread, fin, rst, kernelVars, programVars>>

\* A peer sends, shuts down or resets, also before it is accepted.
PeerActs(c) ==
  /\ running = "running" /\ c \notin unborn \cup rst
  /\ object[c] = "none" \/ FdOf(c) # {}
  /\ \/ c \notin fin /\ unread' = unread \cup {c} /\ UNCHANGED <<fin, rst>>
     \/ c \notin fin /\ fin' = fin \cup {c} /\ UNCHANGED <<unread, rst>>
     \/ rst' = rst \cup {c} /\ UNCHANGED <<unread, fin>>
  /\ Wake(c)
  /\ UNCHANGED <<backlog, unborn, open, watched, programVars>>

Readable(c) == c \in unread \cup fin \cup rst

\* A new descriptor is the lowest free one.
IsNewFd(fd) == open[fd] = Nobody /\ \A f \in Fd : open[f] = Nobody => fd <= f

CloseFd(fd) ==
  /\ open' = [open EXCEPT ![fd] = Nobody]
  /\ watched' = watched \ {fd}
  /\ armed' = armed \ {fd}

-----------------------------------------------------------------------------
(* The program.                                                            *)

\* Everything before the loop: each failure exits, and a host without an IPv4
\* address dereferences a null pointer.
Start ==
  /\ running = "starting"
  /\ running' \in {"running", "exited", "crashed"}
  /\ UNCHANGED <<peerVars, kernelVars, events, fd_map, object, faults>>

\* The for loop over the events has ended.
BatchDone == events = {}

\* The descriptors that epoll_wait may report: the listening socket is
\* level-triggered, and an armed one is polled again.
Reportable ==
  {f \in armed : open[f] \in Conn /\ Readable(open[f])}
    \cup {f \in {ListenSock} : backlog # {}}

\* Mutant: a reset is not among the flags that are tested.
GoneOnShutdown(c) == c \in fin

\* EPOLLHUP, EPOLLERR or EPOLLRDHUP is set.
Gone(c) == c \in fin \cup rst

Event(f) == [fd |-> f, sock |-> open[f], gone |-> Gone(open[f])]

\* epoll_wait; its timeout of 5 ms only makes the loop go round.
EpollWait ==
  /\ running = "running" /\ BatchDone
  /\ Reportable # {}
  /\ \E batch \in SUBSET Reportable :
       /\ \/ Cardinality(batch) = MaxEvents
          \/ batch = Reportable /\ Cardinality(batch) < MaxEvents
       /\ events' = events \cup {Event(f) : f \in batch}
       /\ armed' = (armed \ batch) \cap Reportable
  /\ UNCHANGED <<peerVars, open, watched, fd_map, object, running, faults>>

\* epoll_wait returns -1 (EINTR): the process exits.
WaitFails ==
  /\ running = "running" /\ BatchDone
  /\ running' = "exited"
  /\ UNCHANGED <<peerVars, kernelVars, events, fd_map, object, faults>>

\* unordered_map::insert leaves an entry that is there.
InsertIfAbsent(fd, c) ==
  fd_map' = [fd_map EXCEPT ![fd] = IF @ = Nobody THEN c ELSE @]

\* Mutant: handleNewConnection returns when EPOLL_CTL_ADD has failed.
AllocateIfWatched(c, fd) ==
  IF fd \in watched'
  THEN object' = [object EXCEPT ![c] = "live"] /\ InsertIfAbsent(fd, c)
  ELSE UNCHANGED <<object, fd_map>>

\* The new object goes into fd_map; it is lost where an old entry stays.
Allocate(c, fd) ==
  /\ object' = [object EXCEPT ![c] = "live"]
  /\ InsertIfAbsent(fd, c)

\* accept() succeeds; EPOLL_CTL_ADD, whose failure is only logged, looks at
\* what has arrived already.
Admit(c, fd) ==
  /\ c \in backlog /\ IsNewFd(fd)
  /\ backlog' = backlog \ {c}
  /\ open' = [open EXCEPT ![fd] = c]
  /\ \/ /\ watched' = watched \cup {fd}
        /\ armed' = IF Readable(c) THEN armed \cup {fd} ELSE armed
        /\ UNCHANGED faults
     \/ /\ faults < MaxFaults /\ faults' = faults + 1
        /\ UNCHANGED <<watched, armed>>
  /\ Allocate(c, fd)
  /\ UNCHANGED <<unborn, unread, fin, rst, running>>

\* Mutant: without a free descriptor, one of the connections is closed to make
\* room.
AdmitEvicts ==
  /\ \A f \in Fd : open[f] # Nobody
  /\ \E f \in Fd \ {ListenSock} : CloseFd(f)
  /\ UNCHANGED <<peerVars, fd_map, object, running, faults>>

\* accept() fails without a free descriptor; fcntl() failing exits.
AdmitFails ==
  /\ \/ \A f \in Fd : open[f] # Nobody /\ UNCHANGED <<running, faults>>
     \/ /\ \E f \in Fd : IsNewFd(f)
        /\ faults < MaxFaults /\ faults' = faults + 1
        /\ running' = "exited"
  /\ UNCHANGED <<peerVars, kernelVars, fd_map, object>>

HandleNewConnection ==
  AdmitFails \/ \E c \in Conn, fd \in Fd : Admit(c, fd)

\* Mutant: the socket is left to the destructor of HttpConnection.
DisconnectDeletesOnly(fd, old) ==
  /\ object' = [object EXCEPT ![old] = "deleted"]
  /\ UNCHANGED kernelVars

\* The object found in fd_map is deleted and the descriptor closed; the entry
\* stays.
Disconnect(fd, old) ==
  /\ object' = [object EXCEPT ![old] = "deleted"]
  /\ CloseFd(fd)

\* The flags are tested before the input, which is lost if one is set. Else
\* the read loop empties the socket; then recv() returns 0 if the peer shut
\* down, or an error, after which the connection stays.
HandleAlreadyConnected(e) ==
  \E old \in Conn :
    /\ fd_map[e.fd] = old
    /\ \/ /\ e.gone \/ open[e.fd] \in fin
          /\ Disconnect(e.fd, old)
       \/ /\ ~e.gone /\ open[e.fd] \notin fin
          /\ UNCHANGED <<kernelVars, object>>
    /\ unread' = unread \ {open[e.fd]}
    \* using an object that was deleted before may crash the process
    /\ \/ UNCHANGED running
       \/ object[old] = "deleted" /\ running' = "crashed"
    /\ UNCHANGED <<backlog, unborn, fin, rst, fd_map, faults>>

Handle(e) ==
  /\ running = "running"
  /\ events' = events \ {e}
  /\ \/ e.fd = ListenSock /\ HandleNewConnection
     \/ e.fd # ListenSock /\ HandleAlreadyConnected(e)

Loop == EpollWait \/ \E e \in events : Handle(e)

Next == Start \/ Loop \/ WaitFails \/ \E c \in Conn : Connect(c) \/ PeerActs(c)

Spec == Init /\ [][Next]_vars

\* The program's one thread keeps running, and epoll_wait takes turns among
\* the ready descriptors when there are more than MaxEvents of them.
Fetches(f) == EpollWait /\ \E e \in events' : e.fd = f
FairSpec == Spec /\ WF_vars(Loop) /\ \A f \in Fd : SF_vars(Fetches(f))

-----------------------------------------------------------------------------
(* Properties.                                                             *)

\* Every variable has its type; only watched descriptors are armed; exactly
\* the accepted connections have got an object.
TypeOK ==
  /\ backlog \subseteq Conn /\ unborn \subseteq Conn \ backlog
  /\ unread \subseteq Conn \ unborn
  /\ fin \subseteq Conn \ unborn /\ rst \subseteq Conn \ unborn
  /\ open \in [Fd -> Conn \cup {Server, Nobody}]
  /\ watched \subseteq {f \in Fd : open[f] # Nobody}
  /\ armed \subseteq watched
  /\ events \subseteq [fd : Fd, sock : Conn \cup {Server}, gone : BOOLEAN]
  /\ fd_map \in [Fd -> Conn \cup {Nobody}]
  /\ object \in [Conn -> {"none", "live", "deleted"}]
  /\ \A c \in Conn : object[c] = "none" <=> c \in unborn \cup backlog
  /\ running \in {"starting", "running", "exited", "crashed"}
  /\ faults \in 0..MaxFaults

\* An event is handled while its descriptor refers to the socket it was
\* reported for, although handlers of the same batch close descriptors and
\* accept connections that reuse them.
EventsCurrent == \A e \in events : open[e.fd] = e.sock

\* No object is deleted while its connection's descriptor is open: the wrong
\* object that a stale entry of fd_map names is one that was deleted before.
OpenIsLive ==
  \A f \in Fd \ {ListenSock} : open[f] \in Conn => object[open[f]] = "live"

\* A connection that epoll watches is closed once its peer has gone, unless the
\* process ends.
GoneIsClosed ==
  \A c \in Conn :
    (FdOf(c) \cap watched # {} /\ c \in fin \cup rst)
      ~> (FdOf(c) = {} \/ running # "running")
=============================================================================
