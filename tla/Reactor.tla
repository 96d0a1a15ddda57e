------------------------------ MODULE Reactor ------------------------------
(***************************************************************************)
(* IOReactor of include/reactor.h, over the descriptor table and the epoll *)
(* instance of the process. The two ThreadSafeMaps are used by one thread  *)
(* here, so each of their operations is atomic. The callbacks themselves   *)
(* belong to the module that extends this one.                             *)
(***************************************************************************)
EXTENDS Integers, FiniteSets

CONSTANTS
  Fd,         \* the descriptors the process may have open for sockets
  Conn,       \* the connections, each also naming its Clientconnection object
  Server,     \* the listening socket, and the callback registered for it
  Nobody,     \* no socket behind a descriptor; no callback for it
  MaxEvents   \* max_events_

ASSUME ReactorAssumption ==
  /\ Fd \subseteq Nat
  /\ IsFiniteSet(Fd)
  /\ Server \notin Conn
  /\ Nobody \notin Conn
  /\ Server # Nobody
  /\ MaxEvents \in Nat \ {0}

VARIABLES
  \* kernel
  open,             \* the socket each descriptor refers to
  interest,         \* what the epoll instance watches a descriptor for
  ready,            \* edge-triggered descriptors on the ready list
  \* IOReactor
  event_callback_,
  event_priority_,
  event_queue_,     \* events fetched and not yet dispatched
  running           \* "running", "stopped" (reactorRun returned) or "killed"

kernelVars  == <<open, interest, ready>>
mapVars     == <<event_callback_, event_priority_>>
reactorVars == <<event_callback_, event_priority_, event_queue_, running>>

\* EventPriority: the least value goes first.
LISTEN_SOCK == 0
NEW_SOCK    == 1
HELPER_SOCK == 2
NoPriority  == -1
Priority    == {LISTEN_SOCK, NEW_SOCK, HELPER_SOCK}

\* Watched not at all; level-triggered for input; edge-triggered for input or
\* for output.
Interest == {"none", "accept", "in", "out"}

Lesser(a, b) == IF a < b THEN a ELSE b

-----------------------------------------------------------------------------
(* The kernel.                                                             *)

\* A new descriptor is the lowest free one.
IsNewFd(fd) == open[fd] = Nobody /\ \A f \in Fd : open[f] = Nobody => fd <= f

Free == {f \in Fd : open[f] = Nobody}

\* close(fd): the descriptor also leaves the epoll instance.
CloseFd(fd) ==
  /\ open' = [open EXCEPT ![fd] = Nobody]
  /\ interest' = [interest EXCEPT ![fd] = "none"]
  /\ ready' = ready \ {fd}

\* Something happens on an edge-triggered socket that is being watched.
SocketEvent(fd) ==
  /\ running = "running"
  /\ interest[fd] \in {"in", "out"}
  /\ fd \notin ready
  /\ ready' = ready \cup {fd}
  /\ UNCHANGED <<open, interest, reactorVars>>

-----------------------------------------------------------------------------
(* ThreadSafeMap, as a function that is Nobody or NoPriority where the map  *)
(* has no entry.                                                           *)

\* Mutant: unordered_map::insert, which keeps an existing entry.
InsertIfAbsent(map, key, val) ==
  [map EXCEPT ![key] = IF @ \in {Nobody, NoPriority} THEN val ELSE @]

\* insert(): map_[key] = val.
Insert(map, key, val) == [map EXCEPT ![key] = val]

\* getSize() of event_callback_.
GetSize == Cardinality({fd \in Fd : event_callback_[fd] # Nobody})

-----------------------------------------------------------------------------
(* IOReactor.                                                              *)

\* Mutant: the callback is registered, its priority is not.
TrackCallbackOnly(fd, priority, cb) ==
  /\ event_callback_' = Insert(event_callback_, fd, cb)
  /\ UNCHANGED event_priority_

\* The two insertions that addTrack and modifyTrack make.
Track(fd, priority, cb) ==
  /\ event_callback_' = Insert(event_callback_, fd, cb)
  /\ event_priority_' = Insert(event_priority_, fd, priority)

\* addTrack, when EPOLL_CTL_ADD succeeds. Bytes that arrived before show up
\* as a SocketEvent.
AddTrack(fd, watch, priority, cb) ==
  /\ interest' = [interest EXCEPT ![fd] = watch]
  /\ Track(fd, priority, cb)
  /\ UNCHANGED ready

\* modifyTrack to output: the send buffer is empty, so that EPOLL_CTL_MOD
\* puts the descriptor on the ready list at once.
ModifyTrack(fd, watch, priority, cb) ==
  /\ interest' = [interest EXCEPT ![fd] = watch]
  /\ ready' = ready \cup {fd}
  /\ Track(fd, priority, cb)

\* An event as reactorRun queues it; `sock' is the socket the kernel reported
\* it for.
QueuedEvent(fd) ==
  [fd |-> fd,
   sock |-> open[fd],
   priority |-> IF event_priority_[fd] = NoPriority THEN NEW_SOCK
                ELSE event_priority_[fd]]

\* Mutant: epoll_wait is called again after every dispatched event.
DrainedAny == TRUE

\* The inner loop of reactorRun has emptied the queue.
Drained == event_queue_ = {}

\* epoll_wait reports up to max_events_ descriptors that are ready, `level'
\* being the level-triggered ones, and their events are queued.
EpollWait(level) ==
  /\ running = "running" /\ Drained /\ GetSize > 0
  /\ ready \cup level # {}
  /\ \E batch \in SUBSET (ready \cup level) :
       /\ Cardinality(batch) = Lesser(MaxEvents, Cardinality(ready \cup level))
       /\ event_queue_' = event_queue_ \cup {QueuedEvent(fd) : fd \in batch}
       /\ ready' = ready \ batch
  /\ UNCHANGED <<open, interest, mapVars, running>>

\* epoll_wait returns -1 (EINTR): reactorRun gives up.
WaitInterrupted ==
  /\ running = "running" /\ Drained /\ GetSize > 0
  /\ running' = "stopped"
  /\ UNCHANGED <<kernelVars, mapVars, event_queue_>>

\* event_queue_.top() may be e.
IsTop(e) == \A other \in event_queue_ : e.priority <= other.priority

\* The part of an iteration of the inner loop that is the reactor's: the top
\* event is popped; runCallback runs the callback found for its descriptor.
Pop(e) ==
  /\ running = "running"
  /\ e \in event_queue_ /\ IsTop(e)
  /\ event_queue_' = event_queue_ \ {e}
=============================================================================
