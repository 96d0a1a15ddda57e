----------------------------- MODULE ReactorLib -----------------------------
(***************************************************************************)
(* IOReactor of include/reactor.h in the hands of an arbitrary application *)
(* on one thread: before reactorRun and in every callback it may open and  *)
(* close sockets and call asyncAccept, addTrack, modifyTrack, removeTrack  *)
(* for any descriptor, with any mask of Interest (the combinations of      *)
(* EPOLLIN, EPOLLOUT and EPOLLET that the repository uses), any priority   *)
(* and any callback. HttpServer has the calls that server.cpp makes; this  *)
(* module has every operation and every failure.                           *)
(***************************************************************************)
EXTENDS Reactor

VARIABLES
  thread,    \* "app" before reactorRun, "loop", "callback" or "done"
  granted    \* what the last successful call asked for, for each descriptor

libVars == <<thread, granted>>
vars == <<kernelVars, reactorVars, libVars>>

Sockets  == Conn \cup {Server}
Nothing  == [watch |-> "none", priority |-> NoPriority, cb |-> Nobody]
Request(watch, priority, cb) == [watch |-> watch, priority |-> priority, cb |-> cb]
InApp == thread \in {"app", "callback"}

Init ==
  /\ open = [f \in Fd |-> Nobody]
  /\ interest = [f \in Fd |-> "none"]
  /\ ready = {}
  /\ event_callback_ = [f \in Fd |-> Nobody]
  /\ event_priority_ = [f \in Fd |-> NoPriority]
  /\ event_queue_ = {}
  /\ running = "running"
  /\ thread = "app"
  /\ granted = [f \in Fd |-> Nothing]

-----------------------------------------------------------------------------
(* What the application does.                                              *)

Opens(fd, s) ==
  /\ InApp /\ IsNewFd(fd) /\ \A f \in Fd : open[f] # s
  /\ open' = [open EXCEPT ![fd] = s]
  /\ UNCHANGED <<interest, ready, reactorVars, libVars>>

Closes(fd) ==
  /\ InApp /\ open[fd] # Nobody
  /\ CloseFd(fd)
  /\ UNCHANGED <<reactorVars, libVars>>

\* A call returns 0; what it asked for is remembered.
Grant(fd, r) ==
  /\ granted' = [granted EXCEPT ![fd] = r]
  /\ UNCHANGED <<open, event_queue_, running, thread>>

\* A call returns -1 and has changed nothing.
Refuse == UNCHANGED <<kernelVars, reactorVars, thread, granted>>

\* EPOLL_CTL_ADD succeeds on an open descriptor that is not watched yet.
Addable(fd) == open[fd] # Nobody /\ interest[fd] = "none"

\* asyncAccept registers level-triggered for input.
AsyncAccept(fd, cb) ==
  /\ InApp /\ Addable(fd)
  /\ AddTrack(fd, "accept", LISTEN_SOCK, cb)
  /\ Grant(fd, Request("accept", LISTEN_SOCK, cb))

AddTracks(fd, watch, priority, cb) ==
  /\ InApp /\ Addable(fd)
  /\ AddTrack(fd, watch, priority, cb)
  /\ Grant(fd, Request(watch, priority, cb))

\* Mutant: the insertions come before EPOLL_CTL_ADD, which fails.
AddTrackHalf(fd) ==
  /\ InApp
  /\ \E cb \in Sockets : Track(fd, HELPER_SOCK, cb)
  /\ UNCHANGED <<kernelVars, event_queue_, running, thread, granted>>

\* asyncAccept and addTrack return -1 before the insertions: EBADF, EEXIST,
\* or ENOMEM, which any descriptor may meet.
AddTrackFails(fd) == InApp /\ Refuse

\* EPOLL_CTL_MOD succeeds on a watched descriptor, which is reported at once
\* if it is ready.
ModifyTracks(fd, watch, priority, cb) ==
  /\ InApp /\ interest[fd] # "none"
  /\ \/ ModifyTrack(fd, watch, priority, cb)
     \/ AddTrack(fd, watch, priority, cb)
  /\ Grant(fd, Request(watch, priority, cb))

\* modifyTrack returns -1 before the insertions: ENOENT or EBADF.
ModifyTrackFails(fd) == InApp /\ interest[fd] = "none" /\ Refuse

\* removeEpollInterest swaps two arguments: epoll_ctl is asked for the
\* operation numbered fd on descriptor EPOLL_CTL_DEL with no event, which
\* fails for every socket (descriptor 2 is the standard error).
EPOLL_CTL_DEL == 2
RemoveInterestFails(fd) == fd # EPOLL_CTL_DEL

\* removeTrack: nothing is removed.
RemoveTrack(fd) == InApp /\ RemoveInterestFails(fd) /\ Refuse

\* reactorRun is called, or a callback returns to it.
Yields ==
  /\ InApp
  /\ thread' = "loop"
  /\ UNCHANGED <<kernelVars, reactorVars, granted>>

-----------------------------------------------------------------------------
(* reactorRun.                                                             *)

\* runCallback runs the callback of the descriptor, if there is one.
RunCallback(e) ==
  /\ thread = "loop" /\ Pop(e)
  /\ thread' = IF event_callback_[e.fd] # Nobody THEN "callback" ELSE "loop"
  /\ UNCHANGED <<kernelVars, mapVars, running, granted>>

\* Listening sockets with pending connections are ready as long as they are.
Fetch ==
  /\ thread = "loop"
  /\ \E level \in SUBSET {f \in Fd : interest[f] = "accept"} : EpollWait(level)
  /\ UNCHANGED libVars

\* epoll_wait is interrupted: reactorRun returns -1.
Interrupted ==
  /\ thread = "loop" /\ WaitInterrupted
  /\ thread' = "done"
  /\ UNCHANGED granted

\* "Dead reactor": no callback is left.
DeadReactor ==
  /\ thread = "loop" /\ Drained /\ GetSize = 0
  /\ thread' = "done"
  /\ UNCHANGED <<kernelVars, reactorVars, granted>>

Activity(fd) == SocketEvent(fd) /\ UNCHANGED libVars

-----------------------------------------------------------------------------

Registers(fd) ==
  \/ \E cb \in Sockets : AsyncAccept(fd, cb)
  \/ \E watch \in Interest \ {"none"}, priority \in Priority, cb \in Sockets :
       AddTracks(fd, watch, priority, cb) \/ ModifyTracks(fd, watch, priority, cb)

Calls(fd) ==
  Registers(fd) \/ AddTrackFails(fd) \/ ModifyTrackFails(fd) \/ RemoveTrack(fd)

Loops == (\E e \in event_queue_ : RunCallback(e)) \/ DeadReactor

Next ==
  \/ \E fd \in Fd :
       Closes(fd) \/ Calls(fd) \/ Activity(fd) \/ \E s \in Sockets : Opens(fd, s)
  \/ Yields \/ Loops \/ Fetch \/ Interrupted

Spec == Init /\ [][Next]_vars

\* The one thread is scheduled, and the application's callbacks return.
FairSpec == Spec /\ WF_vars(Loops) /\ WF_vars(Yields)

-----------------------------------------------------------------------------
(* Properties.                                                             *)

\* Every variable has its type; the two maps have the same keys.
TypeOK ==
  /\ open \in [Fd -> Sockets \cup {Nobody}]
  /\ interest \in [Fd -> Interest]
  /\ ready \subseteq {f \in Fd : interest[f] # "none"}
  /\ event_callback_ \in [Fd -> Sockets \cup {Nobody}]
  /\ event_priority_ \in [Fd -> Priority \cup {NoPriority}]
  /\ \A f \in Fd : event_callback_[f] = Nobody <=> event_priority_[f] = NoPriority
  /\ thread \in {"app", "loop", "callback", "done"}
  /\ granted \in [Fd -> [watch : Interest, priority : Priority \cup {NoPriority},
                         cb : Sockets \cup {Nobody}]]

\* Whatever calls failed before, the mask in the kernel, the callback and the
\* priority of a watched descriptor are those of one and the same call, the
\* last that succeeded.
OneRegistration ==
  \A f \in Fd : interest[f] # "none" =>
    Request(interest[f], event_priority_[f], event_callback_[f]) = granted[f]

\* Every fetched event is dispatched if callbacks return.
EventsServed ==
  \A f \in Fd : (\E e \in event_queue_ : e.fd = f)
                  ~> (\A e \in event_queue_ : e.fd # f)
=============================================================================
