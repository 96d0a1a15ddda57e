--------------------------- MODULE ReactorLibProofs ---------------------------
(***************************************************************************)
(* Proofs about ReactorLib: what IOReactor keeps under any application,    *)
(* for any number of descriptors and any batch size.                       *)
(*                                                                         *)
(* OneRegistration is inductive with the types: it says nothing of a       *)
(* descriptor that was closed, whose entries in the maps are stale, and    *)
(* the call that makes the kernel watch the descriptor again replaces them *)
(* in the same step.                                                       *)
(***************************************************************************)
EXTENDS ReactorLib, TLAPS

\* The inductive invariant.
IndInv == TypeOK /\ OneRegistration

-----------------------------------------------------------------------------

\* Names that are not Nobody.
LEMMA Names == Nobody \notin Sockets
BY ReactorAssumption DEF Sockets

\* The initial state satisfies the inductive invariant.
LEMMA InitInv == Init => IndInv
BY DEF Init, IndInv, TypeOK, OneRegistration, Interest, Nothing

\* What the application does to its descriptors leaves the maps alone.
LEMMA SocketInv ==
  ASSUME IndInv, NEW fd \in Fd,
         Closes(fd) \/ Activity(fd) \/ \E s \in Sockets : Opens(fd, s)
  PROVE  IndInv'
<1>1. UNCHANGED <<event_callback_, event_priority_, event_queue_, libVars>>
  BY DEF Closes, Activity, Opens, SocketEvent, reactorVars
<1>2. CASE \E s \in Sockets : Opens(fd, s)
  <2>1. PICK s \in Sockets : open' = [open EXCEPT ![fd] = s]
    BY <1>2 DEF Opens
  <2>2. UNCHANGED <<interest, ready>>
    BY <1>2 DEF Opens
  <2> QED
    BY <1>1, <2>1, <2>2
    DEF IndInv, TypeOK, OneRegistration, libVars
<1>3. CASE Closes(fd)
  BY <1>1, <1>3
  DEF Closes, CloseFd, IndInv, TypeOK, OneRegistration, libVars, Interest
<1>4. CASE Activity(fd)
  BY <1>1, <1>4
  DEF Activity, SocketEvent, IndInv, TypeOK, OneRegistration, libVars, Interest
<1> QED
  BY <1>2, <1>3, <1>4

\* A successful call sets the kernel's mask, the callback and the priority of
\* one descriptor together.
LEMMA GrantInv ==
  ASSUME IndInv, NEW fd \in Fd, NEW watch \in Interest \ {"none"},
         NEW priority \in Priority, NEW cb \in Sockets,
         interest' = [interest EXCEPT ![fd] = watch],
         ready' \in {ready, ready \cup {fd}},
         Track(fd, priority, cb),
         Grant(fd, Request(watch, priority, cb))
  PROVE  IndInv'
<1>1. /\ event_callback_' = [event_callback_ EXCEPT ![fd] = cb]
      /\ event_priority_' = [event_priority_ EXCEPT ![fd] = priority]
      /\ granted' = [granted EXCEPT ![fd] = Request(watch, priority, cb)]
      /\ UNCHANGED <<open, event_queue_, thread>>
  BY DEF Track, Insert, Grant
<1>2. /\ cb # Nobody /\ priority # NoPriority
      /\ Request(watch, priority, cb) \in
           [watch : Interest, priority : Priority \cup {NoPriority},
            cb : Sockets \cup {Nobody}]
  BY Names
  DEF Request, Priority, NoPriority, LISTEN_SOCK, NEW_SOCK, HELPER_SOCK
<1>3. TypeOK'
  BY <1>1, <1>2 DEF IndInv, TypeOK
<1>4. OneRegistration'
  BY <1>1 DEF IndInv, TypeOK, OneRegistration
<1> QED
  BY <1>3, <1>4 DEF IndInv

\* Calls that fail change nothing.
LEMMA RefuseInv ==
  ASSUME IndInv, Refuse
  PROVE  IndInv'
BY DEF Refuse, kernelVars, reactorVars, IndInv, TypeOK, OneRegistration

\* Every call keeps the inductive invariant.
LEMMA CallsInv ==
  ASSUME IndInv, NEW fd \in Fd, Calls(fd)
  PROVE  IndInv'
<1>1. CASE \E cb \in Sockets : AsyncAccept(fd, cb)
  <2>1. PICK cb \in Sockets : AsyncAccept(fd, cb)
    BY <1>1
  <2>2. "accept" \in Interest \ {"none"} /\ LISTEN_SOCK \in Priority
    BY DEF Interest, Priority
  <2> QED
    BY <2>1, <2>2, GrantInv DEF AsyncAccept, AddTrack
<1>2. CASE \E watch \in Interest \ {"none"}, priority \in Priority, cb \in Sockets :
             AddTracks(fd, watch, priority, cb) \/ ModifyTracks(fd, watch, priority, cb)
  <2>1. PICK watch \in Interest \ {"none"}, priority \in Priority, cb \in Sockets :
          AddTracks(fd, watch, priority, cb) \/ ModifyTracks(fd, watch, priority, cb)
    BY <1>2
  <2>2. /\ interest' = [interest EXCEPT ![fd] = watch]
        /\ ready' \in {ready, ready \cup {fd}}
        /\ Track(fd, priority, cb)
        /\ Grant(fd, Request(watch, priority, cb))
    BY <2>1 DEF AddTracks, ModifyTracks, AddTrack, ModifyTrack
  <2> QED
    BY <2>1, <2>2, GrantInv
<1>3. CASE AddTrackFails(fd) \/ ModifyTrackFails(fd) \/ RemoveTrack(fd)
  BY <1>3, RefuseInv DEF AddTrackFails, ModifyTrackFails, RemoveTrack
<1> QED
  BY <1>1, <1>2, <1>3 DEF Calls, Registers

\* epoll_wait takes descriptors off the ready list.
LEMMA FetchInv ==
  ASSUME IndInv, Fetch
  PROVE  IndInv'
<1>1. PICK level \in SUBSET {f \in Fd : interest[f] = "accept"} : EpollWait(level)
  BY DEF Fetch
<1>2. UNCHANGED <<open, interest, event_callback_, event_priority_, libVars>>
  BY <1>1 DEF Fetch, EpollWait, mapVars
<1>3. PICK batch \in SUBSET (ready \cup level) :
        /\ ready' = ready \ batch
  BY <1>1 DEF EpollWait
<1>4. TypeOK'
  BY <1>2, <1>3 DEF IndInv, TypeOK, libVars
<1> QED
  BY <1>2, <1>4 DEF IndInv, OneRegistration, libVars

\* The other steps of the thread.
LEMMA LoopInv ==
  ASSUME IndInv, Yields \/ Loops \/ Interrupted
  PROVE  IndInv'
<1>1. /\ UNCHANGED <<kernelVars, mapVars, granted>>
      /\ thread' \in {"app", "loop", "callback", "done"}
  <2>1. CASE Yields
    BY <2>1 DEF Yields, reactorVars, mapVars
  <2>2. CASE \E e \in event_queue_ : RunCallback(e)
    <3>1. PICK e \in event_queue_ : RunCallback(e)
      BY <2>2
    <3> QED
      BY <3>1 DEF RunCallback, Pop
  <2>3. CASE DeadReactor
    BY <2>3 DEF DeadReactor, reactorVars, mapVars
  <2>4. CASE Interrupted
    BY <2>4 DEF Interrupted, WaitInterrupted
  <2> QED
    BY <2>1, <2>2, <2>3, <2>4 DEF Loops
<1> QED
  BY <1>1
  DEF kernelVars, mapVars, IndInv, TypeOK, OneRegistration

\* Every step preserves the inductive invariant.
LEMMA NextInv == IndInv /\ [Next]_vars => IndInv'
<1> SUFFICES ASSUME IndInv, [Next]_vars
             PROVE  IndInv'
  OBVIOUS
<1>1. CASE \E fd \in Fd :
             Closes(fd) \/ Calls(fd) \/ Activity(fd) \/ \E s \in Sockets : Opens(fd, s)
  BY <1>1, SocketInv, CallsInv
<1>2. CASE Fetch
  BY <1>2, FetchInv
<1>3. CASE Yields \/ Loops \/ Interrupted
  BY <1>3, LoopInv
<1>4. CASE UNCHANGED vars
  BY <1>4
  DEF vars, kernelVars, reactorVars, libVars, IndInv, TypeOK, OneRegistration
<1> QED
  BY <1>1, <1>2, <1>3, <1>4 DEF Next

\* The inductive invariant holds in every reachable state.
THEOREM Invariance == Spec => []IndInv
BY InitInv, NextInv, PTL DEF Spec

\* Every variable of the reactor has its type; its maps have the same keys.
THEOREM TypeCorrect == Spec => []TypeOK
<1>1. IndInv => TypeOK
  BY DEF IndInv
<1> QED
  BY <1>1, Invariance, PTL

\* What the kernel watches a descriptor for, its callback and its priority are
\* those of one call (reactor.h:50-80).
THEOREM RegistrationIsOne == Spec => []OneRegistration
<1>1. IndInv => OneRegistration
  BY DEF IndInv
<1> QED
  BY <1>1, Invariance, PTL

=============================================================================
