----------------------------- MODULE StartupProofs -----------------------------
(***************************************************************************)
(* Proofs about Startup, for any number of server processes, clients and   *)
(* failures.                                                               *)
(***************************************************************************)
EXTENDS Startup, TLAPS

\* What every step of a process keeps: a socket that could not be made is a
\* failed call.
FailuresCounted ==
  \A p \in Process : socket[p] = "failed" => faults > 0

\* A process that is past bind and listen has seen to it that someone listens,
\* unless a call failed or a process ended: it listens itself, or was refused
\* because another process does.
PastListen ==
  /\ faults = 0
  /\ \A p \in Process : pc[p] # "gone"
  /\ \E p \in Process : pc[p] \in {"register", "looping"}
  => \E p \in Process : socket[p] = "listening"

\* A process between socket() and bind() has a socket or none.
Unbound ==
  \A p \in Process : pc[p] = "bind" => socket[p] \in {"unbound", "failed"}

\* The inductive invariant.
IndInv ==
  TypeOK /\ FailuresCounted /\ Unbound /\ PastListen

-----------------------------------------------------------------------------

\* The initial state satisfies the inductive invariant.
LEMMA InitInv == Init => IndInv
<1> SUFFICES ASSUME Init
             PROVE  IndInv
  OBVIOUS
<1>1. \A p \in Process : pc[p] = "off" /\ epollfd_[p] = "none" /\ socket[p] = "none"
  BY DEF Init
<1>2. \A c \in Client : conn[c] = "none"
  BY DEF Init
<1>3. TypeOK
  BY <1>1, <1>2 DEF Init, TypeOK
<1> QED
  BY <1>1, <1>3
  DEF IndInv, FailuresCounted, Unbound, PastListen

\* Clients change neither the processes nor their sockets, and connect to one
\* that listens.
LEMMA ClientInv ==
  ASSUME IndInv, NEW c \in Client, ClientStart(c) \/ ClientRuns(c)
  PROVE  IndInv'
<1>1. UNCHANGED <<serverVars, lingering>>
  BY DEF ClientStart, ClientRuns, Resolve, ClientSocket, ClientConnect, ClientSend
<1>2. TypeOK'
  <2>1. CASE ClientStart(c) \/ Resolve(c) \/ ClientSocket(c) \/ ClientSend(c)
    <3>1. PICK to \in {"resolve", "exit1", "socket", "crash", "connect", "exit0"} :
            clientPc' = [clientPc EXCEPT ![c] = to]
      BY <2>1 DEF ClientStart, Resolve, ClientSocket, ClientSend, ClientGoto
    <3>2. UNCHANGED <<peer, conn>>
      BY <2>1 DEF ClientStart, Resolve, ClientSocket, ClientSend
    <3> QED
      BY <1>1, <3>1, <3>2 DEF serverVars, IndInv, TypeOK
  <2>2. CASE ClientConnect(c)
    <3>1. PICK to \in {"send", "exit1"} : clientPc' = [clientPc EXCEPT ![c] = to]
      BY <2>2 DEF ClientConnect, ClientGoto
    <3>2. CASE UNCHANGED <<peer, conn>>
      BY <1>1, <3>1, <3>2 DEF serverVars, IndInv, TypeOK
    <3>3. CASE ~UNCHANGED <<peer, conn>>
      <4>1. PICK p \in Process :
              /\ socket[p] = "listening"
              /\ peer' = [peer EXCEPT ![c] = p]
              /\ conn' = [conn EXCEPT ![c] = "backlog"]
        BY <2>2, <3>3 DEF ClientConnect
      <4> QED
        BY <1>1, <3>1, <4>1 DEF serverVars, IndInv, TypeOK
    <3> QED
      BY <3>2, <3>3
  <2> QED
    BY <2>1, <2>2 DEF ClientRuns
<1> QED
  BY <1>1, <1>2
  DEF serverVars, IndInv, FailuresCounted, Unbound, PastListen

\* A process that ends is gone, and so are its socket, its epoll instance and
\* the connections it had.
LEMMA EndsInv ==
  ASSUME IndInv, NEW p \in Process, Ends(p), faults' \in Nat, faults' >= faults
  PROVE  IndInv'
<1>1. /\ pc' = [pc EXCEPT ![p] = "gone"]
      /\ socket' = [socket EXCEPT ![p] = "none"]
      /\ epollfd_' = [epollfd_ EXCEPT ![p] = "none"]
      /\ watched' = watched \ {p}
      /\ conn' = [c \in Client |->
                    IF peer[c] = p /\ conn[c] \in {"backlog", "accepted"}
                    THEN "reset" ELSE conn[c]]
      /\ lingering' \in BOOLEAN
      /\ UNCHANGED <<clientPc, peer>>
  <2>1. lingering' \in {lingering, lingering \/ \E c \in Client : peer[c] = p /\ conn[c] = "accepted"}
    BY DEF Ends
  <2>2. lingering' \in BOOLEAN
    BY <2>1 DEF IndInv, TypeOK
  <2> QED
    BY <2>2 DEF Ends
<1>2. TypeOK'
  BY <1>1 DEF IndInv, TypeOK
<1>3. Unbound'
  BY <1>1 DEF IndInv, TypeOK, Unbound
<1>4. FailuresCounted'
  BY <1>1 DEF IndInv, TypeOK, FailuresCounted
<1>5. PastListen'
  BY <1>1 DEF IndInv, TypeOK, PastListen
<1> QED
  BY <1>2, <1>3, <1>4, <1>5 DEF IndInv

\* The steps before bind().
LEMMA MakeInv ==
  ASSUME IndInv, NEW p \in Process,
         Start(p) \/ GetEpollInstance(p) \/ GetEndpoint(p) \/ GetSocket(p)
  PROVE  IndInv'
<1>1. PICK to \in {"reactor", "endpoint", "socket", "bind"} :
        /\ pc[p] = CASE to = "reactor" -> "off"
                     [] to = "endpoint" -> "reactor"
                     [] to = "socket" -> "endpoint"
                     [] to = "bind" -> "socket"
        /\ pc' = [pc EXCEPT ![p] = to]
        /\ IF to = "endpoint"
             THEN \/ epollfd_' = [epollfd_ EXCEPT ![p] = "open"] /\ UNCHANGED faults
                  \/ epollfd_' = [epollfd_ EXCEPT ![p] = "failed"] /\ faults' = faults + 1
             ELSE UNCHANGED epollfd_
        /\ IF to = "bind"
             THEN \/ socket' = [socket EXCEPT ![p] = "unbound"] /\ UNCHANGED faults
                  \/ socket' = [socket EXCEPT ![p] = "failed"] /\ faults' = faults + 1
             ELSE UNCHANGED socket
        /\ to \in {"reactor", "socket"} => UNCHANGED faults
  BY DEF Start, GetEpollInstance, GetEndpoint, GetSocket, Goto, Fault
<1>2. UNCHANGED <<watched, lingering, clientVars>>
  BY DEF Start, GetEpollInstance, GetEndpoint, GetSocket
<1>3. faults \in Nat /\ faults' \in Nat /\ faults' >= faults
  BY <1>1 DEF IndInv, TypeOK
<1>4. \A q \in Process : pc[q] = "looping" => q # p
  BY <1>1
<1>5. TypeOK'
  BY <1>1, <1>2, <1>3 DEF clientVars, IndInv, TypeOK
<1>6. FailuresCounted' /\ Unbound'
  BY <1>1, <1>3 DEF IndInv, TypeOK, FailuresCounted, Unbound
<1>7. PastListen'
  BY <1>1, <1>3 DEF IndInv, TypeOK, PastListen
<1> QED
  BY <1>5, <1>6, <1>7 DEF IndInv

\* bind() and listen() are refused only when another process listens or a call
\* fails.
LEMMA BindListenInv ==
  ASSUME IndInv, NEW p \in Process, Bind(p) \/ Listen(p)
  PROVE  IndInv'
<1> DEFINE Moves(to, now) ==
      /\ pc[p] \in {"bind", "listen"}
      /\ pc' = [pc EXCEPT ![p] = to]
      /\ socket' = [socket EXCEPT ![p] = now]
      /\ to = "register" =>
           \/ now = "listening" \/ ~PortFree(p)
           \/ pc[p] = "bind" /\ socket[p] # "unbound"
           \/ faults' > 0
      /\ pc[p] = "bind" => now # "listening"
      /\ now = "bound" => pc[p] = "bind" \/ socket[p] = "bound"
<1>1. /\ UNCHANGED <<epollfd_, watched, lingering, clientVars>>
      /\ faults' \in Nat /\ faults' >= faults
  BY DEF Bind, Listen, Fault, IndInv, TypeOK
<1>2. PICK to \in {"listen", "register"}, now \in {socket[p], "bound", "listening"} :
        Moves(to, now)
  <2>1. socket' = socket => socket' = [socket EXCEPT ![p] = socket[p]]
    BY DEF IndInv, TypeOK
  <2>2. pc[p] = "bind" => socket[p] # "listening"
    BY DEF IndInv, Unbound
  <2>3. CASE Bind(p) /\ socket' # socket
    <3>1. Moves("listen", "bound")
      BY <2>3 DEF Bind, Goto
    <3> QED
      BY <3>1
  <2>4. CASE Bind(p) /\ socket' = socket
    <3>1. /\ pc[p] = "bind"
          /\ \/ pc' = [pc EXCEPT ![p] = "listen"] /\ socket' = [socket EXCEPT ![p] = "bound"]
             \/ /\ pc' = [pc EXCEPT ![p] = "register"]
                /\ \/ faults' = faults + 1
                   \/ ~(socket[p] = "unbound" /\ PortFree(p))
      BY <2>4 DEF Bind, Bindable, Fault, Goto
    <3>2. Moves("listen", "bound") \/ Moves("register", socket[p])
      BY <2>1, <2>2, <2>4, <3>1 DEF IndInv, TypeOK
    <3> QED
      BY <3>2
  <2>5. CASE Listen(p)
    <3>1. /\ pc[p] = "listen"
          /\ pc' = [pc EXCEPT ![p] = "register"]
          /\ \/ socket' = [socket EXCEPT ![p] = "listening"]
             \/ socket' = socket /\ (faults' = faults + 1 \/ ~PortFree(p))
      BY <2>5 DEF Listen, Fault, Goto
    <3>2. Moves("register", "listening") \/ Moves("register", socket[p])
      BY <2>1, <3>1 DEF IndInv, TypeOK
    <3> QED
      BY <3>2
  <2> QED
    BY <2>3, <2>4, <2>5
<1>3. now # "none" /\ socket[p] # "none"
  BY <1>2 DEF IndInv, TypeOK
<1>4. socket[p] # "listening" \/ now = "listening"
  BY <1>2 DEF IndInv, TypeOK, Unbound
<1>5. TypeOK'
  BY <1>1, <1>2, <1>3, <1>4 DEF clientVars, IndInv, TypeOK
<1>6. FailuresCounted' /\ Unbound'
  BY <1>1, <1>2 DEF IndInv, TypeOK, FailuresCounted, Unbound
<1>7. PastListen'
  BY <1>1, <1>2, <1>4 DEF IndInv, TypeOK, PastListen, PortFree, FailuresCounted, Unbound
<1> QED
  BY <1>5, <1>6, <1>7 DEF IndInv

\* The reactor runs once its socket is registered.
LEMMA AsyncAcceptInv ==
  ASSUME IndInv, NEW p \in Process, AsyncAccept(p)
  PROVE  IndInv'
BY DEF AsyncAccept, Goto, clientVars, IndInv, TypeOK,
       FailuresCounted, Unbound, PastListen

\* Accepting changes only the client's connection.
LEMMA AcceptInv ==
  ASSUME IndInv, NEW p \in Process, NEW c \in Client, AcceptConnection(p, c)
  PROVE  IndInv'
<1>1. /\ socket[p] = "listening" /\ peer[c] = p
      /\ conn' = [conn EXCEPT ![c] = "accepted"]
      /\ lingering' \in {lingering, TRUE}
      /\ UNCHANGED <<serverVars, clientPc, peer>>
  BY DEF AcceptConnection
<1>2. TypeOK'
  <2>1. lingering' \in BOOLEAN
    BY <1>1 DEF IndInv, TypeOK
  <2>2. /\ UNCHANGED <<serverVars, clientPc, peer>>
        /\ conn' = [conn EXCEPT ![c] = "accepted"]
        /\ peer[c] = p /\ socket[p] = "listening"
    BY <1>1
  <2> QED
    BY <2>1, <2>2 DEF serverVars, IndInv, TypeOK
<1> QED
  BY <1>1, <1>2
  DEF serverVars, IndInv, FailuresCounted, Unbound, PastListen

\* The steps that end a process, and what fails in them.
LEMMA FailInv ==
  ASSUME IndInv, NEW p \in Process,
         GetEndpointFails(p) \/ AsyncAcceptFails(p) \/ Killed(p)
  PROVE  IndInv'
<1>1. Ends(p)
  BY DEF GetEndpointFails, AsyncAcceptFails, Killed
<1>2. faults' \in Nat /\ faults' >= faults
  BY DEF GetEndpointFails, AsyncAcceptFails, Killed, Fault, IndInv, TypeOK
<1> QED
  BY <1>1, <1>2, EndsInv

\* Every step preserves the inductive invariant.
LEMMA NextInv == IndInv /\ [Next]_vars => IndInv'
<1> SUFFICES ASSUME IndInv, [Next]_vars
             PROVE  IndInv'
  OBVIOUS
<1>1. CASE \E p \in Process : Start(p) \/ Runs(p) \/ Killed(p)
  <2>1. PICK p \in Process : Start(p) \/ Runs(p) \/ Killed(p)
    BY <1>1
  <2>2. CASE Start(p) \/ GetEpollInstance(p) \/ GetEndpoint(p) \/ GetSocket(p)
    BY <2>2, MakeInv
  <2>3. CASE Bind(p) \/ Listen(p)
    BY <2>3, BindListenInv
  <2>4. CASE AsyncAccept(p)
    BY <2>4, AsyncAcceptInv
  <2>5. CASE GetEndpointFails(p) \/ AsyncAcceptFails(p) \/ Killed(p)
    BY <2>5, FailInv
  <2>6. CASE \E c \in Client : AcceptConnection(p, c)
    BY <2>6, AcceptInv
  <2> QED
    BY <2>1, <2>2, <2>3, <2>4, <2>5, <2>6 DEF Runs
<1>2. CASE \E c \in Client : ClientStart(c) \/ ClientRuns(c)
  BY <1>2, ClientInv
<1>3. CASE Expire \/ UNCHANGED vars
  <2>1. UNCHANGED <<pc, epollfd_, socket, watched, faults, clientPc, peer, conn>>
    BY <1>3 DEF Expire, vars, serverVars, clientVars
  <2>2. lingering' \in BOOLEAN
    BY <1>3 DEF Expire, vars, IndInv, TypeOK
  <2> QED
    BY <2>1, <2>2
    DEF IndInv, TypeOK, FailuresCounted, Unbound, PastListen
<1> QED
  BY <1>1, <1>2, <1>3 DEF Next

\* The inductive invariant holds in every reachable state.
THEOREM Invariance == Spec => []IndInv
BY InitInv, NextInv, PTL DEF Spec

\* Every variable of the start-up has its type.
THEOREM TypeCorrect == Spec => []TypeOK
<1>1. IndInv => TypeOK
  BY DEF IndInv
<1> QED
  BY <1>1, Invariance, PTL

\* However the bind and listen of any number of processes interleave, one of
\* them serves the port (socket_utilities.h:110-121).
THEOREM ThePortIsServed == Spec => []PortServed
<1>1. IndInv => PortServed
  BY DEF IndInv, PastListen, PortServed
<1> QED
  BY <1>1, Invariance, PTL
=============================================================================
