------------------------------ MODULE Startup ------------------------------
(***************************************************************************)
(* How the server of src/server.cpp comes up, system call by system call,  *)
(* beside other processes of the same program on the same port, and what   *)
(* the clients of run_clients.sh (src/client.cpp) meet. The constructors   *)
(* of IOReactor and HttpServer ignore every failure; only asyncAccept's is *)
(* looked at. What happens on an accepted connection is in HttpServer and  *)
(* ClientConnection.                                                       *)
(***************************************************************************)
EXTENDS Integers, FiniteSets

CONSTANTS
  Process,    \* runs of the server program, all with the same arguments
  Client,     \* runs of the client program
  Nobody,     \* no process
  MaxFaults   \* bound: system calls of the servers that fail

ASSUME StartupAssumption == Nobody \notin Process /\ MaxFaults \in Nat

VARIABLES
  pc,         \* where each server process is
  epollfd_,   \* IOReactor: "none", "open" or "failed" (-1)
  socket,     \* HttpServer: "none", "unbound", "bound", "listening" or
              \* "failed" (-1)
  watched,    \* the processes whose epoll instance watches their socket
  faults,     \* number of failed system calls
  lingering,  \* ended connections still occupy the port (TIME_WAIT)
  clientPc,   \* where each client is
  peer,       \* the process a client is connected to
  conn        \* a client's connection: "none", "backlog" or "accepted"; "reset"

serverVars == <<pc, epollfd_, socket, watched, faults>>
clientVars == <<clientPc, peer, conn>>
vars == <<serverVars, lingering, clientVars>>

Init ==
  /\ pc = [p \in Process |-> "off"]
  /\ epollfd_ = [p \in Process |-> "none"]
  /\ socket = [p \in Process |-> "none"]
  /\ watched = {}
  /\ faults = 0
  /\ lingering = FALSE
  /\ clientPc = [c \in Client |-> "off"]
  /\ peer = [c \in Client |-> Nobody]
  /\ conn = [c \in Client |-> "none"]

-----------------------------------------------------------------------------
(* The server.                                                             *)

Goto(p, from, to) == pc[p] = from /\ pc' = [pc EXCEPT ![p] = to]
Fault == faults < MaxFaults /\ faults' = faults + 1

\* A process ends, and the kernel closes what it had: the connections that
\* wait in its backlog are reset, accepted ones may linger.
Ends(p) ==
  /\ pc' = [pc EXCEPT ![p] = "gone"]
  /\ socket' = [socket EXCEPT ![p] = "none"]
  /\ epollfd_' = [epollfd_ EXCEPT ![p] = "none"]
  /\ watched' = watched \ {p}
  /\ conn' = [c \in Client |-> IF peer[c] = p /\ conn[c] \in {"backlog", "accepted"}
                               THEN "reset" ELSE conn[c]]
  /\ lingering' \in
       {lingering, lingering \/ \E c \in Client : peer[c] = p /\ conn[c] = "accepted"}
  /\ UNCHANGED <<clientPc, peer>>

Start(p) ==
  /\ Goto(p, "off", "reactor")
  /\ UNCHANGED <<epollfd_, socket, watched, faults, lingering, clientVars>>

\* IOReactor's constructor: the result of epoll_create1 is kept, -1 or not.
GetEpollInstance(p) ==
  /\ Goto(p, "reactor", "endpoint")
  /\ \/ epollfd_' = [epollfd_ EXCEPT ![p] = "open"] /\ UNCHANGED faults
     \/ epollfd_' = [epollfd_ EXCEPT ![p] = "failed"] /\ Fault
  /\ UNCHANGED <<socket, watched, lingering, clientVars>>

\* getEndpoint finds the wildcard address.
GetEndpoint(p) ==
  /\ Goto(p, "endpoint", "socket")
  /\ UNCHANGED <<epollfd_, socket, watched, faults, lingering, clientVars>>

\* getaddrinfo fails: getEndpoint returns NULL and getSocket reads through it.
GetEndpointFails(p) ==
  /\ pc[p] = "endpoint"
  /\ Fault
  /\ Ends(p)

\* socket(), setsockopt() or fcntl() may fail; -1 is kept.
GetSocket(p) ==
  /\ Goto(p, "socket", "bind")
  /\ \/ socket' = [socket EXCEPT ![p] = "unbound"] /\ UNCHANGED faults
     \/ socket' = [socket EXCEPT ![p] = "failed"] /\ Fault
  /\ UNCHANGED <<epollfd_, watched, lingering, clientVars>>

\* Mutant: no SO_REUSEADDR.
PortFreeExclusive(p) ==
  ~lingering /\ \A other \in Process \ {p} : socket[other] \notin {"bound", "listening"}

\* Sockets with SO_REUSEADDR share a port until one of them listens.
PortFree(p) == \A other \in Process \ {p} : socket[other] # "listening"

\* Mutant: listen() does not follow.
BindOnly(p) ==
  /\ Goto(p, "bind", "register")
  /\ socket' = [socket EXCEPT ![p] =
                  IF @ = "unbound" /\ PortFree(p) THEN "bound" ELSE @]
  /\ UNCHANGED <<epollfd_, watched, faults, lingering, clientVars>>

\* Mutant: a socket that cannot be bound is closed.
BindOrClose(p) ==
  /\ pc[p] = "bind"
  /\ IF socket[p] = "unbound" /\ PortFree(p)
       THEN Goto(p, "bind", "listen") /\ socket' = [socket EXCEPT ![p] = "bound"]
       ELSE Goto(p, "bind", "register") /\ socket' = [socket EXCEPT ![p] = "none"]
  /\ UNCHANGED <<epollfd_, watched, faults, lingering, clientVars>>

\* bindAndListen: when bind fails, for want of a socket or of the port or for
\* another reason (EACCES, ENOBUFS), listen is not tried. The constructor
\* ignores the result.
Bindable(p) == socket[p] = "unbound" /\ PortFree(p)
Bind(p) ==
  /\ \/ /\ Bindable(p)
        /\ Goto(p, "bind", "listen")
        /\ socket' = [socket EXCEPT ![p] = "bound"]
        /\ UNCHANGED faults
     \/ /\ Goto(p, "bind", "register")
        /\ IF Bindable(p) THEN Fault ELSE UNCHANGED faults
        /\ UNCHANGED socket
  /\ UNCHANGED <<epollfd_, watched, lingering, clientVars>>

Listen(p) ==
  /\ Goto(p, "listen", "register")
  /\ \/ /\ PortFree(p)
        /\ socket' = [socket EXCEPT ![p] = "listening"]
        /\ UNCHANGED faults
     \/ /\ IF PortFree(p) THEN Fault ELSE UNCHANGED faults
        /\ UNCHANGED socket
  /\ UNCHANGED <<epollfd_, watched, lingering, clientVars>>

\* EPOLL_CTL_ADD can succeed: both descriptors are real.
Registrable(p) ==
  epollfd_[p] = "open" /\ socket[p] \in {"unbound", "bound", "listening"}

\* asyncAccept registers the socket, whatever it is; the reactor runs.
AsyncAccept(p) ==
  /\ Goto(p, "register", "looping")
  /\ Registrable(p)
  /\ watched' = watched \cup {p}
  /\ UNCHANGED <<epollfd_, socket, faults, lingering, clientVars>>

\* Mutant: asyncAccept does not look at what epoll_ctl returned.
AsyncAcceptFailsUnseen(p) ==
  /\ Goto(p, "register", "looping")
  /\ Registrable(p) => Fault
  /\ Registrable(p) \/ UNCHANGED faults
  /\ UNCHANGED <<epollfd_, socket, watched, lingering, clientVars>>

\* asyncAccept returns -1: listen() and main() return.
AsyncAcceptFails(p) ==
  /\ pc[p] = "register"
  /\ IF Registrable(p) THEN Fault ELSE UNCHANGED faults
  /\ Ends(p)

\* The reactor accepts a connection, whose end may leave the port occupied.
AcceptConnection(p, c) ==
  /\ pc[p] = "looping" /\ p \in watched /\ socket[p] = "listening"
  /\ peer[c] = p /\ conn[c] = "backlog"
  /\ conn' = [conn EXCEPT ![c] = "accepted"]
  /\ lingering' \in {lingering, TRUE}
  /\ UNCHANGED <<serverVars, clientPc, peer>>

\* A signal at any time. One that does not kill, even SIGCONT, interrupts
\* epoll_wait: reactorRun, listen() and main() return.
Killed(p) ==
  /\ pc[p] \notin {"off", "gone"}
  /\ Ends(p)
  /\ UNCHANGED faults

-----------------------------------------------------------------------------
(* The client.                                                             *)

ClientGoto(c, from, to) ==
  clientPc[c] = from /\ clientPc' = [clientPc EXCEPT ![c] = to]

ClientStart(c) ==
  /\ ClientGoto(c, "off", "resolve")
  /\ UNCHANGED <<serverVars, lingering, peer, conn>>

\* getaddrinfo fails; the first IPv4 address is taken; or there is none, and
\* server_info, at the end of the list, is read through.
Resolve(c) ==
  /\ \E to \in {"exit1", "socket", "crash"} : ClientGoto(c, "resolve", to)
  /\ UNCHANGED <<serverVars, lingering, peer, conn>>

ClientSocket(c) ==
  /\ \E to \in {"exit1", "connect"} : ClientGoto(c, "socket", to)
  /\ UNCHANGED <<serverVars, lingering, peer, conn>>

\* Accepted by the kernel of the process that listens, or refused.
ClientConnect(c) ==
  /\ \/ \E p \in Process :
          /\ socket[p] = "listening"
          /\ ClientGoto(c, "connect", "send")
          /\ peer' = [peer EXCEPT ![c] = p]
          /\ conn' = [conn EXCEPT ![c] = "backlog"]
     \/ /\ \A p \in Process : socket[p] # "listening"
        /\ ClientGoto(c, "connect", "exit1")
        /\ UNCHANGED <<peer, conn>>
  /\ UNCHANGED <<serverVars, lingering>>

\* The result of send() is printed; the program returns 0 and its socket is
\* closed: on an answer, if there is one, nobody waits.
ClientSend(c) ==
  /\ ClientGoto(c, "send", "exit0")
  /\ UNCHANGED <<serverVars, lingering, peer, conn>>

-----------------------------------------------------------------------------

Runs(p) ==
  \/ GetEpollInstance(p) \/ GetEndpoint(p) \/ GetEndpointFails(p)
  \/ GetSocket(p) \/ Bind(p) \/ Listen(p)
  \/ AsyncAccept(p) \/ AsyncAcceptFails(p)
  \/ \E c \in Client : AcceptConnection(p, c)

ClientRuns(c) == Resolve(c) \/ ClientSocket(c) \/ ClientConnect(c) \/ ClientSend(c)

\* The operating system forgets the ended connections.
Expire ==
  /\ lingering /\ lingering' = FALSE
  /\ UNCHANGED <<serverVars, clientVars>>

Next ==
  \/ \E p \in Process : Start(p) \/ Runs(p) \/ Killed(p)
  \/ \E c \in Client : ClientStart(c) \/ ClientRuns(c)
  \/ Expire

Spec == Init /\ [][Next]_vars

\* Every process that has been started is scheduled.
FairSpec == Spec /\ \A p \in Process : WF_vars(Runs(p))

-----------------------------------------------------------------------------
(* Properties.                                                             *)

\* Every variable has its type; a process has an epoll instance and a socket,
\* or their failures, from the calls that make them to its end; a connection
\* that waits or is accepted has a process that listens.
TypeOK ==
  /\ pc \in [Process -> {"off", "reactor", "endpoint", "socket", "bind",
                         "listen", "register", "looping", "gone"}]
  /\ epollfd_ \in [Process -> {"none", "open", "failed"}]
  /\ socket \in [Process -> {"none", "unbound", "bound", "listening", "failed"}]
  /\ watched \subseteq Process
  /\ faults \in Nat /\ lingering \in BOOLEAN
  /\ clientPc \in [Client -> {"off", "resolve", "socket", "connect", "send",
                              "exit0", "exit1", "crash"}]
  /\ peer \in [Client -> Process \cup {Nobody}]
  /\ conn \in [Client -> {"none", "backlog", "accepted", "reset"}]
  /\ \A p \in Process :
       /\ epollfd_[p] = "none" <=> pc[p] \in {"off", "reactor", "gone"}
       /\ socket[p] = "none" <=>
            pc[p] \in {"off", "reactor", "endpoint", "socket", "gone"}
       /\ p \in watched => pc[p] = "looping"
  /\ \A c \in Client : conn[c] \in {"backlog", "accepted"} =>
       peer[c] \in Process /\ socket[peer[c]] = "listening"

\* When several processes are started at the same time, and bind and listen
\* of one fall between those of another, some process that runs serves the
\* port, unless a call failed or a process was ended.
PortServed ==
  /\ faults = 0
  /\ \A p \in Process : pc[p] # "gone"
  /\ \E p \in Process : pc[p] = "looping"
  => \E p \in Process : socket[p] = "listening"

\* A server that is started again when no other runs comes to listen, even
\* when connections of the one before still occupy the port.
Alone(p) == \A other \in Process \ {p} : pc[other] \in {"off", "gone"}
RestartServes ==
  \A p \in Process :
    pc[p] = "reactor" /\ Alone(p)
      ~> socket[p] = "listening" \/ pc[p] = "gone" \/ ~Alone(p) \/ faults > 0

\* No client is left in the backlog: the process that listens accepts it, or
\* ends and resets it, whatever failed during its start-up.
BacklogEnds == \A c \in Client : conn[c] = "backlog" ~> conn[c] # "backlog"
=============================================================================
