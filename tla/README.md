# A verification of async-event-loop

The repository is a small HTTP server in C++ on Linux: one thread runs an
event loop (`IOReactor`) over an epoll instance, accepts connections, feeds what
it reads to the llhttp parser and sends each request's answer. This directory
holds TLA+ models of it, TLC configurations that check them on small instances,
and proofs that TLAPS checks for every value of the constants.

Paths below are those of the repository; `server.cpp` is `src/server.cpp` there.

## 1. Inventory

### IOReactor (`include/reactor.h`)
*State:* the epoll descriptor, `event_callback_` and `event_priority_` (maps
from descriptor to callback and to `EventPriority`), `event_queue_` (a priority
queue of fetched events). *Operations:* `asyncAccept`, `addTrack`,
`modifyTrack`, `removeTrack`, `runCallback`, `reactorRun`. *Interaction:* the
listener and the connections register callbacks; the loop fetches a batch with
`epoll_wait`, orders it by priority and runs the callback found **by descriptor
number** at dispatch time. *Hard:* nobody ever unregisters a callback, so the
map holds pointers to deleted objects; descriptor numbers are reused; events
are dispatched after other callbacks closed and opened descriptors. *Correct
if:* an event reaches the live object it was reported for; epoll's mask, the
callback and the priority agree with the object; answers wait for accepts and
requests, and yet no event starves; the loop waits only while work is left.

### ClientConnection (`include/connection_types.h`)
*State:* the socket, the request and response pointers, the parser,
`recvBuffer`, `sendBuffer`, `sent_bytes`. *Operations:* the constructor,
`handleEvent` (read loop, write loop, error), `write` (with `serialize`),
`read`, `close`, the destructor. *Interaction:* registered edge-triggered; the
parser calls the application from inside the read loop, the application calls
`write`, which registers the socket again for output; success and error
callbacks delete the object from inside its own handler. *Hard:* edge-triggered
readiness; partial sends; a peer that sends, shuts down or resets between any
two system calls; pipelined requests; deletion inside a loop. *Correct if:* no
edge is lost, one whole answer goes out in order, a finished connection is
deleted once and not used again.

### HttpServer (`include/listening_server.h`)
*State:* the listening socket. *Operations:* the constructor (resolve, bind,
listen) and `listen` (register, run the reactor; the callback accepts and
registers). *Hard:* failures after `accept` (fcntl, `EPOLL_CTL_ADD`), no
descriptors left, start-up failures that are ignored. *Correct if:* every
accepted descriptor is owned, and a pending connection is accepted.

### Socket utilities (`include/socket_utilities.h`)
Wrappers of the socket and epoll calls, without state of their own.
`removeEpollInterest` swaps two arguments of `epoll_ctl` and always fails.

### ThreadSafeMap (`include/thread_safe_map.h`)
A hash map under a shared mutex: `insert` (overwrites), `remove`, `get`,
`getSize`. The repository uses it from one thread, but its interface promises more.
*Hard:* `remove` and `get` use an iterator after the search; `insert` makes an
entry before it fills it. *Correct if:* each call is atomic and returns.

### server.cpp
The application: answers every request with one fixed response; its success and
error callbacks `delete` the connection.

### Request assembly (`include/connection_types.h`, `include/data_types.h`, `main.cpp`)
*State:* one `HttpRequest` per connection: the text fields, the header line being
read (`key`, `value`), the map `headers`, `body`. *Operations:* the llhttp
callbacks, which append the piece of a field that lies in the buffer.
*Interaction:* llhttp calls them from the read loop; `main.cpp` is the same code
fed by three fixed chunks. *Hard:* a field may be cut anywhere; the object outlives a
message. *Correct if:* however the stream is cut, the request is what the stream
says.

### server.cpp start-up, client.cpp and run_clients.sh
*State:* the epoll descriptor and the listening socket, either of which may be
-1. *Operations:* `getEpollInstance`, `getEndpoint`, `getSocket`,
`bindAndListen`, `asyncAccept`; the client resolves, connects, sends once and
exits. *Hard:* failures are ignored one by one; several servers may come up
together on one port; a server is started again after a crash. *Correct if:* the
port is served, by a process whose socket listens, and no client waits for nothing.

### temp.cpp
An older server with its own loop and `fd_map`, a map from descriptor to
connection. *Hard:* entries are never erased, `insert` does not overwrite,
descriptors are closed and reused inside a batch. It includes a header that the
repository lacks.

### Others
`api.cpp` is a sketch of the intended classes, whose comments state what they
should do. llhttp is a vendored parser.

## 2. The modules

| module | what it is |
|---|---|
| `Exchange` | what one connection promises its peer: read, hand over one answer in order, end once |
| `Lifecycle` | what the rest of the server sees of one connection: one step for each callback |
| `ClientConnection` | one connection in detail, system call by system call, with its socket, peer and epoll entry; implements `Exchange` and `Lifecycle` |
| `RequestAssembly` | the llhttp callbacks over a stream cut into buffers, and the reference definition `Parse` |
| `MCRequestAssembly` | the streams that TLC checks it with |
| `Reactor` | `IOReactor` over the descriptor table and epoll, for the module that supplies the callbacks |
| `HttpServer` | the running server: listener, reactor and any number of connections, with reused descriptors; extends `Reactor`; each connection implements `Lifecycle` |
| `ReactorLib` | the reactor under an arbitrary application that makes any call, level- or edge-triggered; extends `Reactor` |
| `ReactorRemoval` | `ReactorLib` with a history of what the application asked to remove |
| `Startup` | server processes that come up, fail, are killed and started again on one port, and the clients |
| `AtomicMap` | what `ThreadSafeMap` promises: each call takes effect at one moment |
| `ThreadSafeMap` | the map under concurrent callers, step by step; implements `AtomicMap` |
| `PrototypeServer` | the older server of `temp.cpp`: its loop, its two handlers and `fd_map` |
| `ClientConnectionProofs`, `ConnectionEdgeProofs` | theorems about `ClientConnection` |
| `HttpServerProofs`, `RequestAssemblyProofs`, `ReactorLibProofs`, `StartupProofs`, `ThreadSafeMapProofs`, `PrototypeServerProofs` | theorems about the module of that name |

A definition that begins with "Mutant:" in its comment belongs to no
specification: it is what a plausible mistake would make of the definition
below it, and replacing the one by the other breaks one of the properties.

### ClientConnection
One step is one system call of the handler and everything the handler does
until the next (parsing, user callbacks, the destructor): between two calls the
peer may send, shut down, reset or read. `pc` says where the reactor's thread is:
in `epoll_wait`, holding an event, in the read loop or in the write loop.

| code | actions |
|---|---|
| `epoll_wait` takes the entry off the ready list | `EpollWait` |
| the branches of `handleEvent` | `HandleEvent` |
| `recv` returns data, llhttp accepts it | `RecvAccepted` (with `Respond` for each completed request: the callback of `server.cpp`, `write`, `serialize`, `modifyTrack`) |
| `recv` returns data, llhttp rejects it | `RecvRejected`, then `RecvDeleted` |
| `recv` returns 0 / -1 | `RecvEof` / `RecvFails` |
| `send` returns bytes / EAGAIN / an error | `SendAccepted` / `SendBlocked` / `SendBroken` |
| the peer and the network | `PeerSend`, `PeerFin`, `PeerReset`, `PeerRead` |

Data is abstract: incoming segments are inside a request, end one, or are
rejected; the bytes of an answer are pairs <<request, index>>. The kernel's part
(external) models what Linux does as far as the code depends on it: what
`poll` reports, which events wake an edge-triggered entry, that a writer that
found the buffer full is woken when there is room, the pending socket error and
who consumes it, that closing with unread input resets the connection, and that
writing to a broken pipe raises SIGPIPE.

### RequestAssembly
A stream is a sequence of symbols: a byte of a named field, the end of a header
line, the end of a message, or input that llhttp rejects. One step is one
callback of llhttp, which reports the longest run of one field that lies in the buffer
(`Span`), or one `recv` (`Recv`, of any length), or, in the demonstration, the
next chunk (`DemoChunk`) and the final print (`DemoPrint`). `Parse` reads a
stream as a whole and without any buffer: it is the definition that
the assembled object is compared with. A field is the bytes at the positions of
its kind (`Of`), in the order in which they are counted (`Nth`, `Bytes`); a
header line is what no end of a line separates from its own end (`Line`); of two
lines with one name the later counts (`LastLine`). What llhttp reports is
external; the read loop around it is `ClientConnection`'s.

### Reactor, HttpServer and ReactorLib
In `HttpServer` one dispatched callback is one step, because one thread runs it
and no other connection's handler can run in between. Inside it, a connection
may do any of what `ClientConnection` shows it can do between two fetches: go on,
answer, end, or take the process down. `conn[c]` is the state of connection `c`
and of its object, `sock[c]` is the member `socket`. `Deletes` closes whatever
descriptor the object has, whoever owns it by then, and `Dispatch` runs whatever
callback the map has: that the right ones are met is what the properties say. A
queued event carries, for the properties only, the socket it was reported for.

Failures: `accept` without a free descriptor or for another reason
(`AcceptFails`: every errno takes the same empty branch), fcntl failing
(`AcceptForgets`), `EPOLL_CTL_ADD` failing (inside `AcceptTracks`), `epoll_wait`
interrupted (`Interrupt`), SIGPIPE or an abort (`Kills`).

`ReactorLib` has the same reactor under an application that, before
`reactorRun` and inside every callback, opens and closes descriptors and calls
`asyncAccept`, `addTrack`, `modifyTrack` and `removeTrack` for any descriptor,
level-triggered for input or edge-triggered for input or output, with any
priority and callback; each call may fail in the ways epoll_ctl(2) allows and then
changes nothing. `granted` remembers, for the properties, what the last successful
call for a descriptor asked for.
`removeEpollInterest` passes the operation where epoll_ctl(2) takes the descriptor
and the other way round, so that `RemoveTrack` returns -1 and removes nothing.
`thread` says whether the application, the loop or a callback runs;
`DeadReactor` is the exit of `reactorRun` on an empty map. `ReactorRemoval` takes
the same steps and remembers in `removed` the descriptors that `removeTrack` was
called for since they were registered.

### Lifecycle, the link between the two views of a connection
`ClientConnection` has one connection and cuts its handler at every system call;
`HttpServer` has many and runs a handler in one step. `Lifecycle` is what they
must agree on: a callback of a watched connection changes nothing that shows,
or turns the registration to output and leaves an answer (`Respond`), or deletes
the object and with it the registration (`End`), or does not return (`Stop`).
In `ClientConnection` the mapping (`life`, `watch`, `serving`) shows what a
callback has done when it returns: as long as the thread is in the read loop it
shows the state in which the loop was entered, which is known without a history
variable, because the loop is only entered without an answer. In `HttpServer` there is one
instance for each connection (`Life(c)`).

### Startup
One step is one system call of a server process (`pc` names the next one):
`GetEpollInstance`, `GetEndpoint` and `GetEndpointFails` (the null dereference),
`GetSocket`, `Bind`, `Listen`, `AsyncAccept` and `AsyncAcceptFails`. A failed
call leaves "failed" in the place of the descriptor, or the socket as it was, and
the constructor goes on, as in the code; `Bind` and `Listen` fail when the port is
taken, and for other reasons as one of the `MaxFaults` failures.
`Killed` ends a process at any point: a signal, which also makes `reactorRun`,
`listen` and `main` return when it only interrupts `epoll_wait`. A process that was started after it plays
the restart. External: `PortFree` is Linux's rule for sockets with
SO_REUSEADDR (any number may be bound until one listens), `lingering` says that
connections in TIME_WAIT still occupy the port. A client is a run of `client.cpp`
(`Resolve`, `ClientSocket`, `ClientConnect`, `ClientSend`); its connection waits
in the backlog of the process that listens.

### ThreadSafeMap and AtomicMap
Each member function is cut where another thread could look in: taking the lock,
the search (`Find`, `FindNothing`; `FindOrMake` for `operator[]`), the use of the
entry (`Assign`, `Erase`, `Copy`, `GetSize`), the release at the return. `writer`
and `readers` are the owners of `mutex_`. The mapping to `AtomicMap` hides an entry that
`operator[]` has made and the assignment has not filled (`Filled`), and takes a
call for done when its answer is known (`Phase`).

### PrototypeServer
`Start` is everything `main` does before the loop: any failure exits, and
without an IPv4 address a null pointer is dereferenced (`crashed`). One handler
is one step; an event keeps the flags it was fetched with, so that what a peer
does while the handler runs is the same as doing it just before. `HttpConnection`
is external (its header is missing): `object[c]` says whether it was allocated or
deleted. A handler that finds a deleted object in `fd_map` may go on or crash.

## 3. The runs

| run | bounds | checks |
|---|---|---|
| `connection` | 5 segments, 2 per `recv`, answer of 4 bytes, send buffer of 2 | `TypeOK`, `OneAnswerOnTheWire`, `NoLostEdge`, `WriterHasBytes`, `ImplementsExchange`, `ImplementsLifecycle`, `AnswerFinishes`, `DisconnectFinishes`, `OnlyStalledStay` |
| `server` | 2 descriptors besides the listener, 4 connections, batches of 2, 2 failures | `TypeOK`, `DispatchLive`, `OwnSocket`, `DescriptorsAccounted`, `RegistrationCoherent`, `AnswersGoLast`, `ImplementsLifecycle`, `QueueServed`, `BacklogServed` |
| `reactor_lib` | 2 descriptors, a listener and a connection as callbacks, batches of 2, failures unbounded | `TypeOK`, `OneRegistration`, `EventsServed` |
| `startup` | 3 processes, 1 client, 1 failure | `TypeOK`, `PortServed`, `RestartServes`, `BacklogEnds` |
| `shared_map` | 3 threads, 1 key, 2 values, 4 calls | `TypeOK`, `EntryHeld`, `ImplementsAtomicMap`, `EveryCallReturns` |
| `assembly` | 6 streams of the server, 1 of the demonstration, buffers of up to 8 symbols | `TypeOK`, `SplitIndependent`, `FirstRequestExact` |
| `prototype` | 2 descriptors besides the listener, 3 connections, batches of 2, 1 failure | `TypeOK`, `EventsCurrent`, `OpenIsLive`, `GoneIsClosed` |

Why these bounds suffice. Five segments fill the receive buffer more than twice
and allow two requests in one buffer, requests in different buffers, an
incomplete one, a rejected one and unread input behind an answer; an answer
twice as long as the send buffer needs several `send` calls, one of which blocks. Four
connections over two descriptors reuse each descriptor while its old callback is
still in the map; a batch of two is less than the number of ready descriptors,
so that events are fetched late; two failures orphan both descriptors. In
`reactor_lib` every call is made on a descriptor that is closed, open, watched
or queued, and a descriptor is closed and reused between fetch and dispatch.
Three processes are the least of which one can listen between the bind and the
listen of another while a third is restarted. Three threads on one key have a
reader, a writer that makes and one that erases the entry; four calls repeat
each. The streams have every field cut at every position, names that are prefixes of
each other, one name twice, an empty value, chunks, a trailer, two messages on
one connection, and rejected input before and after a complete message.

The bounds named in the modules are `MaxSegs`, `MaxFaults`, `MaxCalls` and
`BufMax`. The first three cap counters in the guards; the theorems hold for every
value of them.

The other runs each check one statement of a comment of the repository that the code does not
keep, and end in a counterexample:

| run | statement | what happens |
|---|---|---|
| `conn_use_after_delete` | `connection_types.h:241` | after a parse error the object is deleted and the read loop goes on |
| `conn_sigpipe` | `server.cpp:58` | `send` without `MSG_NOSIGNAL` on a broken connection ends the process |
| `conn_truncated` | `server.cpp:55` | success means handed to the kernel; closing with unread input discards the tail |
| `assembly_second` | `api.cpp:65` | the second request on a connection is the first with the second's fields appended |
| `reactor_dead` | `reactor.h:117`, `:135` | `removeTrack` always fails, so that the loop never ends for want of work: it waits although all was to be removed |

What else the models show of the code, without a run of its own:

* The response that `server.cpp:41` allocates for every request is freed by nobody.
* A peer that shut down, does not read its answer and stays is never noticed:
  EPOLLRDHUP is not tested and there is no timeout. `AnswerFinishes` and
  `DisconnectFinishes` assume a peer that reads and are false without;
  `OnlyStalledStay` assumes nothing of it and shows that a full send buffer is
  the only way to get there.
* `temp.cpp` keeps the `fd_map` entry of a disconnected client (`:88` and `:109`
  say that its data structures are cleared) and `insert` does not overwrite it, so
  that the next connection on the descriptor is handled with the deleted object
  (`HandleAlreadyConnected` in `PrototypeServer`). `OpenIsLive` shows that the
  wrong object is always one that was deleted before.
* The constructor of `HttpServer` ignores the failure of `bindAndListen`, and
  `asyncAccept` registers any socket. When the port is taken, or `bind` or `listen`
  fails, the process loops on a socket that does not listen, for which a
  level-triggered `epoll_wait` reports EPOLLHUP at every call: it spins and serves
  nobody, also after the port is free again.
* A failure after `accept` leaves an open descriptor that nothing watches.
  `DescriptorsAccounted` bounds them: one for each failure.

`CHECK_DEADLOCK FALSE` is given everywhere: a connection ends, a peer may never
act again, a server may be killed or interrupted, start-up processes and clients
end, threads make finitely many calls, a stream has an end, and with nothing to do
`epoll_wait` blocks for good.

### Fairness
`FairSpec` of `ClientConnection` has weak fairness of the reactor's steps: its
thread is the only one, never waits for anything but `epoll_wait`, and `epoll_wait` returns when the
ready list is not empty. Nothing is assumed of the peer, which may never send,
shut down, reset or read; `AnswerFinishes` and `DisconnectFinishes` name the
assumption they make, `PeerReads`: the network delivers and the peer reads what
it is sent. Without it both are false, for there is no timeout.

`FairSpec` of `HttpServer` and of `PrototypeServer` have weak fairness of the
loop, and strong fairness of `Fetches(f)` for each descriptor: epoll_wait(2) goes
round the ready descriptors when there are more of them than it may return. The
batches of 2 in `server` and `prototype` are smaller than their 3 descriptors.

`FairSpec` of `ReactorLib` has weak fairness of the loop and of `Yields`: the
application's callbacks return. `FairSpec` of `Startup` has weak fairness of each
process that was started (`Runs`); nothing is assumed of clients, signals or of
the time it takes the port to be free. `FairSpec` of `ThreadSafeMap` has weak
fairness of each thread inside a call: the mutex is not assumed to be fair, and
`MaxCalls` excludes that readers come and go for ever while a writer waits.

## 4. What is proved

Every theorem holds for all values of the constants that the named assumptions
of its module allow, which are no more than that buffers have a positive size,
sets that are counted are finite, names are distinct, streams are sequences of
symbols, and the chunks of `main.cpp` are one message.

| module | theorem | states |
|---|---|---|
| `ClientConnectionProofs` | `TypeCorrect` | `Spec => []TypeOK` |
| | `OneAnswerIsSent` | `Spec => []OneAnswerOnTheWire` |
| | `WriterIsNotIdle` | `Spec => []WriterHasBytes` |
| | `ExchangeIsImplemented` | `Spec => ImplementsExchange` |
| | `LifecycleIsImplemented` | `Spec => ImplementsLifecycle` |
| `ConnectionEdgeProofs` | `NoEdgeIsLost` | `Spec => []NoLostEdge` |
| `HttpServerProofs` | `TypeCorrect` | `Spec => []TypeOK` |
| | `DispatchIsLive` | `Spec => []DispatchLive` |
| | `OwnSocketIsKept` | `Spec => []OwnSocket` |
| | `DescriptorsAreAccounted` | `Spec => []DescriptorsAccounted` |
| | `RegistrationIsCoherent` | `Spec => []RegistrationCoherent` |
| | `AnswersAreLast` | `Spec => AnswersGoLast` |
| | `LivesAreImplemented` | `Spec => ImplementsLifecycle` |
| `RequestAssemblyProofs` | `TypeCorrect` | `Spec => []TypeOK` |
| | `IsSplitIndependent` | `Spec => []SplitIndependent` |
| | `FirstRequestIsExact` | `Spec => []FirstRequestExact` |
| | `DoesAccumulate` | `Spec => []RequestsAccumulate` |
| `ReactorLibProofs` | `TypeCorrect` | `Spec => []TypeOK` |
| | `RegistrationIsOne` | `Spec => []OneRegistration` |
| `StartupProofs` | `TypeCorrect` | `Spec => []TypeOK` |
| | `ThePortIsServed` | `Spec => []PortServed` |
| `ThreadSafeMapProofs` | `TypeCorrect` | `Spec => []TypeOK` |
| | `EntriesAreHeld` | `Spec => []EntryHeld` |
| | `AtomicMapIsImplemented` | `Spec => ImplementsAtomicMap` |
| `PrototypeServerProofs` | `TypeCorrect` | `Spec => []TypeOK` |
| | `EventsAreCurrent` | `Spec => []EventsCurrent` |
| | `OpenStaysLive` | `Spec => []OpenIsLive` |

The arguments. Each module has one inductive invariant (`IndInv`, or `Inv` in
`RequestAssemblyProofs`), with one lemma for each action that keeps it.

**HttpServer.** That a fetched event still finds its own live object cannot be
shown from the queue alone: a later fetch queues events for descriptors that
have none now. So `IndInv` says what is true of every watched descriptor
(`Watched`: its socket is that of a live object, which owns it and whose callback
and priority are the ones stored), that the listening descriptor is never closed
(`ListenerKept`), that a live object's descriptor refers to its connection
(`OwnSocket`), that queued events are for watched descriptors and the sockets
behind them (`QueueCurrent`), and that no descriptor has two of them
(`OneEventPerFd`). The last is what makes deletion inside a callback safe: the
closed descriptor's only event is the one being dispatched. A descriptor returned
by `accept` referred to nothing, so that no live object and no queued event is
for it (`NewFdInv`), and a stale callback is overwritten before its descriptor is
watched again. A queued event also has the priority that is stored for its
descriptor (`QueueCurrent`), and that is the one for what the connection does
(`Watched`); so the least priority is an answer's only when all that is left in
the queue are answers, which is `AnswersGoLast`. `FewOrphans` adds that each failure costs one descriptor at most.
`ImplementsLifecycle` follows from the same invariant: the callback that is run is
the one of a live and watched connection, which takes a step of its life
(`CallbackLife`); every other live connection has another descriptor
(`LiveApart`) and stutters.

**ClientConnection.** `OneAnswerOnTheWire` alone does not exclude that a request
is completed when half an answer was sent. `IndInv` does: a connection without an
answer is registered for input and has sent nothing (`Reading`); one with an
answer is registered for output only, its buffer is that answer and `sent_bytes`
is the length of the wire (`Writing`); and the thread's position agrees with the
mask (`Thread`: it is in the read loop only before any byte was sent). `write()`
may therefore replace the buffer without resetting `sent_bytes`. For the
refinement, a completed request maps to `Answer`, accepted bytes to `Push`, the
ways to delete the object with an error to `Fail`, and every other step to a
stutter (`StepRefines`).

For `Lifecycle`, the four ways to leave the read loop show at once what the
loop did (`ReadLife`), and a thread that enters it has no answer (`HandleLife`),
because write() took EPOLLIN out of the mask and an event is part of the mask it
was fetched with. Besides `IndInv` this needs that a deleted object's socket is
not watched (`Unwatched`).

`NoLostEdge` speaks of a sleeping thread only. `Edges` strengthens it to every
position in which the entry is off the ready list: a thread that holds an event
has every pending one in it, and a thread in the read loop has no answer yet and
no error that `recv` could take unseen. Whatever the peer does then either wakes
the entry or is met by the loop before it sleeps.

**RequestAssembly.** `SplitIndependent` is inductive, given the types, and the
work is in what one callback adds to `Parse`. A recursive definition of "the bytes
of a field" would need an induction over the stream; counting does not. For a
finite set of positions, "how many are not above this one" is an injection into
1..n, hence onto it (`NthProperties`), so that the n-th position exists and is
unique, and positions behind all others are counted after them (`NthExtend`).
Hence the bytes at P \cup Q are those at P followed by those at Q when Q lies
behind P (`BytesConcat`). `ParseSpan`, `ParseLine` and `ParseEnd` say, from that,
what a piece of a field, the end of a header line and the end of a message make of
`Parse`; they are the data callbacks, word for word (`SpanInv`, `LineInv`,
`CompleteInv`). `SpanProperties` shows that the span that llhttp reports exists. For
`FirstRequestExact` the invariant adds `RequestsAccumulate`: the n-th request read is the
parse of the whole stream up to the end of the n-th message. It is the exact
form of what `assembly_second` shows: the first is right, and every later one
has all earlier ones in it.

**ThreadSafeMap.** A thread inside a call that takes a unique_lock is alone
(`Excluded`), which is what `EntryHeld` needs; and an entry without its value
belongs to the thread that is about to fill it (`DefaultHeld`), which is what the
refinement needs: no reader, and no count, meets an entry that the mapping hides.

**Startup.** `PastListen`: as long as nothing failed and nobody ended, a process that is past
`bind` and `listen` either listens or was refused because another one does
(`BindListenInv`; any other refusal is a failure that is counted).
Neither of the two alone is kept by the step that lets a process through.

**ReactorLib.** `OneRegistration` is inductive with the types: it speaks of watched
descriptors only, a closed one is watched no more although its entries stay, and
the call that makes the kernel watch it again replaces them in the same step.

**PrototypeServer.** `EntriesOwn`: a stale entry names a connection that is
closed; no entry but that of its own descriptor names an open one. The wrong object
that a stale entry leads to is therefore one that was deleted before, never the
live object of another connection.

The inductive invariants were checked with TLC at the bounds of the passing runs before they
were proved.

Only model-checked: every liveness property (fairness and ENABLED are out of the
prover's reach). Every invariant, action property and refinement of the passing
runs is also a theorem.

## 5. What is not modelled, and why

* `createConnection` and `Clientconnection::close`: nothing calls them. A mutant
  of the destructor (`ClosesOnly`) shows what a callback that calls the latter
  and keeps the object would do: it breaks `OwnSocket`.
* Memory: what is never freed (the response, the address list) has no effect on the
  control; only whether an object is alive is modelled.
* A failing `modifyTrack` in `write`, whose result is not looked at. EPOLL_CTL_MOD
  cannot fail there: when a callback runs its descriptor is open and watched
  (`Watched`, and `QueueCurrent` at the dispatch), and the call allocates nothing.
  `ReactorLib` has the failing call (`ModifyTrackFails`).
* The limit of the backlog (`CONN_BACKLOG`): a client beyond it retries in its kernel.
* EPOLLERR on the listening socket (an empty branch) and the unknown address
  family in `acceptConnection` (impossible for a listener of `AF_INET`).
* "No callback found" in `runCallback` in `HttpServer`: `DispatchLive` shows that there always is
  one. `ReactorLib` has the branch (`RunCallback`), which is never taken: no entry
  ever leaves the map.
* `removeTrack` on descriptor 2, where the swapped arguments would mean something: it is
  the standard error.
* `HttpConnection`, which `temp.cpp` uses, is not in the repository; what the code
  needs of it is external.
* `api.cpp` is a sketch that does not compile; llhttp is third-party and
  generated. Output to the terminal is left out.

## 6. Plan

The plan is done, in this order: `Exchange`, `ClientConnection`, `Reactor`,
`HttpServer`, `PrototypeServer`, then `RequestAssembly`, `ReactorLib`, `Startup`,
`AtomicMap` and `ThreadSafeMap`, each with its proofs; `Lifecycle` as the link
between the connection and the server; `RequestAssemblyProofs`; `ReactorRemoval`.

What could follow: the converse of `LivesAreImplemented`, that `HttpServer`
lets its connections do no less than `Lifecycle` allows (that `Responds`, `Ends`
and `Kills` are the three steps of `Lifecycle` is read off their definitions);
`RequestAssembly` with the boundaries of the receive buffer that `ClientConnection` has.
