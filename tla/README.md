# A TLA+ verification project for SecuritySocket

SecuritySocket is a C++ socket library: a client that talks plain TCP or TLS, a
request server that parses requests and answers them on one thread, and a
broadcast server that pushes data to every connected client. This directory holds
TLA+ models of its own logic, translated from `src/src/implementation/`, the TLC
runs that check them on small instances, and proofs checked by TLAPS. File names
without a directory below are files of `src/src/implementation/`.

`PROJECT.json` has the machine-readable side: components, runs, the map from
definitions to source lines, findings, hazards and theorems.

## 1. Inventory

| Part | State it keeps | Operations | Modelled by |
|---|---|---|---|
| `SocketMultiEventListener` (`SocketEvent.hpp`, `SocketEvent_Linux.cpp`) | a vector of pollfds, a vector of context pointers, the accept descriptor | `addEvent`, `modifyEvent`, `removeEvent`, `wait` | `SocketEvent` |
| `SocketEventListener` (same files) | one pollfd | `open`, `wait` | `Interest`/`Wait` of `SocketClient`, `WaitOut` of `BroadcastWrite` |
| `SocketBroadcastServerImpl` | the client list, the pending-destruction list, the listener, `_socket`, `_handler`, `_is_monitoring`, the monitor thread | `open`, `close`, `dropAll`, `await`, `awaitClose`, `write`, `monitorClient` | `BroadcastServer`, `BroadcastWrite` |
| `SocketRequestServerImpl` | `_is_running`, the thread, its listener, the pool | `open`, `close`, `run` | `RequestServer` |
| `SocketConnection` | state, input/output buffers, counters, mode | `readHeader`, `readPayload`, `runTask`, `writeResponse`, `flush` | `RequestServer` |
| `ObjectPool` | objects and the queue of free ones | `acquire`, `release` | `RequestServer` |
| `SocketClientImpl` | the socket and the retry loops | `open`, `close`, `connect`, `read`, `write`, `isConnected` | `SocketClient` |
| `ClientActiveSocket`, `TLSClientActiveSocket` | the descriptor, the `SSL` object | `connect`, `reconnect`, the post-handshake probe, `read`, `write`, `close` | `SocketClient` |
| `PassiveSocket`, `ServerActiveSocket` | a descriptor | `bind`, `listen`, `accept`, `close`, `read`, `write` | inside the two servers |
| `SocketTLSClientConfiguration` (`src/src/SecuritySocket.hpp`, `.cpp`), `TLSHelper` | bitmaps of versions and suites, verification flags | `valid`, `isVersionSupported`, `generateTLS12CipherSuites`, `generateTLS13CipherSuites` | `TLSConfiguration` |
| `SocketAddress` | the resolved address | the constructor | `HasAddress` of `SocketClient`: whether there is one |
| `SocketResult` | none | error numbers to codes | `Codes`, `SocketError`, `AlertCode`, `CreateTLSResult` |
| `SocketHelper`, `SocketTLSServerConfiguration`, the facade `SecuritySocket.cpp`, Windows listeners, demos | | | not modelled, see section 8 |

How the parts interact:

* Both servers register contexts (pointers to their own objects) with a
  `SocketMultiEventListener` and get them back from `wait()`. The listener finds a
  pollfd by descriptor *number* and a context by *address*; nothing else ties them.
* The broadcast server's monitor thread shares the client list with application
  threads under `_clients_mtx`. Waiters sleep on `_clients_cv`. `write()` copies the
  list and then works without a lock on sockets others may close.
* The request server's thread owns its connections; only `_is_running` and the
  listening socket are shared with the owner.
* The client is sequential; what is hard is the order in which the server's
  handshake messages, alerts, tickets, data and hangups arrive between its calls.

What is hard here, and the property that makes the part right (the complete list,
with lines, is `hazards` in `PROJECT.json`):

* **Broadcast server** — reuse of descriptor numbers while events, snapshots and
  loaded descriptors are stale; `dropAll()` freeing clients the monitor still has in
  local copies; both of them closing and reporting one client; a wait's predicate,
  sleep and notification; `close()` joining a thread that may be anywhere; life
  cycles such as `open`-`close`-`open`. Right means: no dangling pointer, no foreign,
  forgotten or doubly closed descriptor, one disconnect callback per client, no lost
  wake-up, every active client polled, `close()` returns.
* **Broadcast write** — partial sends, retries, and sockets closed in mid-turn. Right
  means: the offset is what the client received, a client only gets its own part,
  and the call returns.
* **Request server** — requests and responses in pieces, buffers reused from request
  to request and from connection to connection, a poll interest that must follow the
  state machine, a pool at its limit, events of one batch that touch the same object.
  Right means: exact framing, exact responses, every request answered, the pool
  conserved, hangups release their object.
* **Client** — three nested retry loops over calls that may fail, block or end;
  TLS 1.3 refusals after a successful handshake; unsigned byte counts. Right means:
  the verdict of `connect()` and its code are true, `write()` accounts for every
  byte, every call returns. Two of these do not hold as documented: a silent server
  keeps `connect()` in its handshake, and `verify_hostname` alone does nothing (section 5).

## 2. Modules

```
SocketEvent            the listener's data structure: pure operators
  <- SocketEvent_proofs
  <- BroadcastServer       the server object, monitor thread, application threads
       <- BroadcastServer_proofs         (also extends SocketEvent_proofs)
            <- BroadcastRefinement_proofs
            <- BroadcastNotifications_proofs
       <- BroadcastWrite       write() on top of it
            <- BroadcastWrite_proofs     (also extends BroadcastServer_proofs)
            <- MCBroadcastWrite
       <- MCBroadcastServer
  <- RequestServer         run(), SocketConnection, ObjectPool
       <- RequestServer_proofs           (also extends SocketEvent_proofs)
            <- RequestService_proofs
       <- MCRequestServer
TLSConfiguration       what a client asks for and what the TLS library makes of it
  <- SocketClient          the client over plain and TLS sockets
       <- SocketClient_proofs
       <- MCSocketClient

ClientRegistry         abstract: the life of a broadcast client
RequestService         abstract: requests in, responses out
```

**`SocketEvent`.** A listener is `[handle, contexts, serverSocket]`, the three members
of the class. `AddEvent`, `RemoveEvent`, `ModifyEvent` are the critical sections of the
same names, `EventType` the order in which `wait()` tests revents, `FindContext` its
search by descriptor, `Events` its result. No `RECURSIVE` operator: the
community modules' sequence operators do the work.

**`BroadcastServer`.** Variables follow the members of the class, the locals of
`monitorClient()` (`mpc`, `snap`, `evs`, `cur`, `owned`), the position and locals of each
application thread (`pc`, `op`, `mine`, `todo`, `ret`), the client objects (`fd`, which
is the context's number and never reset, and `sock`, which `close()` resets), and the
kernel (`owner` of every descriptor, `listening`, `peer`). One action is one critical
section of a mutex, one system call, or one notification with the callback behind it.
`dropAll()` holds `_clients_mtx` during its loop of `removeEvent` calls, so that section is
several steps with `mtx` held; so is the gap between a wait's predicate and its sleep.
`accept()` may hand out any free descriptor, so a closed number can come back at once.
`poll()` looks at what each number is *now*. A client stands for one connection and for
the `BroadcastClient` made for it. Calls a thread may make are the constant `Calls`, so a
run chooses its usage pattern; only one thread may open and close (`OwnerAssumption`).
`open()` stores the handler it is given, which may be null (`Handlers`); the callbacks are
skipped then.

**`BroadcastWrite`** extends it with `write()`. Loading `_socket` and `send()` are two
steps, because no lock covers them. `got` counts what each connection received.

**`RequestServer`.** One step is one dispatch of `run()` with everything it does: a READ
event reads what is there, moves the state machine, calls the handler and changes the
interest. A unit of data remembers its connection, request and position, so that a
unit in the wrong buffer is visible. `Slots` is a sequence, because the pool hands out
its objects in queue order. A connection stands for its descriptor (this
server uses and closes descriptors on one thread).

**`TLSConfiguration`.** The constructor of `SocketTLSClientConfiguration` turns its lists
into bitmaps, here sets; the strings of suite names made from them are sets too, since
the server chooses among the suites and their order is never observed. `VersionRange` and `OfferedSuites` are what the constructor of
`TLSClientActiveSocket` hands to the TLS library; `NegotiatedVersion` and `SuiteShared` are
what the library then agrees on with a server. `CommonVersions` and `CommonSuite` say the
same from the application's lists, without the range and the generated strings; the properties of
`connect()` are stated with them.

**`SocketClient`.** `cpc` is the position in `connect`, `read` or `write`; `setup` fixes
the client's configuration, whether the library was built with TLS, whether the server's
name resolves, and the server's versions, suites and certificate. `MCSocketClient` lists
the setups of the runs. The socket's calls are
relations `Op(..., r)` that hold when the call may return the code `r`. A handshake is
`Flights` messages of the server; with TLS 1.3 an alert may still follow them. `size_t`
is arithmetic modulo `Word`, so the wrap of a `-1` is what the code does. The server may
answer, refuse, send, hang up, reset or fall silent at any point; its refusal of the
client's certificate comes, with TLS 1.3, in any order with tickets and data.

External parts (marked so in the map): the kernel's descriptor table and `poll()`, the
peers, the TLS library's consumption of records.

### The abstract specifications

**`ClientRegistry`** is what an application may believe about the clients of a broadcast
server: each one arrives, joins the list, leaves it and is closed, once and in this order;
the connect callback runs at most once and not before it has joined, the disconnect
callback at most once and with the close. There are no threads, mutexes, descriptors or
polls in it. `BroadcastServer!Phase` computes a client's phase from the places where
the code keeps it: the descriptor of its context, the list, its socket, and the monitor's
local reference between `accept()` and `push_back`. `RefinesRegistry` says that
every step of every thread is a step of the registry or none. It is what makes
`awaitClose()` usable as a barrier between rounds (`src/readme.md:719`): a client that has
left the list does not come back. That whoever took a client off the list still closes it,
with the monitor, `dropAll()` and `close()` interleaved, is `NoDescriptorLeak`.

**`RequestService`** is what a peer may believe of a request server: its requests are
handled whole, in order, the next only when the response to the one before is written,
and the response units go out in order. `RequestServer!Service` forgets polling,
buffers, pieces and the pool; `RefinesService` is the refinement.

## 3. Runs that pass

| Run | Bounds | What it shows |
|---|---|---|
| `broadcast_safety` | 2 connections, 3 descriptors; the owner opens with a handler or with nullptr, opens again while running, and closes; the helper drops and waits; waits time out, `poll()` may fail | contexts the monitor uses are alive; sockets own their descriptors; no double callback; no leak; no list change slept through; a disconnect follows its connect except in one window that the property names; the server implements `ClientRegistry` |
| `broadcast_liveness` | 2 connections, 2 descriptors, one `open()`, no `dropAll`; waits time out, `poll()` may fail | every active client is polled; a hangup that raises POLLHUP leads to removal while the monitor lives; `close()`, `await()` and `awaitClose()` return, even when the monitor has died |
| `broadcast_write` | 2 connections, 3 descriptors, buffer of 2 bytes, 2 retries, monitor and `dropAll` running, `poll()` may fail | offsets are what was received; a client of the snapshot gets bytes in its own turn only; every step leaves less to do |
| `request_safety` | 2 connections, 2 objects, header of 2 units, two requests (payload and a response of two units; neither), send buffer 1 | the server implements `RequestService`; nothing skipped, responses exact, interests and event contexts right |
| `request_pool` | 3 TCP connections, 2 objects, two `open()` calls, a `SLOW` request, failing system calls | the pool is conserved and runs dry only when it must; interests and events stay right with left-over connections |
| `request_liveness` | 2 connections, response longer than the send buffer | every request answered, every hangup released, `close()` returns |
| `client_safety` | 34 setups: plain; a name that does not resolve; a library without TLS; every pair of version choices; verification on, half on and off against a bad and a foreign certificate with either version; suites in common, in common for the wrong version only, and none. 3 retries, 2 handshake messages, 2 records, 2 calls of `read()` or `write()`; no send would block | what the verdict of `connect()` claims and the reason its code names; byte accounting of `write()`; every step of a call brings it nearer to its return, but for the handshake with a silent server |

Why the bounds are enough to be interesting. Two connections and three descriptors (one
is the listening socket's) are the least with which a number is closed and given to
another connection while a third party still holds it. With one descriptor less, in
`broadcast_liveness`, the second connection has to wait for the number of the first,
which keeps the state graph small enough for the temporal checks and makes a full
descriptor table part of them. Two
application threads are one owner and one other; the races of the code are between the
monitor and one of them, or between the two. Two units of header, payload and response
with a send buffer of one make every piece boundary occur, before, at and after the end
of each part. Three connections on two objects exhaust the pool. Three
retries (the default) cover first, middle and last. Two records let an alert stand behind
data, and a record be left over from a call before. Named bounds: `MaxOpens`, `MaxWrites`,
`MaxRecords`, `MaxCalls`, `MaxBlocks`. Connections and descriptors are symmetric in the
safety runs; pool objects are not, their order is known. No liveness run uses symmetry.

Deadlock is checked in the runs of `MCBroadcastServer`. It is not in the others: after the
last call a client, a server that was closed, or a finished sequence of peers really
stops.

### The switches

`UnixDomain` is `is_unix_domain` of the configuration. It changes two things. An orderly
close of the peer is POLLHUP on a Unix-domain stream socket; over TCP a FIN is POLLIN and
POLLHUP needs both directions shut (a reset raises it everywhere); a `send()` to a peer that
has closed fails on the former and is taken by the latter. And a Unix-domain
`bind()` leaves a file behind that nobody unlinks, so the next `open()` fails.
`ReopensClosed` says whether the owner opens a server again that it has closed; TRUE only
in `broadcast_reopen_closed`. Opening a *running* server again is always allowed, within
`MaxOpens`. `Handlers` is what `open()` may be given, a handler or nullptr; both in
`broadcast_safety`. `WaitsTimeOut` lets sleeping waiters time out; `PollFails` and `SyscallsFail` let system calls fail.

## 4. Fairness

* `BroadcastServer!FairSpec`: every thread inside an operation is scheduled (weak
  fairness). The monitor gets strong fairness: it takes `_clients_mtx` again and again, and
  threads that hold it for a moment must not keep it away for ever; no other lock is
  assumed fair. A waiter that is woken and goes back to sleep again and again still gets
  out when its time is up (strong fairness of `WaitExpire`): the deadline of `wait_for`
  with a predicate is fixed when it is called. Nobody has to call, connect or hang up, and `poll()` need not fail or succeed.
* `BroadcastWrite` needs none: that `write()` returns is stated as `WriteProgress`, a
  measure that every step of `write()` lowers. Some step of `write()` is possible whenever
  it has not returned, so a thread that is scheduled gets to the end. Nothing is assumed
  about the peers: a non-blocking send that cannot proceed ends the client's turn.
* `RequestServer!FairSpec`: the server's thread and the joining thread run, and a
  peer that is still there reads what it was sent. Without the last, a response to a peer that
  never reads cannot be finished by any server; only `Answered` needs it.
* `SocketClient!FairSpec`: the calling thread runs; the server owes nothing. It is used
  by `client_silent_server` only. That calls return is otherwise stated without fairness, as
  `ClientProgress`: like `WriteProgress` it is a measure (section 6), and it names the one
  turn that does not lower it.

## 5. Disagreements between the code and what is said about it

Five runs have a property that states a sentence of the readme or of a comment, and TLC
refutes it from the code. The sentences are quoted under `findings`.

| Run | What the code does |
|---|---|
| `broadcast_stale_event` | A DISCONNECTED event that became stale through `dropAll()` makes the monitor call `removeEvent`, which erases by number. If the number was reused, the new client drops out of the polling set for good. |
| `broadcast_reopen_closed` | `close()` frees the clients but their contexts stay in the listener (its `close()` is empty). The monitor of the next `open()` walks them. |
| `broadcast_fin_tcp` | Over TCP a peer's FIN is a READ event, which the monitor ignores: the client stays active. |
| `client_would_block` | The `-1` of a send that would block is added to `written_size`. |
| `client_silent_server` | During the handshake the wait is for POLLIN or POLLOUT and a connected socket is writable, so the wait never times out, the retry counter never moves, and `connect()` does not return as long as the server is silent. |

The same models refute the following statements when the constants of a run above are
changed as the last column says; they have no run of their own.

| Statement | What the code does | To see it |
|---|---|---|
| `BroadcastServer!CloseWakesWaiters` (`SocketBroadcastServer.cpp:337`) | `close()` clears the flag and notifies without the mutex; a waiter between predicate and sleep misses both and waits out its timeout. | invariant of `broadcast_safety` with `WaitsTimeOut = FALSE` |
| `BroadcastServer!AwaitSuccessHasClient` (`src/readme.md:731`) | `await()` tests the list in one critical section and counts in another; SUCCESS with zero clients is possible. | property of `broadcast_safety` |
| `BroadcastWrite!OnlySnapshotReceives` (`src/readme.md:711`) | A client accepted between `write()`'s load of `_socket` and `send()` may receive a piece of a broadcast it is not part of. | invariant of `broadcast_write` |
| `RequestServer!HangupReleases` (`src/readme.md:652`) | Over TCP a FIN makes `run()` read zero bytes on every turn; the connection is never released. | `request_liveness` with `UnixDomain = FALSE` |
| `SocketClient!ConnectVerdict` with `cfg.verifyHostname => server.cert # "mismatch"` in `Established` (`src/readme.md:572`: "verify that the server hostname matches the certificate CN/SAN") | `verify_hostname` alone has no effect: without `verify_server` the constructor sets SSL_VERIFY_NONE, `SSL_connect()` goes on after the mismatch, and `connect()` returns SUCCESS. `ConnectVerdict` therefore claims the name only where both are set, and nothing where `verify_hostname` is set alone; it does not say that the checks asked for have passed. | `client_safety`, whose setups have the case |
| `RequestServer!NoRequestSkipped` (`src/readme.md:673`) | A `SLOW` request is consumed and never handed to the handler (`// @Todo` in `runTask()`). | `request_safety` with a `SLOW` request |
| `SocketClient!ReadNotStarved` (`ClientActiveSocket.cpp:319`) | The TLS 1.3 probe (or a partial read) leaves data inside the TLS library; `read()` polls the socket, sees nothing and times out. | property of `client_safety` with `ReadSize = 2` |

Three more things the models show, about which no document says anything. With TLS 1.3 a
server that sends data before it refuses the client's certificate is reported as connected:
the probe finds the data and does not look behind them (`ClientActiveSocket.cpp:335`), and
the refusal comes out of a later `read()`. `ConnectVerdict` says exactly that: an alert may
be waiting behind data and nowhere else. `connect()` tests
a fresh result instead of that of its `SocketAddress` (`SocketClient.cpp:44`): a name that
does not resolve is tried `max_retries` times as an empty address and reported as
SOCKET_INVALID_ARGUMENT, never as ADDRESS_NOT_AVAILABLE. A Unix-domain server that is
opened a second time fails in `bind()` and keeps the unbound socket.

`broadcast_write` and `client_safety` show the other side of two of these: inside the
snapshot bytes are never mixed up, because a snapshot holds strong references, a
closed client's object remembers `-1`, and a connection that takes over a number cannot be
in a snapshot made before it; and `write()` of the client is exact as long as no send would
block.

## 6. Proofs

Eight modules hold proofs. What they prove holds for any sets of clients, descriptors
and threads, any pool, any sequence of requests, any size and number of retries, and any
setting of the switches, except where a hypothesis is named. The assumptions on the
constants stand in the modules that declare them, and TLC evaluates them in every run.

Every theorem about a run's property follows the same scheme. The property is a
consequence of a larger invariant; that invariant is inductive; TLC has checked it on
the run's instance before it was proved. A step proof has one case per action, and
actions that touch none of the variables of a conjunct share a frame lemma. Every
safety property of every passing run is a theorem, on its own or under a hypothesis on
the constants; each hypothesis is a usage pattern or an input of the program, some run
satisfies it, and a counterexample, in section 5 or named below, shows that it cannot be
dropped.

### The listener: `SocketEvent_proofs`

Lemmas only. `MinExists` and `FirstIndex` make the first match of `std::find_if` well
defined; `AddEvent` and `RemoveEvent` keep the type of a listener; what erasing leaves was
there before. The class depends on a fact it nowhere checks: its two vectors stay in
step although `removeEvent` erases from one by address and from the other by number. That
is what the last lemmas say: an entry that occurs once is erased where it is
(`RemoveFirstAt`, `EraseFdAt`), and erasing one position from both vectors leaves the other
entries, still paired (`EraseInStep`).

The broadcast server cannot rely on that, because its vectors do get out of step (section 5,
`broadcast_stale_event`). `RemoveFirstOnce` and `EraseFdOnce` say what an erasure does to
one vector alone when nothing occurs in it twice, and `FindContextFound` that the search by
descriptor finds a context with that descriptor if there is one.

### The broadcast server: `BroadcastServer_proofs`

| Theorem | Statement |
|---|---|
| `TypeCorrect` | `Spec => []TypeOK` |
| `OwnershipInvariant` | `Spec => [](TypeInv /\ Ownership)` |
| `DescriptorSafety` | `Spec => []SocketOwnsItsFd`: nobody closes a descriptor that has been reused |
| `SingleDisconnect` | `Spec => []NoDoubleDisconnect` |
| `LeakFreedom` | `Spec => []NoDescriptorLeak`: an open accepted descriptor has someone who will close it |
| `PointerInvariant` | if `~ReopensClosed`: `Spec => []PointerInv` |
| `PointersAreLive` | if `~ReopensClosed`: `Spec => []MonitorPointersLive`: the monitor never follows a pointer to a client that was freed |
| `ActiveArePolled` | if `~ReopensClosed` and nobody calls `dropAll()`: `Spec => []EveryActivePolled` |

Assumptions: `NullAssumption` (the null value is none of the others, the accept context
is no client), `CallsAssumption`, `OwnerAssumption`, `BoundsAssumption`,
`SwitchAssumption`.

None of the three safety properties is inductive alone: that a `close()`
hits the right descriptor depends on nobody else having closed the same client before,
which depends on the client being in one place only. `Ownership` says this. A client's
socket can be closed by whoever has the client: the active list (for `close()`), the
monitor between `accept` and `push_back` or between `erase` and `close()` (`owned`), and a
thread inside `dropAll()` (`Holding`). The invariant has five parts:

* `Descriptors`: open sockets and descriptors owned by clients correspond one to one;
* `Closers`: a socket is open exactly if somebody has the client;
* `OneCloser`: never two;
* `Reports`: a client was reported gone at most once, and its socket is closed then;
* `MonitorLocal`: where the monitor's reference lives, and that without the flag a monitor
  exists only while `close()` is about to join it. This is what makes clearing the lists
  in `close()` safe, and where `OwnerAssumption` is used.

`LifeInv` adds two facts about the object's life, which the next modules use too:
`JoinedFirst` (the lists, the socket and `_handler` are cleared after the monitor was joined)
and `ClosingStopped` (the flag is down throughout `close()`).

**The monitor's pointers.** `wait()` copies the listener's vectors, polls without a lock,
and returns raw pointers; `dropAll()` on another thread may run between any two of these
steps. That no copy outlives its client is an argument about the order of the
hand-overs, and `PointerInv` is that argument:

* `OpenOnce`: before the first `open()` has finished there is no monitor and the listener
  is empty; while there is a monitor, its listening socket is open and listening. So the
  accept context is never reported as disconnected (it would be cast to a client);
* `Polling`: a context in the listener is that of a client in `_active_clients`, about to be
  pushed, or still to be removed by a `dropAll()` that has it in its local vector. No context
  and no descriptor is there twice, and every pollfd finds a context. (Not the converse: a
  context may have lost its pollfd.)
* `Secure`: a client is safe for the rest of the monitor's turn if it is in the active
  list, in `_pending_destruction`, or in the hands of a `dropAll()` that has not handed over
  yet. `dropAll()` moves it along these three without a gap, and only the monitor clears the
  last;
* `Batch`: every client in the copies, in the events and under the cursor is secure, and no
  two events of a batch are about the same client. The last is needed because the monitor
  itself erases a client, in the middle of the batch;
* `BatchLocal`: the copies are gone when the monitor clears `_pending_destruction`.

Without the hypothesis the theorem is false: `broadcast_reopen_closed` is the counterexample.

`EveryActivePolled` needs that the client of a DISCONNECTED event is still open when
`removeEvent` erases by its number; then the number is nobody else's, by `Ownership`. The
client of an event is secure; without `dropAll()` this can only mean that it is active.
With `dropAll()` it may be closed already and its number reused, which is
`broadcast_stale_event`.

### It implements the registry: `BroadcastRefinement_proofs`

| Theorem | Statement |
|---|---|
| `RegistryInvariant` | `Spec => []RegistryInv` |
| `ServerImplementsRegistry` | `Spec => RefinesRegistry` |

`RegistryInv` adds `Announced` to ownership: only accepted clients have been
announced, and the one the monitor has just accepted has not. The step proof computes
`Phase` before and after each action. Accepting, `push_back`, the connect callback, and
closing by the monitor or by `dropAll()` are steps of the registry for one client; the
monitor's `erase` and the swap of `dropAll()` are `Leave` for a set of clients; clearing the
lists in the server's `close()` is `Shutdown`; all others leave `Phase` and the callbacks'
histories alone. `OneCloser` is what makes the
phases unambiguous: without it a client could be both listed and being closed.

### What the application is told: `BroadcastNotifications_proofs`

| Theorem | Hypothesis | Statement |
|---|---|---|
| `CallbackInvariant` | `~ReopensClosed` | `Spec => []CallbackInv` |
| `CallbacksPaired` | `~ReopensClosed` | `Spec => []DisconnectPaired` |
| `CallbacksPairedReopened` | `FALSE \notin Handlers` | `Spec => []DisconnectPaired` |
| `WaiterInvariant` | `~ReopensClosed` | `Spec => []WaiterInv` |
| `ListChangesNotified` | `~ReopensClosed` | `Spec => []NoMissedListChange` |

The handler may be null, and then nobody is announced. Pairing therefore needs that the
handler does not change while there are clients. `OpenedEmpty` says that the only `open()`
that gets as far as storing a handler does so before the first client (`OpenOnce`: on a
running server `bind()` fails before the handler is stored), `JoinedFirst` that `close()` clears it
after the monitor, and `AcceptedAnnounced` that under a handler an accepted client has been
announced or is the one in the monitor's hands. `OneCloser` then excludes that a client is
reported gone which the monitor has not even pushed. On a server that is closed and opened
again pairing holds if every `open()` is given a handler (`AlwaysHandled`, `AllAnnounced`).
With neither hypothesis it fails: a `dropAll()` that was under way when the server was
closed reports its clients to the handler of the next `open()`, which has not heard of those
accepted without one.

For the waiters, `MutexHeld` says who has `_clients_mtx` between two steps,
`ClosingStopped` that the flag is down throughout `close()`, `FirstOpen` that nobody waits
on a server that was never opened, and `WaitersInformed` that a waiter which still holds the
mutex has just seen its predicate false, while a sleeping one may have it true only as
long as somebody has yet to notify. The hypothesis is needed: over TCP, a waiter that
missed the notification of `close()` (section 5, `CloseWakesWaiters`) still sleeps when the
next `open()` sets the flag again, and TLC finds `NoMissedListChange` violated with
`ReopensClosed = TRUE`. Opening a *running* server again is covered.

### Broadcast write: `BroadcastWrite_proofs`

| Theorem | Statement |
|---|---|
| `WriteLeavesServer` | `WSpec => Spec`: all theorems above hold while `write()` runs |
| `WriteInvariant` | `WSpec => [](TypeInv /\ Ownership /\ WriteInv)` |
| `WriteTypeCorrect` | `WSpec => []WTypeOK` |
| `WrittenIsReceived` | `WSpec => []WrittenReceived` |
| `DeliveryInTurn` | `WSpec => DeliveredInTurn` |
| `WriteMakesProgress` | `WSpec => WriteProgress` |

The difficulty is the window between the load of `_socket` and `send()`, in which the
descriptor may be closed and given to somebody else. `MeanwhileSockets` sums up what any
other thread can do in it: an accepted client keeps its number and can only lose its
socket, and a descriptor that changes hands goes to nobody, to the listening socket, or to a client
accepted just now. With `SeenAccepted` (who is in the snapshot was accepted before) this
gives `Aimed`: the loaded descriptor leads to the client of the turn or to somebody
outside the snapshot who has received nothing. `Amounts` then relates what was received to
`written_size`, and `TurnShape` ties the client of the turn to what is left of the
snapshot. Progress is a measure in the natural numbers (`WorkLeft`): clients left, then
bytes and retries left, then the position in an attempt. `FiniteLists` makes the first
of them a number.

### The request server: `RequestServer_proofs`

| Theorem | Statement |
|---|---|
| `RequestInvariant` | `Spec => []ServerInv` |
| `RequestTypeCorrect` | `Spec => []TypeOK` |
| `ContextsAreLive` | `Spec => []EventContextsLive` |
| `InterestIsRight` | `Spec => []InterestMatchesState` |
| `PoolIsConserved` | `Spec => []PoolConservation` |

Assumptions: `SlotsAssumption` (the pool's objects are distinct, and none of them, nor a
peer, is the server or the null value), `SizesAssumption` (a header and a send buffer are
not empty), `RequestsAssumption`.

The properties depend on each other: an event finds its connection alive because the
pollfd it came from was registered with that connection's object, the object is not in
the pool because the connection has it, and nobody else has it because the pool gave it out
once. `ServerInv` has, besides the type:

* `Lifecycle`: when there is a thread, and when it has events left;
* `Buffers`: what a connection holds (`Sound`) is less than the whole of what it is
  waiting for, and of a response there is something only while it is being written;
* `InStep`: the listener's two vectors correspond, each pollfd having the descriptor and the interest
  its connection's state calls for, no context twice;
* `Batch`: every event still to be dispatched names a registered connection in the state
  the event is for, and no two events the same one. This is what makes it safe that a handler
  releases its object in the middle of a batch;
* `Pool`: the free objects and the used ones partition the pool, and two used ones belong
  to two connections;
* `Exhausted`: a null from `acquire()` (a crash, since `run()` does not test it) happens only
  with more accepted connections held than the pool has objects. It follows from
  `Pool` by an injection of the objects into the connections held.

One part depends on usage, as the code does: after a second `open()` a connection left over from
before has no entry in the new `run()`'s listener, so completeness of the polling set is
claimed for the first `open()` only, in the invariant as in the property.

### It implements the service: `RequestService_proofs`

| Theorem | Hypothesis | Statement |
|---|---|---|
| `FramingInvariant` | | `Spec => [](ServerInv /\ FrameInv)` |
| `ResponsesAreExact` | | `Spec => []ResponsesExact` |
| `NoneIsSkipped` | no request is `SLOW` | `Spec => []NoRequestSkipped` |
| `ServerImplementsService` | | `Spec => RefinesService` |

A peer's stream is cut into pieces by the network, by the state machine (header, then as
many units as the header announces) and by the send buffer. `FrameInv` says of every
connection in use that nothing is lost between these cuts. There is a number `n` of requests
such that the handler was called for exactly the first `n` (those that are not `SLOW`), and
the units of these `n` requests, followed by what the buffers hold of the next one
(`Partial`) and by what is still to be read, are what the peer has sent. While a payload is being read the header
is complete and the size and mode in the connection are the ones it announced. And what was
written, followed by what is left of the response, is the responses to the calls so far.

The step that matters is the reading of a complete header or payload: that the units in the
buffers *are* the next request, and not a part of it and a part of another, follows because the
stream of `n` requests and what comes after agree with the stream of `n + 1` requests in a
prefix as long as both (`HeaderFound`, `RequestFound`). What `FlattenSeq` does to a
sequence with one more element (`FlattenAppend`) is proved from its definition, a function
chosen to satisfy a recursive equation; that such a function exists is proved by
induction over a *set* of numbers (`SetInduction`), which the provers can instantiate, where
the library's induction theorem with its operator parameter is out of their reach.

The refinement then needs no invariant of its own: each dispatch of `run()` is a step of the
service for one peer or leaves it alone. A `SLOW` request is consumed without a call of the handler
(section 5); the service describes that, so `ServerImplementsService` needs no hypothesis,
and `NoRequestSkipped`, which says the opposite, does.

### The client: `SocketClient_proofs`

| Theorem | Hypothesis | Statement |
|---|---|---|
| `ClientInvariant` | | `Spec => []ClientInv` |
| `ClientTypeCorrect` | | `Spec => []TypeOK` |
| `ConnectIsHonest` | | `Spec => ConnectVerdict` |
| `ReasonsAreReal` | | `Spec => RefusalNamed` |
| `ClientAdvances` | | `Spec => ClientProgress` |
| `UnblockedAccounting` | | `Spec => [](blocks = 0 => WriteAccounting)` |
| `BlockingFreeAccounting` | `MaxBlocks = 0` | `Spec => []WriteAccounting` |
| `BlockingFreeWriteExact` | `MaxBlocks = 0` | `Spec => WriteExact` |

`RangeIsChoice`, `VersionAgreed` and `SuiteAgreed` say that the range and the strings
handed to the TLS library lead to a version and a suite in common exactly if the
application's lists and the server have one. `ClientInv` then ties the position in an
operation to the link (`Positions`), the retry counter to the codes met so far
(`Counting`), the records on their way to the server's progress (`Queued`), and an alert to
the reason the server had for it and to what the client can still read before it (`Alerted`). The last is what
rules out that a refusal sent after a TLS 1.3 handshake is reported under another name, or
as success unless data of the server stand in front of it (`AlertsBehindData`). The hypothesis `MaxBlocks = 0` (no send blocks after POLLOUT was reported) is
needed: `client_would_block` is the counterexample without it. `UnblockedAccounting` is
what remains true in general, up to the first send that blocks.

`ClientAdvances` is about the loops. `Stage` counts the three loops of `connect()` down.
Within a loop `ToGo` adds the turns that `max_retries` leaves, in `write()` the bytes left and
the sends that may still block, and in the handshake and the probe `Events`: what the server
can still send, weighed so that a record that arrives lowers the sum even though it is then in
the queue. A turn in which something has arrived takes a record or meets the end of the
connection; one in which nothing has arrived must count. `Quiet` tells the two apart, and the
handshake's turn with `Quiet` true is the one that does not count: `Spins`, the exception in
the property, and the loop of `client_silent_server`. In every other state the measure falls
with every step of the calling thread and no step of the server raises it.

### Only model-checked

* Everything under fairness (`broadcast_liveness`, `request_liveness`):
  the prover has no reasoning about fairness and ENABLED.
* The properties of the runs that end in a violation, which are false for their instances. Where the
  same property holds under a hypothesis, a theorem above states it
  (`MonitorPointersLive`, `EveryActivePolled`, `WriteAccounting`).

## 7. Plan

Done: the listener, both servers and their abstract specifications, the client with its
TLS configuration, and the proofs above. What could follow is growth of the model where the
code has more: a second application thread writing at the same time, and `close()`
concurrent with `write()`.

## 8. Not modelled

* Windows listeners (`SocketEvent_Windows.cpp`): the same structure over `WSAPoll`, whose
  reported flags would need their own model of the kernel.
* `SocketConnection`'s worker thread (`startWorker`, `stopWorker`, `addTask`): never started
  by the library.
* TLS servers: `TLSPassiveSocket` and `TLSServerActiveSocket` throw "Not Implemented".
* `SocketContainer`, but for its choice of the class: storage; a shallow copy of a socket is
  the same descriptor.
* `SocketHelper`: socket options. Their effect (non-blocking servers, time-outs of the
  client) is built into the modelled calls.
* `SocketTLSServerConfiguration`: stored by the servers, never used.
* The text of addresses, cipher names, certificate paths and passwords, messages of
  `SocketResult`, and what `trackTLSInfo` prints.
* The facade forwards every call to an Impl object without a test of its own. Demos (two
  under `src/prj/`, with a packaged copy of an older header), build files and
  tests are used as documentation.
* Memory-model effects: `_handler` and `_socket` are plain variables that `close()` and
  `open()` write while other threads may read them. The models take such reads and writes
  as atomic steps.
