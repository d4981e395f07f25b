--------------------------- MODULE BroadcastServer ---------------------------
(***************************************************************************)
(* SocketBroadcastServerImpl (SocketBroadcastServer.hpp/.cpp): a server    *)
(* whose monitor thread accepts clients and notices their disconnection    *)
(* through one SocketMultiEventListener, while application threads call    *)
(* open, close, dropAll, await and awaitClose on the same object.          *)
(*                                                                         *)
(* A client stands for one TCP connection and for the BroadcastClient      *)
(* object made for it; it connects at most once.  The kernel's descriptor  *)
(* table is part of the model because descriptors are reused: a closed     *)
(* descriptor may be handed to the next accepted connection while other    *)
(* code still holds the old number.                                        *)
(*                                                                         *)
(* One step is one critical section of _clients_mtx or of the listener's   *)
(* mutex, or one system call or notification, together with the callback   *)
(* that follows it (callbacks write nothing but the history variables).    *)
(* A section of _clients_mtx that contains a step of another kind          *)
(* (dropAll's loop, the gap between a wait's predicate and its sleep)      *)
(* holds the variable mtx meanwhile.                                       *)
(***************************************************************************)
EXTENDS Naturals, Sequences, SocketEvent

CONSTANTS
  Clients,       \* connections that peers may make
  Fds,           \* descriptors the process may hold for this server
  Threads,       \* application threads
  Server,        \* the accept context &_server_context, owner of listening fds
  None,          \* null pointer, closed descriptor, free mutex
  Calls,         \* the <<thread, operation>> pairs the application makes
  MaxOpens,      \* bound on the calls of open()
  ReopensClosed, \* does the owner open a server again that it has closed?
  UnixDomain,    \* _configuration.is_unix_domain(), as against TCP
  WaitsTimeOut,  \* may the timeout of await/awaitClose expire?
  PollFails,     \* may poll() fail (EINTR, ENOMEM)?
  Handlers       \* what open() is given: a handler (TRUE) or nullptr (FALSE)

Operations == {"open", "close", "dropAll", "await", "awaitClose"}

ASSUME NullAssumption ==
  /\ None \notin Clients \cup Fds \cup Threads \cup {Server}
  /\ Server \notin Clients
ASSUME CallsAssumption == Calls \subseteq Threads \X Operations

\* One thread owns the server: it alone calls open() and close().  Neither is
\* written to run concurrently with itself or with the other.
IsOwner(t) == \E o \in {"open", "close"} : <<t, o>> \in Calls
ASSUME OwnerAssumption == \A t, u \in Threads : IsOwner(t) /\ IsOwner(u) => t = u

ASSUME BoundsAssumption == MaxOpens \in Nat
ASSUME SwitchAssumption ==
  {ReopensClosed, UnixDomain, WaitsTimeOut, PollFails} \cup Handlers \subseteq BOOLEAN

VARIABLES
  \* the server object
  active,        \* _active_clients (its order is never observed)
  pending,       \* _pending_destruction
  listener,      \* _listener
  serverFd,      \* _server_context.fd
  passive,       \* descriptor of *_socket, None when _socket is null or invalid
  handler,       \* is _handler non-null?
  isMonitoring,  \* _is_monitoring
  \* the monitor thread
  mpc,           \* its position in monitorClient()
  snap,          \* the copies of the two vectors made by wait()
  evs,           \* events of the current batch still to be dispatched
  cur,           \* the client the current event is about
  owned,         \* does a local shared_ptr (client, erased) hold cur?
  \* the application threads
  mtx,           \* holder of _clients_mtx
  pc,            \* position in the operation, "idle" outside
  op,            \* which wait is in progress
  mine,          \* dropAll's local vector: strong references
  todo,          \* the part of it its current loop has not reached
  ret,           \* result of the last await/awaitClose
  \* the BroadcastClient objects
  fd,            \* SocketEventContext::fd, set at accept, never reset
  sock,          \* the descriptor in the container, None after close()
  \* the kernel
  owner,         \* who holds a descriptor, None when it is free
  listening,     \* descriptors on which listen() succeeded
  peer,          \* the remote end of each connection
  \* history
  connected,     \* clients for which onClientConnected ran
  disconnected,  \* number of onClientDisconnected calls per client
  opens          \* number of open() calls

objVars  == <<active, pending, listener, serverFd, passive, handler, isMonitoring>>
monVars  == <<mpc, snap, evs, cur, owned>>
apiVars  == <<mtx, pc, op, mine, todo, ret>>
cliVars  == <<fd, sock>>
kernVars == <<owner, listening, peer>>
histVars == <<connected, disconnected, opens>>
vars == <<objVars, monVars, apiVars, cliVars, kernVars, histVars>>

------------------------------------------------------------------------------
(* Types *)

Contexts == Clients \cup {Server}
NoSnap   == [handle |-> <<>>, contexts |-> <<>>]
NoResult == [code |-> "NONE", clients |-> {}]

HandleType == Seq([fd : Fds, events : Interests])
ListenerType == [handle : HandleType, contexts : Seq(Contexts),
                 serverSocket : Fds \cup {None}]
EventTypes == {"NONE", "ACCEPT", "READ", "WRITE", "DISCONNECTED"}
Codes      == {"NONE", "SUCCESS", "SOCKET_TIMEOUT", "SOCKET_CLOSED"}

MonitorStates == {"none", "top", "clear", "wait", "poll", "dispatch", "push",
                  "announce", "erase", "finish", "exited"}
ThreadStates  == {"idle", "opened", "notify", "join", "clear", "shut",
                  "remove", "dropnotify", "dropclose",
                  "blocking", "asleep", "notified", "expired", "recheck"}

\* Every variable stays in its range: the lists hold clients, the vectors hold
\* descriptors with masks, and every thread is at a known place in its code.
TypeOK ==
  /\ active \subseteq Clients /\ pending \subseteq Clients
  /\ listener \in ListenerType
  /\ serverFd \in Fds \cup {None} /\ passive \in Fds \cup {None}
  /\ handler \in BOOLEAN /\ isMonitoring \in BOOLEAN
  /\ mpc \in MonitorStates
  /\ snap \in [handle : HandleType, contexts : Seq(Contexts)]
  /\ evs \in Seq([type : EventTypes, ctx : Contexts \cup {None}])
  /\ cur \in Clients \cup {None} /\ owned \in BOOLEAN
  /\ mtx \in Threads \cup {None}
  /\ pc \in [Threads -> ThreadStates]
  /\ op \in [Threads -> {"none", "await", "awaitClose"}]
  /\ mine \in [Threads -> SUBSET Clients]
  /\ todo \in [Threads -> SUBSET Clients]
  /\ ret \in [Threads -> [code : Codes, clients : SUBSET Clients]]
  /\ fd \in [Clients -> Fds \cup {None}]
  /\ sock \in [Clients -> Fds \cup {None}]
  /\ owner \in [Fds -> Clients \cup {Server, None}]
  /\ listening \subseteq Fds
  /\ peer \in [Clients -> {"none", "up", "fin", "reset", "refused"}]
  /\ connected \subseteq Clients
  /\ disconnected \in [Clients -> Nat]
  /\ opens \in Nat

Init ==
  /\ active = {} /\ pending = {}
  /\ listener = NewListener(None)
  /\ serverFd = None /\ passive = None
  /\ handler = FALSE /\ isMonitoring = FALSE
  /\ mpc = "none" /\ snap = NoSnap /\ evs = <<>> /\ cur = None /\ owned = FALSE
  /\ mtx = None
  /\ pc = [t \in Threads |-> "idle"]
  /\ op = [t \in Threads |-> "none"]
  /\ mine = [t \in Threads |-> {}]
  /\ todo = [t \in Threads |-> {}]
  /\ ret = [t \in Threads |-> NoResult]
  /\ fd = [c \in Clients |-> None]
  /\ sock = [c \in Clients |-> None]
  /\ owner = [f \in Fds |-> None]
  /\ listening = {}
  /\ peer = [c \in Clients |-> "none"]
  /\ connected = {}
  /\ disconnected = [c \in Clients |-> 0]
  /\ opens = 0

------------------------------------------------------------------------------
(* Helpers *)

\* context->fd
FdOf == [c \in Contexts |-> IF c = Server THEN serverFd ELSE fd[c]]

FreeFds == {f \in Fds : owner[f] = None}

\* Connections waiting in the accept queue.
Queued == {c \in Clients : peer[c] \in {"up", "fin", "reset"} /\ fd[c] = None}

\* Mutant: the object forgets to forget its descriptor (no _socket = -1).
CloseSocketsKeepsNumber(S) ==
  /\ owner' = [f \in Fds |-> IF \E c \in S : sock[c] = f THEN None ELSE owner[f]]
  /\ UNCHANGED sock

\* ServerActiveSocket::close() on the sockets of S: the descriptor each holds
\* becomes free and the object remembers -1.
CloseSockets(S) ==
  /\ owner' = [f \in Fds |-> IF \E c \in S : sock[c] = f THEN None ELSE owner[f]]
  /\ sock' = [c \in Clients |-> IF c \in S THEN None ELSE sock[c]]

\* _clients_cv.notify_all(): every sleeping waiter will take the mutex again.
Woken == [t \in Threads |-> IF pc[t] = "asleep" THEN "notified" ELSE pc[t]]

\* The handler callbacks, skipped when _handler is null.
OnConnected(c) == connected' = IF handler THEN connected \cup {c} ELSE connected
OnDisconnected(c) ==
  disconnected' = IF handler THEN [disconnected EXCEPT ![c] = @ + 1] ELSE disconnected

\* The revents poll() reports for a pollfd, from what its descriptor is NOW.  The
\* end of a peer's stream is POLLHUP on a unix-domain socket, not with TCP.
\* POLLOUT is only reported to those who asked for it; nobody here does.
Revents(h) ==
  LET o == owner[h.fd] IN
  CASE o = None    -> {"NVAL"}
    [] o = Server  -> IF h.fd \notin listening THEN {"HUP"}
                      ELSE IF Queued # {} THEN {"IN"} ELSE {}
    [] OTHER       -> CASE peer[o] = "fin"   -> IF UnixDomain THEN {"IN", "HUP"} ELSE {"IN"}
                        [] peer[o] = "reset" -> {"IN", "ERR", "HUP"}
                        [] OTHER             -> {}

------------------------------------------------------------------------------
(* open() *)

\* PassiveSocket::PassiveSocket: _socket is the descriptor socket() returned.
CreatePassive(f) == passive' = f /\ owner' = [owner EXCEPT ![f] = Server]

\* PassiveSocket::bind.  Another socket of the server that listens on the address
\* makes it fail, and so does the file an earlier bind() left behind, which
\* nobody unlinks.
BindSucceeds == listening = {} /\ (UnixDomain => serverFd = None)

\* socket(), bind() and listen().  Nothing checks for an earlier open():
\* _container is overwritten first.  When bind() fails open() returns with the
\* new, unbound socket in _socket.
OpenSocket(t) ==
  /\ pc[t] = "idle" /\ <<t, "open">> \in Calls
  /\ opens < MaxOpens /\ opens' = opens + 1
  /\ opens > 0 /\ ~isMonitoring => ReopensClosed
  /\ \/ /\ FreeFds = {}
        /\ passive' = None
        /\ UNCHANGED <<owner, listening, pc>>
     \/ \E f \in FreeFds :
          /\ CreatePassive(f)
          /\ listening' = IF BindSucceeds THEN {f} ELSE listening
          /\ pc' = IF BindSucceeds THEN [pc EXCEPT ![t] = "opened"] ELSE pc
  /\ UNCHANGED <<active, pending, listener, serverFd, handler, isMonitoring>>
  /\ UNCHANGED <<monVars, mtx, op, mine, todo, ret, cliVars, peer, connected, disconnected>>

\* The handler, which may be null, the accept context, and the monitor thread
\* unless one runs.
OpenStart(t) ==
  /\ pc[t] = "opened" /\ pc' = [pc EXCEPT ![t] = "idle"]
  /\ handler' \in Handlers
  /\ serverFd' = passive
  /\ listener' = AddEvent(listener, Server, passive, "ACCEPT")
  /\ isMonitoring' = TRUE
  /\ mpc' = IF isMonitoring THEN mpc ELSE "top"
  /\ UNCHANGED <<active, pending, passive, snap, evs, cur, owned>>
  /\ UNCHANGED <<mtx, op, mine, todo, ret, cliVars, kernVars, histVars>>

------------------------------------------------------------------------------
(* monitorClient(), run by the monitor thread *)

MonitorCheck ==
  /\ mpc = "top" /\ mpc' = IF isMonitoring THEN "clear" ELSE "exited"
  /\ UNCHANGED <<objVars, snap, evs, cur, owned, apiVars, cliVars, kernVars, histVars>>

MonitorClear ==
  /\ mpc = "clear" /\ mtx = None
  /\ pending' = {}
  /\ mpc' = "wait"
  /\ UNCHANGED <<active, listener, serverFd, passive, handler, isMonitoring>>
  /\ UNCHANGED <<snap, evs, cur, owned, apiVars, cliVars, kernVars, histVars>>

\* SocketMultiEventListener::wait copies both vectors under its mutex.
MonitorSnapshot ==
  /\ mpc = "wait" /\ mpc' = "poll"
  /\ snap' = [handle |-> listener.handle, contexts |-> listener.contexts]
  /\ UNCHANGED <<objVars, evs, cur, owned, apiVars, cliVars, kernVars, histVars>>

\* Mutant: a timeout polls again without going through the test of the flag.
MonitorPollRetries ==
  LET revents == [i \in DOMAIN snap.handle |-> Revents(snap.handle[i])]
      list == Events(snap.handle, snap.contexts, FdOf, revents, listener.serverSocket, None)
      idle == \A i \in DOMAIN list : list[i].type = "NONE"
  IN  /\ mpc = "poll"
      /\ evs' = IF idle THEN <<>> ELSE list
      /\ mpc' = IF idle THEN "wait" ELSE "dispatch"
      /\ snap' = NoSnap
      /\ UNCHANGED <<objVars, cur, owned, apiVars, cliVars, kernVars, histVars>>

\* poll() on the copies, and the event list.  Without events poll() times
\* out and the loop continues at its top.
MonitorPoll ==
  LET revents == [i \in DOMAIN snap.handle |-> Revents(snap.handle[i])]
      list == Events(snap.handle, snap.contexts, FdOf, revents, listener.serverSocket, None)
      idle == \A i \in DOMAIN list : list[i].type = "NONE"
  IN  /\ mpc = "poll"
      /\ evs' = IF idle THEN <<>> ELSE list
      /\ mpc' = IF idle THEN "top" ELSE "dispatch"
      /\ snap' = NoSnap
      /\ UNCHANGED <<objVars, cur, owned, apiVars, cliVars, kernVars, histVars>>

\* poll() returns -1: the thread leaves its loop, _is_monitoring stays true.
MonitorPollFails ==
  /\ mpc = "poll" /\ PollFails
  /\ mpc' = "exited" /\ snap' = NoSnap
  /\ UNCHANGED <<objVars, evs, cur, owned, apiVars, cliVars, kernVars, histVars>>

Dispatching(type) == mpc = "dispatch" /\ evs # <<>> /\ Head(evs).type = type

\* PassiveSocket::accept and ServerActiveSocket::ServerActiveSocket: a queued
\* connection gets a descriptor, which the new socket object remembers.
AcceptClient(c, f) ==
  /\ owner' = [owner EXCEPT ![f] = c]
  /\ sock' = [sock EXCEPT ![c] = f]

\* Mutant: the accepted client is never registered with the listener.
MonitorAcceptUnregistered ==
  /\ Dispatching("ACCEPT")
  /\ passive \in listening
  /\ \E c \in Queued, f \in FreeFds :
       /\ AcceptClient(c, f)
       /\ fd' = [fd EXCEPT ![c] = f]
       /\ cur' = c /\ owned' = TRUE
  /\ mpc' = "push" /\ evs' = Tail(evs)
  /\ UNCHANGED <<objVars, snap, apiVars, listening, peer, histVars>>

\* case ACCEPT: accept(), the BroadcastClient and its READ registration.
MonitorAccept ==
  /\ Dispatching("ACCEPT")
  /\ passive \in listening
  /\ \E c \in Queued, f \in FreeFds :
       /\ AcceptClient(c, f)
       /\ fd' = [fd EXCEPT ![c] = f]
       /\ listener' = AddEvent(listener, c, f, "READ")
       /\ cur' = c /\ owned' = TRUE
  /\ mpc' = "push" /\ evs' = Tail(evs)
  /\ UNCHANGED <<active, pending, serverFd, passive, handler, isMonitoring, snap>>
  /\ UNCHANGED <<apiVars, listening, peer, histVars>>

\* accept() fails (no connection, no descriptor, not a listening socket):
\* the break leaves the switch and the event is over.
MonitorAcceptFails ==
  /\ Dispatching("ACCEPT")
  /\ passive \notin listening \/ Queued = {} \/ FreeFds = {}
  /\ evs' = Tail(evs)
  /\ UNCHANGED <<objVars, mpc, snap, cur, owned, apiVars, cliVars, kernVars, histVars>>

\* Mutant: neither notify_all nor the callback follows.
MonitorPushSilent ==
  /\ mpc = "push" /\ mtx = None
  /\ active' = active \cup {cur}
  /\ owned' = FALSE /\ cur' = None
  /\ mpc' = "dispatch"
  /\ UNCHANGED <<pending, listener, serverFd, passive, handler, isMonitoring>>
  /\ UNCHANGED <<snap, evs, apiVars, cliVars, kernVars, histVars>>

MonitorPush ==
  /\ mpc = "push" /\ mtx = None
  /\ active' = active \cup {cur}
  /\ owned' = FALSE
  /\ mpc' = "announce"
  /\ UNCHANGED <<pending, listener, serverFd, passive, handler, isMonitoring>>
  /\ UNCHANGED <<snap, evs, cur, apiVars, cliVars, kernVars, histVars>>

\* Mutant: the callback is missing.
MonitorAnnounceNoCallback ==
  /\ mpc = "announce"
  /\ pc' = Woken
  /\ mpc' = "dispatch" /\ cur' = None
  /\ UNCHANGED <<objVars, snap, evs, owned>>
  /\ UNCHANGED <<mtx, op, mine, todo, ret, cliVars, kernVars, histVars>>

\* notify_all and onClientConnected.
MonitorAnnounce ==
  /\ mpc = "announce"
  /\ pc' = Woken
  /\ OnConnected(cur)
  /\ mpc' = "dispatch" /\ cur' = None
  /\ UNCHANGED <<objVars, snap, evs, owned>>
  /\ UNCHANGED <<mtx, op, mine, todo, ret, cliVars, kernVars, disconnected, opens>>

\* case DISCONNECTED: the context is taken for a BroadcastClient.  (Where it
\* is null or the accept context the code's behaviour is undefined, and the
\* monitor of the model stops; MonitorPointersLive excludes the case.)
MonitorRemove ==
  /\ Dispatching("DISCONNECTED") /\ Head(evs).ctx \in Clients
  /\ LET c == Head(evs).ctx
     IN  /\ listener' = RemoveEvent(listener, c, fd[c])
         /\ cur' = c
  /\ mpc' = "erase" /\ evs' = Tail(evs)
  /\ UNCHANGED <<active, pending, serverFd, passive, handler, isMonitoring>>
  /\ UNCHANGED <<snap, owned, apiVars, cliVars, kernVars, histVars>>

\* Mutant: the result of find_if is not looked at.
MonitorEraseUnchecked ==
  /\ mpc = "erase" /\ mtx = None
  /\ owned' = TRUE
  /\ active' = active \ {cur}
  /\ mpc' = "finish"
  /\ UNCHANGED <<pending, listener, serverFd, passive, handler, isMonitoring>>
  /\ UNCHANGED <<snap, evs, cur, apiVars, cliVars, kernVars, histVars>>

\* find_if and erase under the mutex; erased keeps the client alive.
MonitorErase ==
  /\ mpc = "erase" /\ mtx = None
  /\ owned' = (cur \in active)
  /\ active' = active \ {cur}
  /\ mpc' = "finish"
  /\ UNCHANGED <<pending, listener, serverFd, passive, handler, isMonitoring>>
  /\ UNCHANGED <<snap, evs, cur, apiVars, cliVars, kernVars, histVars>>

\* Mutant: the erased client is reported and its socket is left open.
MonitorFinishReportsOnly ==
  /\ mpc = "finish"
  /\ IF owned THEN OnDisconnected(cur) ELSE UNCHANGED disconnected
  /\ pc' = Woken
  /\ mpc' = "dispatch" /\ cur' = None /\ owned' = FALSE
  /\ UNCHANGED <<objVars, snap, evs, mtx, op, mine, todo, ret>>
  /\ UNCHANGED <<cliVars, kernVars, connected, opens>>

\* close() and onClientDisconnected if this thread erased it; notify_all.
MonitorFinish ==
  /\ mpc = "finish"
  /\ IF owned THEN CloseSockets({cur}) /\ OnDisconnected(cur)
              ELSE UNCHANGED <<owner, sock, disconnected>>
  /\ pc' = Woken
  /\ mpc' = "dispatch" /\ cur' = None /\ owned' = FALSE
  /\ UNCHANGED <<objVars, snap, evs, mtx, op, mine, todo, ret>>
  /\ UNCHANGED <<fd, listening, peer, connected, opens>>

\* default: READ is ignored (nobody reads from a broadcast client).
MonitorSkip ==
  /\ mpc = "dispatch" /\ evs # <<>>
  /\ Head(evs).type \notin {"ACCEPT", "DISCONNECTED"}
  /\ evs' = Tail(evs)
  /\ UNCHANGED <<objVars, mpc, snap, cur, owned, apiVars, cliVars, kernVars, histVars>>

MonitorEndBatch ==
  /\ mpc = "dispatch" /\ evs = <<>>
  /\ mpc' = "top"
  /\ UNCHANGED <<objVars, snap, evs, cur, owned, apiVars, cliVars, kernVars, histVars>>

------------------------------------------------------------------------------
(* dropAll() *)

\* Mutant: the list is copied, not swapped out.
DropSwapCopies(t) ==
  /\ pc[t] = "idle" /\ <<t, "dropAll">> \in Calls
  /\ mtx = None /\ mtx' = t
  /\ mine' = [mine EXCEPT ![t] = active]
  /\ todo' = [todo EXCEPT ![t] = active]
  /\ pc' = [pc EXCEPT ![t] = "remove"]
  /\ UNCHANGED <<objVars, monVars, op, ret, cliVars, kernVars, histVars>>

DropSwap(t) ==
  /\ pc[t] = "idle" /\ <<t, "dropAll">> \in Calls
  /\ mtx = None /\ mtx' = t
  /\ mine' = [mine EXCEPT ![t] = active]
  /\ todo' = [todo EXCEPT ![t] = active]
  /\ active' = {}
  /\ pc' = [pc EXCEPT ![t] = "remove"]
  /\ UNCHANGED <<pending, listener, serverFd, passive, handler, isMonitoring>>
  /\ UNCHANGED <<monVars, op, ret, cliVars, kernVars, histVars>>

DropRemove(t) ==
  /\ pc[t] = "remove"
  /\ \E c \in todo[t] :
       /\ listener' = RemoveEvent(listener, c, fd[c])
       /\ todo' = [todo EXCEPT ![t] = @ \ {c}]
  /\ UNCHANGED <<active, pending, serverFd, passive, handler, isMonitoring>>
  /\ UNCHANGED <<monVars, mtx, pc, op, mine, ret, cliVars, kernVars, histVars>>

\* Mutant: the references are not handed over and die with dropAll().
DropHandoffNothing(t) ==
  /\ pc[t] = "remove" /\ todo[t] = {}
  /\ mtx' = None
  /\ pc' = [pc EXCEPT ![t] = "dropnotify"]
  /\ UNCHANGED <<objVars, monVars, op, mine, todo, ret, cliVars, kernVars, histVars>>

\* The strong references go to _pending_destruction; the mutex is released.
DropHandoff(t) ==
  /\ pc[t] = "remove" /\ todo[t] = {}
  /\ pending' = pending \cup mine[t]
  /\ mtx' = None
  /\ pc' = [pc EXCEPT ![t] = "dropnotify"]
  /\ UNCHANGED <<active, listener, serverFd, passive, handler, isMonitoring>>
  /\ UNCHANGED <<monVars, op, mine, todo, ret, cliVars, kernVars, histVars>>

DropNotify(t) ==
  /\ pc[t] = "dropnotify"
  /\ pc' = [Woken EXCEPT ![t] = "dropclose"]
  /\ todo' = [todo EXCEPT ![t] = mine[t]]
  /\ UNCHANGED <<objVars, monVars, mtx, op, mine, ret, cliVars, kernVars, histVars>>

\* One turn of the last loop: close() and onClientDisconnected.
DropClose(t) ==
  /\ pc[t] = "dropclose"
  /\ \E c \in todo[t] :
       /\ CloseSockets({c})
       /\ OnDisconnected(c)
       /\ todo' = [todo EXCEPT ![t] = @ \ {c}]
  /\ UNCHANGED <<objVars, monVars, mtx, pc, op, mine, ret>>
  /\ UNCHANGED <<fd, listening, peer, connected, opens>>

DropReturn(t) ==
  /\ pc[t] = "dropclose" /\ todo[t] = {}
  /\ mine' = [mine EXCEPT ![t] = {}]
  /\ pc' = [pc EXCEPT ![t] = "idle"]
  /\ UNCHANGED <<objVars, monVars, mtx, op, todo, ret, cliVars, kernVars, histVars>>

------------------------------------------------------------------------------
(* await() and awaitClose() *)

\* What the wait is for, apart from the end of monitoring.
Reached(o) == IF o = "await" THEN active # {} ELSE active = {}

\* A result and the clients whose number it carries.
Result(code, clients) == [code |-> code, clients |-> clients]

\* Mutant: wait() in a loop of its own, which starts over after a timeout.
WaitEvaluateForever(t, o) ==
  /\ mtx = None
  /\ IF ~Reached(o) /\ isMonitoring
     THEN /\ mtx' = t
          /\ op' = [op EXCEPT ![t] = o]
          /\ pc' = [pc EXCEPT ![t] = "blocking"]
          /\ ret' = [ret EXCEPT ![t] = NoResult]
     ELSE /\ mtx' = mtx
          /\ op' = [op EXCEPT ![t] = "none"]
          /\ pc' = [pc EXCEPT ![t] = "idle"]
          /\ ret' = [ret EXCEPT ![t] = Result("SUCCESS", active)]
  /\ UNCHANGED <<objVars, monVars, mine, todo, cliVars, kernVars, histVars>>

\* One evaluation of the predicate by wait_for with the mutex held.  False:
\* the thread is about to sleep and still holds the mutex.  True, or the time
\* is up: wait_for returns, the code tests _is_monitoring and the list, and
\* the mutex is released.
WaitEvaluate(t, o) ==
  /\ mtx = None
  /\ IF ~Reached(o) /\ isMonitoring /\ pc[t] # "expired"
     THEN /\ mtx' = t
          /\ op' = [op EXCEPT ![t] = o]
          /\ pc' = [pc EXCEPT ![t] = "blocking"]
          /\ ret' = [ret EXCEPT ![t] = NoResult]
     ELSE /\ mtx' = mtx
          /\ op' = [op EXCEPT ![t] = "none"]
          /\ pc' = [pc EXCEPT ![t] =
                      IF isMonitoring /\ Reached(o) /\ o = "await" THEN "recheck" ELSE "idle"]
          /\ ret' = [ret EXCEPT ![t] =
                      CASE ~isMonitoring -> Result("SOCKET_CLOSED", {})
                        [] isMonitoring /\ ~Reached(o) -> Result("SOCKET_TIMEOUT", active)
                        [] isMonitoring /\ Reached(o) /\ o = "awaitClose" -> Result("SUCCESS", {})
                        [] OTHER -> NoResult]
  /\ UNCHANGED <<objVars, monVars, mine, todo, cliVars, kernVars, histVars>>

WaitCall(t, o) ==
  /\ pc[t] = "idle" /\ <<t, o>> \in Calls
  /\ WaitEvaluate(t, o)

\* wait_for releases the mutex and sleeps, in one step.
WaitSleep(t) ==
  /\ pc[t] = "blocking"
  /\ mtx' = None
  /\ pc' = [pc EXCEPT ![t] = "asleep"]
  /\ UNCHANGED <<objVars, monVars, op, mine, todo, ret, cliVars, kernVars, histVars>>

WaitExpire(t) ==
  /\ WaitsTimeOut
  /\ pc[t] = "asleep"
  /\ pc' = [pc EXCEPT ![t] = "expired"]
  /\ UNCHANGED <<objVars, monVars, mtx, op, mine, todo, ret, cliVars, kernVars, histVars>>

WaitWake(t) ==
  /\ pc[t] \in {"notified", "expired"}
  /\ WaitEvaluate(t, op[t])

\* await()'s second critical section: only _is_monitoring is tested again.
AwaitRecheck(t) ==
  /\ pc[t] = "recheck" /\ mtx = None
  /\ ret' = [ret EXCEPT ![t] = IF isMonitoring THEN Result("SUCCESS", active)
                                               ELSE Result("SOCKET_CLOSED", {})]
  /\ pc' = [pc EXCEPT ![t] = "idle"]
  /\ UNCHANGED <<objVars, monVars, mtx, op, mine, todo, cliVars, kernVars, histVars>>

------------------------------------------------------------------------------
(* close() *)

CloseBegin(t) ==
  /\ pc[t] = "idle" /\ <<t, "close">> \in Calls
  /\ isMonitoring' = FALSE
  /\ pc' = [pc EXCEPT ![t] = IF isMonitoring THEN "notify" ELSE "clear"]
  /\ UNCHANGED <<active, pending, listener, serverFd, passive, handler>>
  /\ UNCHANGED <<monVars, mtx, op, mine, todo, ret, cliVars, kernVars, histVars>>

\* notify_all() without the mutex.
CloseNotify(t) ==
  /\ pc[t] = "notify"
  /\ pc' = [Woken EXCEPT ![t] = "join"]
  /\ UNCHANGED <<objVars, monVars, mtx, op, mine, todo, ret, cliVars, kernVars, histVars>>

CloseJoin(t) ==
  /\ pc[t] = "join" /\ mpc = "exited"
  /\ mpc' = "none"
  /\ pc' = [pc EXCEPT ![t] = "clear"]
  /\ UNCHANGED <<objVars, snap, evs, cur, owned, mtx, op, mine, todo, ret>>
  /\ UNCHANGED <<cliVars, kernVars, histVars>>

\* Mutant: the lists are cleared without closing the sockets.
CloseClearOnly(t) ==
  /\ pc[t] = "clear" /\ mtx = None
  /\ active' = {} /\ pending' = {}
  /\ pc' = [pc EXCEPT ![t] = "shut"]
  /\ UNCHANGED <<listener, serverFd, passive, handler, isMonitoring, monVars>>
  /\ UNCHANGED <<mtx, op, mine, todo, ret, cliVars, kernVars, histVars>>

CloseClear(t) ==
  /\ pc[t] = "clear" /\ mtx = None
  /\ CloseSockets(active)
  /\ active' = {} /\ pending' = {}
  /\ pc' = [pc EXCEPT ![t] = "shut"]
  /\ UNCHANGED <<listener, serverFd, passive, handler, isMonitoring, monVars>>
  /\ UNCHANGED <<mtx, op, mine, todo, ret, fd, listening, peer, histVars>>

\* PassiveSocket::close: the connections nobody accepted are reset.
ClosePassive ==
  /\ owner' = [f \in Fds |-> IF f = passive THEN None ELSE owner[f]]
  /\ listening' = listening \ {passive}
  /\ peer' = [c \in Clients |-> IF c \in Queued /\ passive \in listening
                                THEN "refused" ELSE peer[c]]
  /\ passive' = None

\* _listener.close() does nothing.
CloseShut(t) ==
  /\ pc[t] = "shut" /\ pc' = [pc EXCEPT ![t] = "idle"]
  /\ ClosePassive
  /\ handler' = FALSE
  /\ UNCHANGED <<active, pending, listener, serverFd, isMonitoring, monVars>>
  /\ UNCHANGED <<mtx, op, mine, todo, ret, cliVars, histVars>>

------------------------------------------------------------------------------
(* The peers and the network (external) *)

PeerConnect(c) ==
  /\ peer[c] = "none" /\ listening # {}
  /\ peer' = [peer EXCEPT ![c] = "up"]
  /\ UNCHANGED <<objVars, monVars, apiVars, cliVars, owner, listening, histVars>>

\* A FIN or an RST arrives while the server still holds the connection.
PeerHangup(c) ==
  /\ fd[c] # None => sock[c] # None
  /\ \/ peer[c] = "up" /\ peer' = [peer EXCEPT ![c] = "fin"]
     \/ peer[c] \in {"up", "fin"} /\ peer' = [peer EXCEPT ![c] = "reset"]
  /\ UNCHANGED <<objVars, monVars, apiVars, cliVars, owner, listening, histVars>>

------------------------------------------------------------------------------
(* Specification *)

\* A step of an operation already begun; the calls themselves are apart.
ApiStep(t) ==
  \/ OpenStart(t)
  \/ CloseNotify(t) \/ CloseJoin(t) \/ CloseClear(t) \/ CloseShut(t)
  \/ DropRemove(t) \/ DropHandoff(t) \/ DropNotify(t) \/ DropClose(t) \/ DropReturn(t)
  \/ WaitSleep(t) \/ WaitWake(t) \/ AwaitRecheck(t)

ApiCall(t) ==
  \/ OpenSocket(t) \/ CloseBegin(t) \/ DropSwap(t)
  \/ \E o \in {"await", "awaitClose"} : WaitCall(t, o)

MonitorStep ==
  \/ MonitorCheck \/ MonitorClear \/ MonitorSnapshot \/ MonitorPoll
  \/ MonitorAccept \/ MonitorAcceptFails \/ MonitorPush \/ MonitorAnnounce
  \/ MonitorRemove \/ MonitorErase \/ MonitorFinish
  \/ MonitorSkip \/ MonitorEndBatch

Next ==
  \/ MonitorStep \/ MonitorPollFails
  \/ \E t \in Threads : ApiCall(t) \/ ApiStep(t) \/ WaitExpire(t)
  \/ \E c \in Clients : PeerConnect(c) \/ PeerHangup(c)

Spec == Init /\ [][Next]_vars

\* The scheduler runs the monitor thread and every thread inside the library.
\* Time passes: wait_for keeps one deadline however often it is woken before it,
\* and a waiter that calls again and again leaves the mutex free for a whole
\* timeout each time, so that the monitor gets it.  Nobody has to call, to
\* connect or to hang up.
FairSpec ==
  /\ Spec /\ SF_vars(MonitorStep)
  /\ \A t \in Threads : WF_vars(ApiStep(t)) /\ SF_vars(WaitExpire(t))

------------------------------------------------------------------------------
(* Properties *)

\* The BroadcastClient of c still exists: some shared_ptr refers to it.
Alive(c) ==
  \/ c \in active \cup pending
  \/ \E t \in Threads : c \in mine[t]
  \/ owned /\ c = cur

\* Every context pointer the monitor dereferences refers to a live object:
\* the snapshot that wait() searches by fd, the event list it dispatches, and
\* the client it keeps using after removeEvent.  This is what
\* _pending_destruction is for: dropAll() on another thread must not free a
\* client the monitor still has in a local copy.
MonitorPointersLive ==
  /\ \A i \in DOMAIN snap.contexts : snap.contexts[i] = Server \/ Alive(snap.contexts[i])
  /\ \A i \in DOMAIN evs :
       /\ evs[i].type \notin {"NONE", "DISCONNECTED"} => evs[i].ctx = Server \/ Alive(evs[i].ctx)
       /\ evs[i].type = "DISCONNECTED" => Alive(evs[i].ctx)
  /\ mpc = "erase" => Alive(cur)

\* close() of a client socket never closes somebody else's descriptor: what
\* the container holds is still this connection's, although numbers are
\* reused and both the monitor and dropAll() close.
SocketOwnsItsFd == \A c \in Clients : sock[c] # None => owner[sock[c]] = c

\* dropAll() and a stale DISCONNECTED event never report a client twice.
NoDoubleDisconnect == \A c \in Clients : disconnected[c] <= 1

\* The clients whose sockets thread t, inside dropAll(), has yet to close.
Holding(t) ==
  CASE pc[t] \in {"remove", "dropnotify"} -> mine[t]
    [] pc[t] = "dropclose"                -> todo[t]
    [] OTHER                              -> {}

\* The client's socket is still to be closed by someone who holds it.
HasCloser(c) ==
  \/ c \in active
  \/ owned /\ c = cur
  \/ \E t \in Threads : c \in Holding(t)

\* No accepted descriptor is forgotten: as long as the kernel has it open, a
\* list or a running operation will close it.
NoDescriptorLeak ==
  \A f \in Fds : owner[f] \in Clients => sock[owner[f]] = f /\ HasCloser(owner[f])

\* A waiter never sleeps through a change of the client list: when the list
\* already satisfies it while the server runs, the notification is on its way.
NoMissedListChange ==
  \A t \in Threads :
    pc[t] = "asleep" /\ isMonitoring /\ Reached(op[t]) =>
      \/ mpc \in {"announce", "finish"}
      \/ \E u \in Threads : pc[u] \in {"remove", "dropnotify"}

\* Every active client is still in the polling set (or the monitor has just
\* taken it out to disconnect it): otherwise its end is never noticed.
EveryActivePolled ==
  \A c \in active :
    \/ mpc = "erase" /\ cur = c
    \/ /\ \E i \in DOMAIN listener.handle : listener.handle[i].fd = fd[c]
       /\ \E i \in DOMAIN listener.contexts : listener.contexts[i] = c

\* onClientDisconnected is paired with onClientConnected: every client
\* reported as gone was reported as connected, except in the one window where
\* dropAll() takes a client the monitor has pushed but not announced yet, and
\* then the announcement is the monitor's next step, with the same handler.
DisconnectPaired ==
  \A c \in Clients :
    disconnected[c] > 0 => c \in connected \/ (mpc = "announce" /\ cur = c /\ handler)

\* After close() has notified the waiters nobody is left asleep ("so they
\* return SOCKET_CLOSED instead of waiting out their timeout").
CloseWakesWaiters ==
  \A t, u \in Threads : pc[u] \in {"join", "clear", "shut"} => pc[t] # "asleep"

\* A SUCCESS of await() counts at least one client (revision 2.3.2: the
\* re-check returns "the correct result code instead of a stale success").
AwaitSuccessHasClient ==
  [][\A t \in Threads : pc[t] = "recheck" /\ pc'[t] = "idle" /\ ret'[t].code = "SUCCESS"
                          => ret'[t].clients # {}]_vars

\* A client whose peer closed or reset the connection leaves the active list,
\* unless a failure of poll() ended the monitor.
HangupNoticed ==
  \A c \in Clients :
    c \in active /\ peer[c] \in {"fin", "reset"} ~> c \notin active \/ mpc = "exited"

\* await() and awaitClose() return: a waiter that close()'s notification missed,
\* because it had tested the flag and was not asleep yet, or whose clients never
\* change because the monitor has ended, is freed by its timeout.
AwaitReturns ==
  \A t \in Threads : pc[t] \in {"blocking", "asleep", "notified", "expired", "recheck"}
                       ~> pc[t] = "idle"

\* close() returns: the monitor reaches the test of its flag from wherever it
\* is, and neither the join nor the mutex blocks for ever.
CloseTerminates ==
  \A t \in Threads : pc[t] \in {"notify", "join", "clear", "shut"} ~> pc[t] = "idle"

------------------------------------------------------------------------------
(* The inductive invariant behind SocketOwnsItsFd, NoDoubleDisconnect and  *)
(* NoDescriptorLeak: a connection is open exactly as long as one of the    *)
(* active list, the monitor and the threads inside dropAll() has it, and   *)
(* no two of them have the same one.                                       *)

\* Descriptors and open sockets correspond one to one.
Descriptors ==
  /\ \A c \in Clients : sock[c] # None => owner[sock[c]] = c /\ fd[c] # None
  /\ \A f \in Fds : owner[f] \in Clients => sock[owner[f]] = f
  /\ passive # None => owner[passive] = Server

\* An open socket has a closer, and a closer has an open socket.
Closers == \A c \in Clients : HasCloser(c) <=> sock[c] # None

\* There is only one closer.
OneCloser ==
  /\ \A t \in Threads : active \cap Holding(t) = {}
  /\ \A t, u \in Threads : t # u => Holding(t) \cap Holding(u) = {}
  /\ owned => cur \notin active /\ \A t \in Threads : cur \notin Holding(t)

\* A client is reported gone at most once, after its socket was closed.
Reports ==
  \A c \in Clients : disconnected[c] # 0 => disconnected[c] = 1 /\ sock[c] = None /\ fd[c] # None

\* The monitor's shared_ptr lives between accept and push_back and between
\* erase and close(); without the flag the monitor runs only while close()
\* is about to join it.
MonitorLocal ==
  /\ owned => mpc \in {"push", "finish"}
  /\ mpc = "push" => owned
  /\ ~isMonitoring => mpc = "none" \/ \E t \in Threads : pc[t] \in {"notify", "join"}

Ownership == Descriptors /\ Closers /\ OneCloser /\ Reports /\ MonitorLocal

------------------------------------------------------------------------------
(* Refinement: the life of a client, as ClientRegistry describes it. *)

Phase(c) ==
  CASE fd[c] = None                                                -> "absent"
    [] fd[c] # None /\ c \in active                                -> "active"
    [] fd[c] # None /\ c \notin active /\ sock[c] = None           -> "closed"
    [] fd[c] # None /\ c \notin active /\ sock[c] # None           ->
         IF mpc = "push" /\ cur = c THEN "arriving" ELSE "leaving"

Registry == INSTANCE ClientRegistry WITH phase <- [c \in Clients |-> Phase(c)]

\* The server, with all its threads, implements the registry: however the
\* monitor, dropAll() and close() interleave, every client goes once through
\* accept, list, removal and close(), never comes back to the list after an
\* awaitClose() or dropAll() saw it leave, and its callbacks run at most once.
RefinesRegistry == Registry!Spec
==============================================================================
