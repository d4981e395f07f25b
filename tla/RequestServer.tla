---------------------------- MODULE RequestServer ----------------------------
(***************************************************************************)
(* SocketRequestServerImpl (SocketRequestServer.cpp), the SocketConnection *)
(* state machine it drives (SocketConnection.cpp) and the ObjectPool its   *)
(* connections live in (ObjectPool.hpp).                                   *)
(*                                                                         *)
(* One thread, run(), polls, accepts, reads requests piece by piece, calls *)
(* the handler and writes responses piece by piece; the owner opens and    *)
(* closes; peers connect, send, receive and hang up at any time.           *)
(*                                                                         *)
(* A connection stands for its descriptor: this server closes a            *)
(* descriptor and takes it out of the polling set in one step of the only  *)
(* thread that uses them, so reuse of the number is never seen.  A byte    *)
(* is a unit that remembers the connection, the request and the position   *)
(* it was sent at; a request is HeaderSize header units and its payload    *)
(* units.  The handler is trusted to keep payloads and responses within    *)
(* pdu_size.                                                               *)
(***************************************************************************)
EXTENDS Integers, Sequences, FiniteSets, SocketEvent

CONSTANTS
  Clients,       \* connections that peers may make
  Slots,         \* a sequence: the objects of the pool, in construction order
  Server,        \* the accept context, and its descriptor
  None,          \* null pointer
  HeaderSize,    \* handler.getHeaderSize()
  Requests,      \* what every peer sends: a sequence of [mode, payload, response]
  SendBuffer,    \* units the kernel takes before the peer reads some
  MaxOpens,      \* bound on the calls of open()
  UnixDomain,    \* _configuration.is_unix_domain(), as against TCP
  SyscallsFail   \* may poll() and accept() fail?

ASSUME SlotsAssumption ==
  /\ Slots \in Seq(Range(Slots)) /\ IsInjective(Slots)
  /\ {Server, None} \cap (Range(Slots) \cup Clients) = {} /\ Server # None
ASSUME SizesAssumption == HeaderSize \in Nat \ {0} /\ SendBuffer \in Nat \ {0} /\ MaxOpens \in Nat
ASSUME RequestsAssumption ==
  Requests \in Seq([mode : {"FAST", "SLOW", "READ_STREAM", "WRITE_STREAM"},
                    payload : Nat, response : Nat])

VARIABLES
  running,       \* _is_running
  opc,           \* the owner: "idle" or "join"
  opens,         \* number of successful open() calls
  listening,     \* does the listening socket exist?
  rpc,           \* position of the thread in run()
  listener,      \* the local SocketMultiEventListener
  evs,           \* events of the batch still to be dispatched
  conn,          \* the SocketConnection constructed in each slot
  avail,         \* ObjectPool::_availables
  \* the kernel and the peers
  peer,          \* the remote end of each connection
  accepted,      \* connections accept() returned
  inbox,         \* units received and not read yet
  inflight,      \* number of units written that the peer has not read yet
  next,          \* the next unit each peer sends: [req, pos]
  \* history
  processed,     \* the handler's onProcessed/onProcessedWithoutResponse calls
  replied        \* units written to each connection

srvVars  == <<running, opc, opens, listening>>
runVars  == <<rpc, listener, evs, conn, avail>>
peerVars == <<peer, accepted, inbox, inflight, next>>
histVars == <<processed, replied>>
vars == <<srvVars, runVars, peerVars, histVars>>

------------------------------------------------------------------------------
(* Data *)

SlotSet   == Range(Slots)
ReqSize(r) == HeaderSize + Requests[r].payload
Unit(c, r, k) == [client |-> c, req |-> r, pos |-> k]

\* The header and the payload a peer sends for its request r, and the
\* response the handler computes from a header.
HeaderOf(c, r)  == [k \in 1..HeaderSize |-> Unit(c, r, k)]
PayloadOf(c, r) == [k \in 1..Requests[r].payload |-> Unit(c, r, HeaderSize + k)]
ReplyTo(header) ==
  [k \in 1..Requests[header[1].req].response |-> Unit(header[1].client, header[1].req, k)]

\* A SocketConnection as constructed: READING_HEADER, all counters zero.
NewConnection(c) ==
  [client |-> c, state |-> "READING_HEADER", hdr |-> <<>>, pay |-> <<>>,
   need |-> 0, mode |-> "FAST", resp |-> <<>>, out |-> 0]
NoConnection == NewConnection(None)

InUse == {s \in SlotSet : conn[s] # NoConnection}

\* Mutant: the response counter is not reset.
FlushKeepsResponse(k) == [NewConnection(k.client) EXCEPT !.mode = k.mode, !.resp = k.resp]

\* flush(): everything but the mode is reset.
Flush(k) == [NewConnection(k.client) EXCEPT !.mode = k.mode]

Init ==
  /\ running = FALSE /\ opc = "idle" /\ opens = 0 /\ listening = FALSE
  /\ rpc = "none" /\ listener = NewListener(None) /\ evs = <<>>
  /\ conn = [s \in SlotSet |-> NoConnection]
  /\ avail = Slots
  /\ peer = [c \in Clients |-> "none"]
  /\ accepted = {}
  /\ inbox = [c \in Clients |-> <<>>]
  /\ inflight = [c \in Clients |-> 0]
  /\ next = [c \in Clients |-> [req |-> 1, pos |-> 1]]
  /\ processed = [c \in Clients |-> <<>>]
  /\ replied = [c \in Clients |-> <<>>]

------------------------------------------------------------------------------
(* open() and close() *)

\* bind() meets the file an earlier open() left behind, which nobody unlinks.
BindSucceeds == UnixDomain => opens = 0

\* A call on a running server changes nothing.  One whose bind() fails has put a
\* socket that never listens in the place of one that close() had closed: nothing
\* of what is modelled here.  run() starts with a listener of its own that knows
\* the accept context only; connections left over from before stay in the pool.
Open ==
  /\ opc = "idle" /\ ~running /\ opens < MaxOpens /\ BindSucceeds
  /\ running' = TRUE /\ listening' = TRUE /\ opens' = opens + 1
  /\ rpc' = "top"
  /\ listener' = AddEvent(NewListener(None), Server, Server, "ACCEPT")
  /\ UNCHANGED <<opc, evs, conn, avail, peerVars, histVars>>

CloseBegin ==
  /\ opc = "idle" /\ running
  /\ running' = FALSE /\ opc' = "join"
  /\ UNCHANGED <<opens, listening, runVars, peerVars, histVars>>

Queued == {c \in Clients : peer[c] \in {"up", "fin", "reset"} /\ c \notin accepted}

\* join() and the end of the listening socket, which resets the connections
\* in its queue.  Accepted connections are not closed.
CloseJoin ==
  /\ opc = "join" /\ rpc = "exited"
  /\ opc' = "idle" /\ rpc' = "none" /\ listening' = FALSE
  /\ peer' = [c \in Clients |-> IF c \in Queued THEN "refused" ELSE peer[c]]
  /\ UNCHANGED <<running, opens, listener, evs, conn, avail, accepted, inbox, inflight, next, histVars>>

------------------------------------------------------------------------------
(* run(): the poll loop *)

\* context->fd
FdOf == [s \in SlotSet \cup {Server} |-> IF s = Server THEN Server ELSE conn[s].client]

\* What poll() reports for a pollfd.
Revents(h) ==
  LET c == h.fd
  IN  IF c = Server THEN (IF Queued # {} THEN {"IN"} ELSE {})
      ELSE (IF peer[c] = "reset" THEN {"ERR", "HUP"} ELSE {})
           \cup (IF peer[c] = "closed" THEN {"NVAL"} ELSE {})
           \cup (IF peer[c] = "fin" /\ UnixDomain THEN {"HUP"} ELSE {})
           \cup (IF h.events = "READ" /\ (inbox[c] # <<>> \/ peer[c] = "fin") THEN {"IN"} ELSE {})
           \cup (IF h.events = "WRITE" /\ inflight[c] < SendBuffer THEN {"OUT"} ELSE {})

\* Mutant: the loop does not test the flag.
RunCheckIgnoresFlag ==
  /\ rpc = "top" /\ rpc' = "poll"
  /\ UNCHANGED <<srvVars, listener, evs, conn, avail, peerVars, histVars>>

RunCheck ==
  /\ rpc = "top" /\ rpc' = IF running THEN "poll" ELSE "exited"
  /\ UNCHANGED <<srvVars, listener, evs, conn, avail, peerVars, histVars>>

\* The listener belongs to this thread: its copies are what it contains.
RunPoll ==
  LET revents == [i \in DOMAIN listener.handle |-> Revents(listener.handle[i])]
      list == Events(listener.handle, listener.contexts, FdOf, revents, listener.serverSocket, None)
      idle == \A i \in DOMAIN list : list[i].type = "NONE"
  IN  /\ rpc = "poll"
      /\ evs' = IF idle THEN <<>> ELSE list
      /\ rpc' = IF idle THEN "top" ELSE "dispatch"
      /\ UNCHANGED <<srvVars, listener, conn, avail, peerVars, histVars>>

RunPollFails ==
  /\ rpc = "poll" /\ SyscallsFail
  /\ rpc' = "exited"
  /\ UNCHANGED <<srvVars, listener, evs, conn, avail, peerVars, histVars>>

RunEndBatch ==
  /\ rpc = "dispatch" /\ evs = <<>>
  /\ rpc' = "top"
  /\ UNCHANGED <<srvVars, listener, evs, conn, avail, peerVars, histVars>>

Dispatching(type) == rpc = "dispatch" /\ evs # <<>> /\ Head(evs).type = type

\* ObjectPool::acquire: a connection constructed in the first free object.
Acquire(c) ==
  /\ avail # <<>>
  /\ conn' = [conn EXCEPT ![Head(avail)] = NewConnection(c)]
  /\ avail' = Tail(avail)

\* Mutant: the object does not go back into the queue.
ReleaseLoses(s) == conn' = [conn EXCEPT ![s] = NoConnection] /\ UNCHANGED avail

\* ObjectPool::release: the object is destroyed and goes to the end of the queue.
Release(s) ==
  /\ conn' = [conn EXCEPT ![s] = NoConnection]
  /\ avail' = Append(avail, s)

\* case ACCEPT: accept(), acquire(), onClientConnected, and the READ
\* registration.  When the pool is empty acquire() returns null and
\* connectClient() is called on it.
RunAccept ==
  /\ Dispatching("ACCEPT") /\ evs' = Tail(evs)
  /\ \E c \in Queued :
       /\ accepted' = accepted \cup {c}
       /\ \/ /\ Acquire(c)
             /\ listener' = AddEvent(listener, Head(avail), c, "READ")
             /\ rpc' = rpc
          \/ /\ avail = <<>>
             /\ rpc' = "crashed"
             /\ UNCHANGED <<conn, listener, avail>>
  /\ UNCHANGED <<srvVars, peer, inbox, inflight, next, histVars>>

\* accept() fails and the event is over.
RunAcceptFails ==
  /\ Dispatching("ACCEPT") /\ SyscallsFail
  /\ evs' = Tail(evs)
  /\ UNCHANGED <<srvVars, rpc, listener, conn, avail, peerVars, histVars>>

\* SocketConnection::disconnectClient: onClientDisconnected and close().
DisconnectClient(s) == peer' = [peer EXCEPT ![conn[s].client] = "closed"]

\* Mutant: without removeEvent.
RunDisconnectKeepsEvent ==
  /\ Dispatching("DISCONNECTED") /\ evs' = Tail(evs)
  /\ DisconnectClient(Head(evs).ctx) /\ Release(Head(evs).ctx)
  /\ UNCHANGED <<srvVars, rpc, listener, accepted, inbox, inflight, next, histVars>>

\* case DISCONNECTED: disconnectClient(), removeEvent() and release().
RunDisconnect ==
  /\ Dispatching("DISCONNECTED") /\ evs' = Tail(evs)
  /\ LET s == Head(evs).ctx
     IN  /\ DisconnectClient(s)
         /\ listener' = RemoveEvent(listener, s, conn[s].client)
         /\ Release(s)
  /\ UNCHANGED <<srvVars, rpc, accepted, inbox, inflight, next, histVars>>

\* The number of units recv() may take when asked for want: what there is, or
\* none after a reset.  A failed recv() (-1) and the end of the stream (0) both
\* leave the connection as it was.
ReadSizes(c, want) == {Min({want, Len(inbox[c])})} \cup (IF peer[c] = "reset" THEN {0} ELSE {})

\* readHeader(): append, and when the header is complete ask the handler for
\* the payload size and the mode.
ReadHeader(k, units) ==
  LET hdr == k.hdr \o units
  IN  IF Len(hdr) < HeaderSize THEN [k EXCEPT !.hdr = hdr]
      ELSE [k EXCEPT !.hdr = hdr, !.state = "READING_PAYLOAD",
                     !.need = Requests[hdr[1].req].payload,
                     !.mode = Requests[hdr[1].req].mode]

\* readPayload(): append to what was read before.
ReadPayload(k, units) == [k EXCEPT !.pay = @ \o units]

\* Mutant: one unit too early.
CompleteEarly(k) == k.state = "READING_PAYLOAD" /\ Len(k.pay) + 1 >= k.need

\* Is a request complete after the read?  (An empty payload needs no read.)
Complete(k) == k.state = "READING_PAYLOAD" /\ Len(k.pay) = k.need

\* runTask(): the handler's callback and the next state.  SLOW calls nothing
\* and leaves response_size zero; WRITE_STREAM ends in FINISH_PROCESS, which
\* run() answers with flush().
RunTask(k) ==
  CASE k.mode \in {"FAST", "READ_STREAM"} -> [k EXCEPT !.state = "WRITING_RESPONSE", !.resp = ReplyTo(k.hdr)]
    [] k.mode = "SLOW"                    -> [k EXCEPT !.state = "WRITING_RESPONSE"]
    [] k.mode = "WRITE_STREAM"            -> Flush(k)

\* Mutant: only requests with a response reach the handler.
ProcessesFastOnly(k) == k.mode \in {"FAST", "READ_STREAM"}

\* Does runTask() call the handler?
Processes(k) == k.mode # "SLOW"

\* case READ.  (An event that does not fit the state of its connection is
\* ignored by the code; EventContextsLive shows there is none.)
RunRead ==
  /\ Dispatching("READ") /\ evs' = Tail(evs)
  /\ LET s == Head(evs).ctx
         c == conn[s].client
         header == conn[s].state = "READING_HEADER"
         want == IF header THEN HeaderSize - Len(conn[s].hdr)
                           ELSE conn[s].need - Len(conn[s].pay)
     IN  /\ conn[s].state \in {"READING_HEADER", "READING_PAYLOAD"}
         /\ \E n \in ReadSizes(c, want) :
              LET units == SubSeq(inbox[c], 1, n)
                  k == IF header THEN ReadHeader(conn[s], units) ELSE ReadPayload(conn[s], units)
                  after == IF Complete(k) THEN RunTask(k) ELSE k
              IN  /\ inbox' = [inbox EXCEPT ![c] = SubSeq(@, n + 1, Len(@))]
                  /\ processed' = IF Complete(k) /\ Processes(k)
                                  THEN [processed EXCEPT ![c] = Append(@, [hdr |-> k.hdr, pay |-> k.pay])]
                                  ELSE processed
                  /\ conn' = [conn EXCEPT ![s] = after]
                  /\ listener' = IF after.state = "WRITING_RESPONSE"
                                 THEN ModifyEvent(listener, s, c, "WRITE") ELSE listener
  /\ UNCHANGED <<srvVars, rpc, avail, peer, accepted, inflight, next, replied>>

\* The number of units send() takes of what is left of the response: what fits,
\* and nothing on a reset connection (-1).
WriteSize(k) ==
  IF peer[k.client] = "reset" THEN -1
  ELSE Min({Len(k.resp) - k.out, SendBuffer - inflight[k.client]})

\* writeResponse(): the counter moves on unless send() failed.
WriteResponse(k) == [k EXCEPT !.out = IF WriteSize(k) < 0 THEN @ ELSE @ + WriteSize(k)]

\* case WRITE: writeResponse(), and flush() and READ again after the last
\* unit.  A response of size zero is finished by a send() of zero bytes; a
\* failed send() finishes nothing.
RunWrite ==
  /\ Dispatching("WRITE") /\ evs' = Tail(evs)
  /\ LET s == Head(evs).ctx
         c == conn[s].client
         k == WriteResponse(conn[s])
     IN  /\ conn[s].state = "WRITING_RESPONSE"
         /\ \/ /\ WriteSize(conn[s]) < 0
               /\ UNCHANGED <<conn, listener, inflight, replied>>
            \/ /\ WriteSize(conn[s]) >= 0
               /\ inflight' = [inflight EXCEPT ![c] = @ + WriteSize(conn[s])]
               /\ replied' = [replied EXCEPT ![c] = @ \o SubSeq(k.resp, conn[s].out + 1, k.out)]
               /\ IF k.out = Len(k.resp)
                  THEN /\ conn' = [conn EXCEPT ![s] = Flush(@)]
                       /\ listener' = ModifyEvent(listener, s, c, "READ")
                  ELSE /\ conn' = [conn EXCEPT ![s] = k]
                       /\ UNCHANGED listener
  /\ UNCHANGED <<srvVars, rpc, avail, peer, accepted, inbox, next, processed>>

\* Events() keeps the position of a pollfd without events, which wait() leaves out
\* of its list: the code goes on to the next event at once.
RunSkip ==
  /\ Dispatching("NONE") /\ evs' = Tail(evs)
  /\ UNCHANGED <<srvVars, rpc, listener, conn, avail, peerVars, histVars>>

------------------------------------------------------------------------------
(* The peers and the kernel (external) *)

PeerConnect(c) ==
  /\ peer[c] = "none" /\ listening
  /\ peer' = [peer EXCEPT ![c] = "up"]
  /\ UNCHANGED <<srvVars, runVars, accepted, inbox, inflight, next, histVars>>

\* The peer's next unit arrives.
PeerSend(c) ==
  LET r == next[c].req
  IN  /\ peer[c] = "up" /\ r <= Len(Requests)
      /\ inbox' = [inbox EXCEPT ![c] = Append(@, Unit(c, r, next[c].pos))]
      /\ next' = [next EXCEPT ![c] = IF @.pos < ReqSize(r) THEN [req |-> r, pos |-> @.pos + 1]
                                     ELSE [req |-> r + 1, pos |-> 1]]
      /\ UNCHANGED <<srvVars, runVars, peer, accepted, inflight, histVars>>

\* The peer's program reads a unit of a response.
PeerReceive(c) ==
  /\ peer[c] \in {"up", "fin"} /\ inflight[c] > 0
  /\ inflight' = [inflight EXCEPT ![c] = @ - 1]
  /\ UNCHANGED <<srvVars, runVars, peer, accepted, inbox, next, histVars>>

\* A FIN, or a reset, possibly after a FIN.
PeerHangup(c) ==
  /\ \/ peer[c] = "up" /\ peer' = [peer EXCEPT ![c] = "fin"]
     \/ peer[c] \in {"up", "fin"} /\ peer' = [peer EXCEPT ![c] = "reset"]
  /\ UNCHANGED <<srvVars, runVars, accepted, inbox, inflight, next, histVars>>

------------------------------------------------------------------------------

RunStep ==
  \/ RunCheck \/ RunPoll \/ RunPollFails \/ RunEndBatch
  \/ RunAccept \/ RunAcceptFails \/ RunDisconnect \/ RunRead \/ RunWrite \/ RunSkip

PeerStep == \E c \in Clients : PeerConnect(c) \/ PeerSend(c) \/ PeerReceive(c) \/ PeerHangup(c)

Next == Open \/ CloseBegin \/ CloseJoin \/ RunStep \/ PeerStep

Spec == Init /\ [][Next]_vars

\* The operating system runs the server's thread and the thread blocked in
\* join(), and a peer that is still there reads what it was sent.
FairSpec ==
  /\ Spec /\ WF_vars(RunStep) /\ WF_vars(CloseJoin)
  /\ \A c \in Clients : WF_vars(PeerReceive(c))

------------------------------------------------------------------------------
(* Properties *)

ConnectionType ==
  [client : Clients \cup {None},
   state : {"READING_HEADER", "READING_PAYLOAD", "WRITING_RESPONSE"},
   hdr : Seq([client : Clients, req : Nat, pos : Nat]),
   pay : Seq([client : Clients, req : Nat, pos : Nat]),
   need : Nat, mode : {"FAST", "SLOW", "READ_STREAM", "WRITE_STREAM"},
   resp : Seq([client : Clients, req : Nat, pos : Nat]), out : Nat]

\* Every variable stays within its declared range: the state written by the
\* poll loop, the pool and the connection's state machine is well-formed.
TypeOK ==
  /\ running \in BOOLEAN /\ opc \in {"idle", "join"} /\ opens \in Nat /\ listening \in BOOLEAN
  /\ rpc \in {"none", "top", "poll", "dispatch", "exited", "crashed"}
  /\ listener \in [handle : Seq([fd : Clients \cup {Server}, events : Interests]),
                   contexts : Seq(SlotSet \cup {Server}),
                   serverSocket : {None, Server}]
  /\ evs \in Seq([type : {"NONE", "ACCEPT", "READ", "WRITE", "DISCONNECTED"},
                  ctx : SlotSet \cup {Server, None}])
  /\ conn \in [SlotSet -> ConnectionType]
  /\ avail \in Seq(SlotSet)
  /\ peer \in [Clients -> {"none", "up", "fin", "reset", "refused", "closed"}]
  /\ accepted \subseteq Clients
  /\ inbox \in [Clients -> Seq([client : Clients, req : Nat, pos : Nat])]
  /\ inflight \in [Clients -> 0..SendBuffer]
  /\ next \in [Clients -> [req : Nat, pos : Nat]]
  /\ processed \in [Clients -> Seq([hdr : Seq([client : Clients, req : Nat, pos : Nat]),
                                    pay : Seq([client : Clients, req : Nat, pos : Nat])])]
  /\ replied \in [Clients -> Seq([client : Clients, req : Nat, pos : Nat])]

\* A request as the handler should be given it, and the units of a sequence of
\* such calls.
RequestOf(c, r) == [hdr |-> HeaderOf(c, r), pay |-> PayloadOf(c, r)]
UnitsOf(calls) == FlattenSeq([i \in DOMAIN calls |-> calls[i].hdr \o calls[i].pay])

\* The units of the first n requests of a peer, the handler calls they should
\* lead to, and all the calls of its stream.
StreamOf(c, n) == UnitsOf([r \in 1..n |-> RequestOf(c, r)])
CallsOf(c, n) ==
  FlattenSeq([r \in 1..n |-> IF Requests[r].mode = "SLOW" THEN <<>> ELSE <<RequestOf(c, r)>>])
Whole(c) == CallsOf(c, Len(Requests))

RepliesTo(calls) ==
  FlattenSeq([i \in DOMAIN calls |->
    IF Requests[calls[i].hdr[1].req].mode = "WRITE_STREAM" THEN <<>> ELSE ReplyTo(calls[i].hdr)])

\* What the peer has sent so far.
Sent(c) ==
  LET r == next[c].req
  IN  StreamOf(c, r - 1) \o
      IF r > Len(Requests) THEN <<>>
      ELSE SubSeq(HeaderOf(c, r) \o PayloadOf(c, r), 1, next[c].pos - 1)

\* No request is consumed without a call of the handler: what a peer sent is
\* what the handler was given, what the connection's buffers hold of an
\* unfinished request, and what is still to be read.
NoRequestSkipped ==
  \A s \in InUse :
    LET k == conn[s]
        held == IF k.state = "WRITING_RESPONSE" THEN <<>> ELSE k.hdr \o k.pay
    IN  UnitsOf(processed[k.client]) \o held \o inbox[k.client] = Sent(k.client)

\* Partial writes neither lose, repeat nor mix responses: what was written to
\* a connection and what its output buffer still holds are the responses to
\* the requests processed on it, in order.
ResponsesExact ==
  \A s \in InUse :
    LET k == conn[s]
    IN  replied[k.client] \o SubSeq(k.resp, k.out + 1, Len(k.resp)) = RepliesTo(processed[k.client])

Link(c) == IF c \notin accepted THEN "none" ELSE IF peer[c] = "closed" THEN "closed" ELSE "open"

Service == INSTANCE RequestService WITH
  Stream <- Whole, Replies <- RepliesTo, link <- [c \in Clients |-> Link(c)],
  handled <- processed

\* The server implements the service: however a stream is cut into pieces and
\* connections are interleaved, readHeader and readPayload hand the handler
\* exactly the requests the peer sent, whole, each once and in order, the next
\* only after the last unit of the response before it was written, and no unit
\* of another request, connection or earlier use of the pool object gets in.
RefinesService == Service!Spec

\* The polling set follows the state machines: a registered context is a live
\* connection, registered once, with the descriptor it owns and with WRITE
\* interest exactly while it writes.  In the first run of the server every
\* live connection is registered.
InterestMatchesState ==
  rpc \in {"top", "poll", "dispatch"} =>
    LET ctxs == listener.contexts
    IN  /\ IsInjective(ctxs) /\ Len(ctxs) = Len(listener.handle)
        /\ \A s \in Range(ctxs) \ {Server} :
             /\ s \in InUse
             /\ \E h \in Range(listener.handle) :
                  /\ h.fd = conn[s].client
                  /\ h.events = IF conn[s].state = "WRITING_RESPONSE" THEN "WRITE" ELSE "READ"
        /\ opens = 1 => InUse \subseteq Range(ctxs)

\* An event never names a connection that its batch has already released, or
\* replaced, and it fits the state of its connection when its turn comes: the
\* static_cast in run() is safe and no READ or WRITE is ever dropped.
EventContextsLive ==
  \A i \in DOMAIN evs :
    LET e == evs[i] IN
    /\ e.type \in {"READ", "WRITE", "DISCONNECTED"} => e.ctx \in InUse
    /\ e.type = "WRITE" => conn[e.ctx].state = "WRITING_RESPONSE"
    /\ e.type = "READ" => conn[e.ctx].state \in {"READING_HEADER", "READING_PAYLOAD"}
    /\ \A j \in DOMAIN evs : i # j /\ e.ctx # None => e.ctx # evs[j].ctx

\* Connections accepted and not closed by the server.
Held == {c \in accepted : peer[c] # "closed"}

\* acquire() and release() keep the pool whole: an object is either free, once,
\* or constructed for a connection of its own.  acquire() therefore returns
\* null only when more connections are open than the pool has objects.
PoolConservation ==
  /\ IsInjective(avail) /\ Range(avail) = SlotSet \ InUse
  /\ \A s, t \in InUse : conn[s].client = conn[t].client => s = t
  /\ {conn[s].client : s \in InUse} \subseteq Held
  /\ rpc = "crashed" => Cardinality(Held) > Len(Slots)

\* Requests that c has sent completely, and those the server is done with.
SentRequest(c, r) == next[c].req > r
Answers(c, r) ==
  /\ \E i \in DOMAIN processed[c] : processed[c][i].hdr = HeaderOf(c, r)
  /\ Requests[r].mode # "WRITE_STREAM" =>
       \/ Requests[r].response = 0
       \/ Unit(c, r, Requests[r].response) \in Range(replied[c])

\* Every request that arrives completely is processed and answered to its last
\* unit, unless the peer hangs up or the server closes.
Answered ==
  \A c \in Clients : \A r \in DOMAIN Requests :
    SentRequest(c, r) /\ running ~> Answers(c, r) \/ peer[c] # "up" \/ ~running

\* A connection whose peer hung up is reported to the handler, closed and given
\* back to the pool, unless the server is closed first.
HangupReleases ==
  \A c \in Clients :
    peer[c] \in {"fin", "reset"} /\ c \in accepted ~> peer[c] = "closed" \/ ~running

\* close() returns: run() leaves its loop and join() does not wait for ever.
CloseTerminates == opc = "join" ~> opc = "idle"
==============================================================================
