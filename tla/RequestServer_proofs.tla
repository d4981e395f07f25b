-------------------------- MODULE RequestServer_proofs --------------------------
(***************************************************************************)
(* What RequestServer promises for every set of peers, every pool, every   *)
(* sequence of requests and every size: its poll loop never touches a      *)
(* connection that is gone, the polling set follows the state machines,    *)
(* and the pool neither loses nor shares an object.                        *)
(***************************************************************************)
EXTENDS RequestServer, SocketEvent_proofs, FiniteSetTheorems

------------------------------------------------------------------------------
(* The inductive invariant *)

\* The units the peers send: all of them belong to a request.
Units == [client : Clients, req : 1..Len(Requests), pos : Nat]

Serving == rpc \in {"top", "poll", "dispatch"}

\* The life of the thread: an owner that is neither running nor joining has
\* none, and only a batch under way, or one a crash cut short, leaves events.
Lifecycle ==
  /\ opc = "idle" /\ ~running => rpc = "none"
  /\ rpc \notin {"dispatch", "crashed"} => evs = <<>>
  /\ opens = 0 => InUse = {} /\ rpc = "none"

\* What a connection holds: less than the whole of what it is waiting for, no
\* more of its response than there is, and none of it before it is due.
Sound(k) ==
  /\ k.hdr \in Seq(Units) /\ k.pay \in Seq(Units) /\ k.resp \in Seq(Units)
  /\ k.state = "READING_HEADER" => Len(k.hdr) < HeaderSize /\ k.pay = <<>>
  /\ k.state = "READING_PAYLOAD" => k.hdr # <<>> /\ Len(k.pay) < k.need
  /\ k.state # "WRITING_RESPONSE" => k.resp = <<>> /\ k.out = 0
  /\ k.out <= Len(k.resp)
Buffers ==
  /\ \A s \in SlotSet : Sound(conn[s]) /\ (s \in InUse => conn[s].client \in Clients)
  /\ \A c \in Clients : inbox[c] \in Seq(Units) /\ next[c].req > 0

\* What addEvent was last told about the context s, whose pollfd is h.
Entry(s, h) ==
  \/ s = Server /\ h.fd = Server
  \/ /\ s \in InUse /\ h.fd = conn[s].client
     /\ h.events = IF conn[s].state = "WRITING_RESPONSE" THEN "WRITE" ELSE "READ"

\* The vectors of the listener, which nothing ties together, are in step.
InStep ==
  Serving =>
    /\ Len(listener.contexts) = Len(listener.handle) /\ listener.serverSocket = Server
    /\ \A m \in 1..Len(listener.contexts) : Entry(listener.contexts[m], listener.handle[m])
    /\ \A m, n \in 1..Len(listener.contexts) : listener.contexts[m] = listener.contexts[n] => m = n
    /\ opens = 1 => \A s \in InUse : \E m \in 1..Len(listener.contexts) : listener.contexts[m] = s

\* The events still to be dispatched name registered connections, each at most
\* once, in the state the event is for.
Fits(e) ==
  /\ e.type \in {"READ", "WRITE", "DISCONNECTED"} =>
       /\ e.ctx \in InUse
       /\ \E m \in 1..Len(listener.contexts) : listener.contexts[m] = e.ctx
  /\ e.type = "WRITE" => conn[e.ctx].state = "WRITING_RESPONSE"
  /\ e.type = "READ" => conn[e.ctx].state # "WRITING_RESPONSE"
Batch ==
  /\ \A m \in 1..Len(evs) : Fits(evs[m])
  /\ \A m, n \in 1..Len(evs) : evs[m].ctx # None /\ evs[m].ctx = evs[n].ctx => m = n

\* The objects of the pool, and what the constructed ones belong to.
Pool ==
  /\ IsInjective(avail) /\ Range(avail) = SlotSet \ InUse
  /\ \A s, t \in InUse : conn[s].client = conn[t].client => s = t
  /\ \A s \in InUse : conn[s].client \in Held

\* acquire() found nothing, or the thread is still well.
Exhausted ==
  /\ IsFiniteSet(accepted)
  /\ rpc = "crashed" => Cardinality(Held) > Len(Slots)

ServerInv == TypeOK /\ Lifecycle /\ Buffers /\ InStep /\ Batch /\ Pool /\ Exhausted

------------------------------------------------------------------------------
(* Facts about the data *)

\* The constants in the form in which the steps use them.
LEMMA Constants ==
  /\ Server \notin SlotSet /\ None \notin SlotSet /\ Server \notin Clients /\ None \notin Clients
  /\ Server # None
  /\ HeaderSize \in Nat /\ HeaderSize > 0 /\ SendBuffer \in Nat /\ SendBuffer > 0
  /\ Slots \in Seq(SlotSet) /\ Len(Requests) \in Nat
  /\ \A r \in 1..Len(Requests) :
       /\ Requests[r].mode \in {"FAST", "SLOW", "READ_STREAM", "WRITE_STREAM"}
       /\ Requests[r].payload \in Nat /\ Requests[r].response \in Nat
  <1>1. /\ Server \notin SlotSet /\ None \notin SlotSet /\ Server \notin Clients /\ None \notin Clients
        /\ Server # None /\ Slots \in Seq(SlotSet)
    BY SlotsAssumption, Zenon DEF SlotSet
  <1>2. HeaderSize \in Nat /\ HeaderSize > 0 /\ SendBuffer \in Nat /\ SendBuffer > 0
    BY SizesAssumption
  <1>3. /\ Len(Requests) \in Nat
        /\ \A r \in 1..Len(Requests) :
             Requests[r] \in [mode : {"FAST", "SLOW", "READ_STREAM", "WRITE_STREAM"},
                             payload : Nat, response : Nat]
    BY RequestsAssumption, LenProperties, ElementOfSeq, Zenon
  <1> QED BY <1>1, <1>2, <1>3

\* The units of requests are units.
LEMMA UnitsTyped ==
  \A q \in Seq(Units) : q \in Seq([client : Clients, req : Nat, pos : Nat])
  <1>1. Units \subseteq [client : Clients, req : Nat, pos : Nat]
    BY Constants DEF Units
  <1> QED BY <1>1, SeqMonotonic

\* An object without a connection.
LEMMA NoConnectionFields ==
  /\ NoConnection.client = None /\ NoConnection.state = "READING_HEADER"
  /\ NoConnection.hdr = <<>> /\ NoConnection.pay = <<>> /\ NoConnection.resp = <<>>
  /\ NoConnection.need = 0 /\ NoConnection.mode = "FAST" /\ NoConnection.out = 0
  /\ NoConnection \in ConnectionType
  <1>1. NoConnection = [client |-> None, state |-> "READING_HEADER", hdr |-> <<>>, pay |-> <<>>,
                        need |-> 0, mode |-> "FAST", resp |-> <<>>, out |-> 0]
    BY DEF NoConnection, NewConnection
  <1>2. <<>> \in Seq([client : Clients, req : Nat, pos : Nat])
    BY EmptySeq
  <1> QED BY <1>1, <1>2 DEF ConnectionType

\* Constructing or changing a connection puts its object in use.
LEMMA Occupied ==
  ASSUME TypeOK, NEW s \in SlotSet, NEW k, k.client # None, conn' = [conn EXCEPT ![s] = k]
  PROVE  /\ InUse' = InUse \cup {s} /\ conn'[s] = k
         /\ \A t \in SlotSet : t # s => conn'[t] = conn[t]
  <1>1. k # NoConnection
    BY NoConnectionFields
  <1>2. conn'[s] = k /\ \A t \in SlotSet : t # s => conn'[t] = conn[t]
    BY DEF TypeOK
  <1> QED BY <1>1, <1>2 DEF InUse

\* Destroying it takes the object out of use.
LEMMA Vacated ==
  ASSUME TypeOK, NEW s \in SlotSet, conn' = [conn EXCEPT ![s] = NoConnection]
  PROVE  /\ InUse' = InUse \ {s} /\ conn'[s] = NoConnection
         /\ \A t \in SlotSet : t # s => conn'[t] = conn[t]
  <1>1. conn'[s] = NoConnection /\ \A t \in SlotSet : t # s => conn'[t] = conn[t]
    BY DEF TypeOK
  <1> QED BY <1>1 DEF InUse

\* Two pollfds with one descriptor are one.
LEMMA DescriptorOnce ==
  ASSUME ServerInv, Serving
  PROVE  /\ \A m, n \in 1..Len(listener.handle) :
               listener.handle[m].fd = listener.handle[n].fd => m = n
         /\ \A m \in 1..Len(listener.handle) :
               \/ listener.contexts[m] = Server /\ listener.handle[m].fd = Server
               \/ /\ listener.contexts[m] \in InUse /\ listener.handle[m].fd \in Clients
                  /\ listener.handle[m].fd = conn[listener.contexts[m]].client
  <1>1. /\ Len(listener.contexts) = Len(listener.handle)
        /\ \A m \in 1..Len(listener.contexts) : Entry(listener.contexts[m], listener.handle[m])
        /\ \A m, n \in 1..Len(listener.contexts) : listener.contexts[m] = listener.contexts[n] => m = n
    BY DEF ServerInv, InStep
  <1>2. \A s \in InUse : conn[s].client \in Clients
    BY DEF ServerInv, Buffers, InUse
  <1>3. \A m \in 1..Len(listener.handle) :
           \/ listener.contexts[m] = Server /\ listener.handle[m].fd = Server
           \/ /\ listener.contexts[m] \in InUse /\ listener.handle[m].fd \in Clients
              /\ listener.handle[m].fd = conn[listener.contexts[m]].client
    BY <1>1, <1>2 DEF Entry
  <1>4. \A s, t \in InUse : conn[s].client = conn[t].client => s = t
    BY DEF ServerInv, Pool
  <1>5. ASSUME NEW m \in 1..Len(listener.handle), NEW n \in 1..Len(listener.handle),
               listener.handle[m].fd = listener.handle[n].fd
        PROVE  listener.contexts[m] = listener.contexts[n]
    BY <1>3, <1>4, <1>5, Constants
  <1> QED BY <1>1, <1>3, <1>5

------------------------------------------------------------------------------
(* What a step leaves alone *)

\* A step that constructs and destroys no connection, and leaves what a part
\* of the invariant is about, keeps that part.
LEMMA Kept ==
  ASSUME conn' = conn
  PROVE  /\ InUse' = InUse
         /\ Buffers /\ inbox' = inbox /\ next' = next => Buffers'
         /\ InStep /\ listener' = listener /\ opens' = opens /\ (Serving' => Serving) => InStep'
         /\ Batch /\ listener' = listener /\ evs' = evs => Batch'
         /\ Pool /\ avail' = avail /\ Held \subseteq Held' => Pool'
  <1>1. InUse' = InUse
    BY DEF InUse
  <1>2. Buffers /\ inbox' = inbox /\ next' = next => Buffers'
    BY <1>1 DEF Buffers, Sound
  <1>3. ASSUME InStep, listener' = listener, opens' = opens, Serving' => Serving PROVE InStep'
    BY <1>1, <1>3 DEF InStep, Entry
  <1>4. ASSUME Batch, listener' = listener, evs' = evs PROVE Batch'
    BY <1>1, <1>4 DEF Batch, Fits
  <1>5. ASSUME Pool, avail' = avail, Held \subseteq Held' PROVE Pool'
    BY <1>1, <1>5 DEF Pool
  <1> QED BY <1>1, <1>2, <1>3, <1>4, <1>5

\* The rest of a batch after the event at its front.
LEMMA BatchTail ==
  ASSUME ServerInv, evs # <<>>, evs' = Tail(evs),
         \A e : (\E m \in 2..Len(evs) : e = evs[m]) => Fits(e)'
  PROVE  /\ Batch'
         /\ evs' \in Seq([type : {"NONE", "ACCEPT", "READ", "WRITE", "DISCONNECTED"},
                          ctx : SlotSet \cup {Server, None}])
  <1> DEFINE T == [type : {"NONE", "ACCEPT", "READ", "WRITE", "DISCONNECTED"},
                   ctx : SlotSet \cup {Server, None}]
  <1>1. evs \in Seq(T)
    BY DEF ServerInv, TypeOK
  <1> HIDE DEF T
  <1>2. /\ evs' \in Seq(T) /\ Len(evs') = Len(evs) - 1 /\ Len(evs) \in Nat
        /\ \A m \in 1..Len(evs') : m + 1 \in 2..Len(evs) /\ evs'[m] = evs[m + 1]
    BY <1>1
  <1>3. ASSUME NEW m \in 1..Len(evs') PROVE Fits(evs[m])'
    <2>1. PICK e : e = evs'[m]
      OBVIOUS
    <2>2. \E n \in 2..Len(evs) : e = evs[n]
      BY <1>2, <2>1
    <2>3. Fits(e)'
      BY <2>2
    <2> QED BY <2>1, <2>3 DEF Fits
  <1>4. ASSUME NEW m \in 1..Len(evs'), NEW n \in 1..Len(evs'),
               evs'[m].ctx # None, evs'[m].ctx = evs'[n].ctx
        PROVE  m = n
    <2>1. evs[m + 1].ctx # None /\ evs[m + 1].ctx = evs[n + 1].ctx
      BY <1>2, <1>4
    <2>2. m + 1 \in 1..Len(evs) /\ n + 1 \in 1..Len(evs)
      BY <1>2
    <2>3. m + 1 = n + 1
      BY <2>1, <2>2 DEF ServerInv, Batch
    <2> QED BY <2>3
  <1> QED BY <1>2, <1>3, <1>4 DEF Batch, T

------------------------------------------------------------------------------
(* The owner and the peers *)

\* open() registers the accept context with a new listener.
LEMMA OpenStep ==
  ASSUME ServerInv, Open
  PROVE  ServerInv'
  <1> DEFINE l == AddEvent(NewListener(None), Server, Server, "ACCEPT")
  <1>1. l = [handle |-> <<[fd |-> Server, events |-> "READ"]>>, contexts |-> <<Server>>,
             serverSocket |-> Server]
    <2>1. EventsOf("ACCEPT") = "READ"
      BY Zenon DEF EventsOf
    <2>2. l = [handle |-> Append(<<>>, [fd |-> Server, events |-> EventsOf("ACCEPT")]),
               contexts |-> Append(<<>>, Server), serverSocket |-> Server]
      BY Zenon DEF AddEvent, NewListener
    <2>3. /\ Append(<<>>, [fd |-> Server, events |-> "READ"]) = <<[fd |-> Server, events |-> "READ"]>>
          /\ Append(<<>>, Server) = <<Server>>
      OBVIOUS
    <2> QED BY <2>1, <2>2, <2>3
  <1> HIDE DEF l
  <1>2. /\ conn' = conn /\ evs' = evs /\ avail' = avail /\ inbox' = inbox /\ next' = next
        /\ peer' = peer /\ accepted' = accepted /\ inflight' = inflight /\ processed' = processed
        /\ replied' = replied /\ opc' = opc /\ running' = TRUE /\ listening' = TRUE
        /\ opens' = opens + 1 /\ rpc' = "top" /\ listener' = l /\ rpc = "none"
    BY DEF Open, peerVars, histVars, ServerInv, Lifecycle, l
  <1>3. evs = <<>> /\ (opens = 0 => InUse = {}) /\ opens \in Nat
    BY <1>2 DEF ServerInv, Lifecycle, TypeOK
  <1>4. InUse' = InUse /\ Held' = Held
    BY <1>2 DEF InUse, Held
  <1>5. TypeOK'
    <2>1. listener' \in [handle : Seq([fd : Clients \cup {Server}, events : Interests]),
                         contexts : Seq(SlotSet \cup {Server}), serverSocket : {None, Server}]
      BY <1>1, <1>2 DEF Interests
    <2>2. opens' \in Nat
      BY <1>2, <1>3
    <2> QED BY <1>2, <2>1, <2>2 DEF ServerInv, TypeOK
  <1>6. Lifecycle'
    BY <1>2, <1>3 DEF Lifecycle
  <1>7. Buffers' /\ Pool'
    BY <1>2, <1>4, Kept DEF ServerInv
  <1>8. InStep'
    <2>1. /\ Len(listener'.contexts) = 1 /\ Len(listener'.handle) = 1
          /\ listener'.contexts[1] = Server /\ listener'.handle[1].fd = Server
          /\ listener'.serverSocket = Server
      BY <1>1, <1>2
    <2>2. opens' = 1 => InUse' = {}
      BY <1>2, <1>3, <1>4
    <2>3. Entry(Server, listener.handle[1])'
      BY <2>1 DEF Entry
    <2>4. ASSUME NEW m \in 1..Len(listener'.contexts) PROVE Entry(listener.contexts[m], listener.handle[m])'
      <3>1. m = 1
        BY <2>1
      <3> QED BY <2>1, <2>3, <3>1
    <2> QED BY <2>1, <2>2, <2>4 DEF InStep
  <1>9. Batch'
    BY <1>2, <1>3 DEF Batch
  <1>10. Exhausted'
    BY <1>2, <1>4 DEF ServerInv, Exhausted
  <1> QED BY <1>5, <1>6, <1>7, <1>8, <1>9, <1>10 DEF ServerInv

\* A step that leaves the thread's state alone and closes no accepted
\* connection keeps the invariant when it keeps the types.
LEMMA OutsideStep ==
  ASSUME ServerInv, TypeOK', Buffers', UNCHANGED <<listener, evs, conn, avail, opens, accepted>>,
         \/ rpc' = rpc /\ (opc' = "idle" /\ ~running' => opc = "idle" /\ ~running)
         \/ rpc = "exited" /\ rpc' = "none",
         \A c \in accepted : peer[c] # "closed" => peer'[c] # "closed",
         \A c \in accepted : peer'[c] # "closed" => peer[c] # "closed"
  PROVE  ServerInv'
  <1>1. Held' = Held
    BY DEF Held
  <1>2. InUse' = InUse
    BY Kept
  <1>3. Serving' => Serving
    BY DEF Serving
  <1>4. InStep' /\ Batch' /\ Pool'
    BY <1>1, <1>3, Kept DEF ServerInv
  <1>5. Lifecycle'
    BY <1>2 DEF ServerInv, Lifecycle
  <1>6. Exhausted'
    BY <1>1 DEF ServerInv, Exhausted
  <1> QED BY <1>4, <1>5, <1>6 DEF ServerInv

\* close().
LEMMA CloseStep ==
  ASSUME ServerInv, CloseBegin \/ CloseJoin
  PROVE  ServerInv'
  <1>1. CASE CloseBegin
    <2>1. /\ UNCHANGED <<listener, evs, conn, avail, opens, accepted, inbox, next, rpc, peer, inflight,
                         processed, replied, listening>>
          /\ running' = FALSE /\ opc' = "join"
      BY <1>1 DEF CloseBegin, runVars, peerVars, histVars
    <2>2. TypeOK'
      BY <2>1 DEF ServerInv, TypeOK
    <2>3. Buffers'
      BY <2>1, Kept DEF ServerInv
    <2> QED BY <2>1, <2>2, <2>3, OutsideStep
  <1>2. CASE CloseJoin
    <2>1. /\ UNCHANGED <<listener, evs, conn, avail, opens, accepted, inbox, next, inflight,
                         processed, replied, running>>
          /\ opc' = "idle" /\ rpc = "exited" /\ rpc' = "none" /\ listening' = FALSE
          /\ peer' = [c \in Clients |-> IF c \in Queued THEN "refused" ELSE peer[c]]
      BY <1>2 DEF CloseJoin, histVars
    <2>2. TypeOK'
      BY <2>1 DEF ServerInv, TypeOK
    <2>3. Buffers'
      BY <2>1, Kept DEF ServerInv
    <2>4. \A c \in accepted : peer'[c] = peer[c]
      BY <2>1 DEF ServerInv, TypeOK, Queued
    <2> QED BY <2>1, <2>2, <2>3, <2>4, OutsideStep
  <1> QED BY <1>1, <1>2

\* What the peers do.
LEMMA PeerSteps ==
  ASSUME ServerInv, PeerStep
  PROVE  ServerInv'
  <1>1. PICK c \in Clients : PeerConnect(c) \/ PeerSend(c) \/ PeerReceive(c) \/ PeerHangup(c)
    BY DEF PeerStep
  <1>2. TypeOK /\ Buffers
    BY DEF ServerInv
  <1>3. CASE PeerConnect(c) \/ PeerHangup(c)
    <2>1. /\ UNCHANGED <<running, opc, opens, listening, rpc, listener, evs, conn, avail, accepted,
                         inbox, inflight, next, processed, replied>>
          /\ \E p \in {"up", "fin", "reset"} : peer' = [peer EXCEPT ![c] = p]
          /\ peer[c] # "closed"
      BY <1>3 DEF PeerConnect, PeerHangup, srvVars, runVars, histVars
    <2>2. TypeOK'
      BY <1>2, <2>1, SMTT(30) DEF TypeOK
    <2>3. Buffers'
      BY <1>2, <2>1, Kept
    <2>4. \A d \in Clients : peer'[d] # "closed" <=> peer[d] # "closed"
      BY <1>2, <2>1 DEF TypeOK
    <2> QED BY <1>2, <2>1, <2>2, <2>3, <2>4, OutsideStep DEF TypeOK
  <1>4. CASE PeerSend(c)
    <2> DEFINE r == next[c].req
               U == [client : Clients, req : Nat, pos : Nat]
    <2>1. /\ UNCHANGED <<running, opc, opens, listening, rpc, listener, evs, conn, avail, accepted,
                         peer, inflight, processed, replied>>
          /\ r <= Len(Requests)
          /\ inbox' = [inbox EXCEPT ![c] = Append(@, Unit(c, r, next[c].pos))]
          /\ next' = [next EXCEPT ![c] = IF next[c].pos < ReqSize(r)
                                         THEN [req |-> r, pos |-> next[c].pos + 1]
                                         ELSE [req |-> r + 1, pos |-> 1]]
      BY <1>4 DEF PeerSend, srvVars, runVars, histVars
    <2>2. r \in Nat /\ r > 0 /\ next[c].pos \in Nat /\ Len(Requests) \in Nat
      BY <1>2, Constants DEF TypeOK, Buffers
    <2>3. Unit(c, r, next[c].pos) \in Units /\ Unit(c, r, next[c].pos) \in U
      BY <2>1, <2>2 DEF Unit, Units
    <2>4. inbox' \in [Clients -> Seq(U)] /\ \A d \in Clients : inbox'[d] \in Seq(Units)
      <3>1. inbox \in [Clients -> Seq(U)] /\ \A d \in Clients : inbox[d] \in Seq(Units)
        BY <1>2 DEF TypeOK, Buffers
      <3> HIDE DEF U, r
      <3>2. Append(inbox[c], Unit(c, r, next[c].pos)) \in Seq(U)
        BY <2>3, <3>1, AppendProperties
      <3>3. Append(inbox[c], Unit(c, r, next[c].pos)) \in Seq(Units)
        BY <2>3, <3>1, AppendProperties
      <3> QED BY <2>1, <3>1, <3>2, <3>3
    <2>5. next' \in [Clients -> [req : Nat, pos : Nat]] /\ \A d \in Clients : next'[d].req > 0
      <3>1. next \in [Clients -> [req : Nat, pos : Nat]] /\ \A d \in Clients : next[d].req > 0
        BY <1>2 DEF TypeOK, Buffers
      <3> DEFINE a == [req |-> r, pos |-> next[c].pos + 1]
                 b == [req |-> r + 1, pos |-> 1]
      <3>2. a \in [req : Nat, pos : Nat] /\ a.req > 0 /\ b \in [req : Nat, pos : Nat] /\ b.req > 0
        BY <2>2
      <3>3. next' = [next EXCEPT ![c] = a] \/ next' = [next EXCEPT ![c] = b]
        BY <2>1, Zenon
      <3> HIDE DEF a, b
      <3> QED BY <3>1, <3>2, <3>3
    <2>6. TypeOK'
      BY <1>2, <2>1, <2>4, <2>5 DEF TypeOK
    <2>7. InUse' = InUse
      BY <2>1, Kept
    <2>8. Buffers'
      BY <1>2, <2>1, <2>4, <2>5, <2>7 DEF Buffers, Sound
    <2> QED BY <2>1, <2>6, <2>8, OutsideStep
  <1>5. CASE PeerReceive(c)
    <2>1. /\ UNCHANGED <<running, opc, opens, listening, rpc, listener, evs, conn, avail, accepted,
                         peer, inbox, next, processed, replied>>
          /\ inflight[c] > 0 /\ inflight' = [inflight EXCEPT ![c] = @ - 1]
      BY <1>5 DEF PeerReceive, srvVars, runVars, histVars
    <2>2. TypeOK'
      <3>1. inflight \in [Clients -> 0..SendBuffer] /\ SendBuffer \in Nat
        BY <1>2, Constants DEF TypeOK
      <3>2. inflight' \in [Clients -> 0..SendBuffer]
        BY <2>1, <3>1
      <3> QED BY <1>2, <2>1, <3>2 DEF TypeOK
    <2>3. Buffers'
      BY <1>2, <2>1, Kept
    <2> QED BY <2>1, <2>2, <2>3, OutsideStep
  <1> QED BY <1>1, <1>3, <1>4, <1>5

------------------------------------------------------------------------------
(* run(): the loop and the batch *)

\* A step of the thread that only moves it, or takes an event off the batch.
LEMMA ThreadStep ==
  ASSUME ServerInv, UNCHANGED <<running, opc, opens, listening, listener, conn, avail, peer, accepted,
                                inbox, inflight, next, processed, replied>>,
         rpc \in {"top", "poll", "dispatch"}, rpc' \in {"top", "poll", "dispatch", "exited"},
         rpc' # "dispatch" => evs' = <<>>,
         evs' \in Seq([type : {"NONE", "ACCEPT", "READ", "WRITE", "DISCONNECTED"},
                       ctx : SlotSet \cup {Server, None}]),
         Batch'
  PROVE  ServerInv'
  <1>1. InUse' = InUse /\ Held' = Held
    BY DEF InUse, Held
  <1>2. Serving
    BY DEF Serving
  <1>3. TypeOK'
    BY DEF ServerInv, TypeOK
  <1>4. Buffers' /\ InStep' /\ Pool'
    BY <1>1, <1>2, Kept DEF ServerInv
  <1>5. Lifecycle'
    BY <1>1 DEF ServerInv, Lifecycle
  <1>6. Exhausted'
    BY <1>1 DEF ServerInv, Exhausted
  <1> QED BY <1>3, <1>4, <1>5, <1>6 DEF ServerInv

\* The steps between two batches.
LEMMA LoopStep ==
  ASSUME ServerInv, RunCheck \/ RunPollFails \/ RunEndBatch
  PROVE  ServerInv'
  <1>1. /\ UNCHANGED <<running, opc, opens, listening, listener, conn, avail, peer, accepted,
                       inbox, inflight, next, processed, replied, evs>>
        /\ rpc \in {"top", "poll", "dispatch"} /\ rpc' \in {"top", "poll", "exited"} /\ evs = <<>>
    BY DEF ServerInv, Lifecycle, RunCheck, RunPollFails, RunEndBatch, srvVars, peerVars, histVars
  <1>2. Batch'
    BY <1>1, Kept DEF ServerInv
  <1>3. evs' \in Seq([type : {"NONE", "ACCEPT", "READ", "WRITE", "DISCONNECTED"},
                      ctx : SlotSet \cup {Server, None}])
    BY <1>1
  <1> QED BY <1>1, <1>2, <1>3, ThreadStep

\* Events without effect.
LEMMA SkipStep ==
  ASSUME ServerInv, RunAcceptFails \/ RunSkip
  PROVE  ServerInv'
  <1>1. /\ UNCHANGED <<running, opc, opens, listening, listener, conn, avail, peer, accepted,
                       inbox, inflight, next, processed, replied, rpc>>
        /\ rpc = "dispatch" /\ evs # <<>> /\ evs' = Tail(evs)
    BY DEF RunAcceptFails, RunSkip, Dispatching, srvVars, peerVars, histVars
  <1>2. InUse' = InUse
    BY <1>1, Kept
  <1>3. \A e : Fits(e) => Fits(e)'
    BY <1>1, <1>2 DEF Fits
  <1>4. \A m \in 2..Len(evs) : Fits(evs[m])
    BY DEF ServerInv, Batch, TypeOK
  <1>5. \A e : (\E m \in 2..Len(evs) : e = evs[m]) => Fits(e)'
    BY <1>3, <1>4
  <1> QED BY <1>1, <1>5, BatchTail, ThreadStep

\* poll() reports readiness only to those who asked for it, and nothing but
\* connections on the listening socket.
LEMMA ReventsAsked ==
  ASSUME NEW h
  PROVE  /\ h.fd = Server => Revents(h) \subseteq {"IN"}
         /\ h.fd # Server /\ "IN" \in Revents(h) => h.events = "READ"
         /\ h.fd # Server /\ "OUT" \in Revents(h) => h.events = "WRITE"
         /\ Revents(h) \subseteq {"IN", "OUT", "ERR", "HUP", "NVAL"}
  <1>1. CASE h.fd = Server
    BY <1>1 DEF Revents
  <1>2. CASE h.fd # Server
    BY <1>2 DEF Revents
  <1> QED BY <1>1, <1>2

\* The event of a pollfd fits its connection.
LEMMA PolledFits ==
  ASSUME ServerInv, Serving, NEW i \in 1..Len(listener.handle), NEW type,
         type = EventType(Revents(listener.handle[i]), listener.handle[i].fd, listener.serverSocket)
  PROVE  Fits([type |-> type, ctx |-> IF type = "NONE" THEN None ELSE listener.contexts[i]])
  <1> DEFINE h == listener.handle[i]
             s == listener.contexts[i]
             R == Revents(h)
  <1>1. /\ Len(listener.contexts) = Len(listener.handle) /\ listener.serverSocket = Server
        /\ Entry(s, h)
    BY DEF ServerInv, InStep
  <1>2. \/ s = Server /\ h.fd = Server
        \/ s \in InUse /\ h.fd \in Clients
    BY DescriptorOnce
  <1>3. /\ h.fd = Server => R \subseteq {"IN"}
        /\ h.fd # Server /\ "IN" \in R => h.events = "READ"
        /\ h.fd # Server /\ "OUT" \in R => h.events = "WRITE"
        /\ R \subseteq {"IN", "OUT", "ERR", "HUP", "NVAL"}
    BY ReventsAsked
  <1>4. type = EventType(R, h.fd, Server)
    BY <1>1
  <1>5. Server \notin Clients
    BY Constants
  <1> HIDE DEF h, s, R
  <1>6. /\ type = "READ" => "IN" \in R /\ h.fd # Server
        /\ type = "WRITE" => R # {} /\ "IN" \notin R /\ R \cap {"ERR", "HUP", "NVAL"} = {}
        /\ type = "DISCONNECTED" => R \cap {"ERR", "HUP", "NVAL"} # {}
    BY <1>4 DEF EventType
  <1>7. type \in {"WRITE", "DISCONNECTED"} => h.fd # Server
    BY <1>3, <1>6
  <1>8. type = "WRITE" => h.events = "WRITE"
    BY <1>3, <1>6, <1>7
  <1>9. type = "READ" => h.events = "READ"
    BY <1>3, <1>6
  <1>10. type \in {"READ", "WRITE", "DISCONNECTED"} =>
           /\ s \in InUse /\ \E m \in 1..Len(listener.contexts) : listener.contexts[m] = s
           /\ h.events = IF conn[s].state = "WRITING_RESPONSE" THEN "WRITE" ELSE "READ"
    <2>1. i \in 1..Len(listener.contexts) /\ listener.contexts[i] = s
      BY <1>1 DEF s
    <2> QED BY <1>1, <1>2, <1>5, <1>6, <1>7, <2>1 DEF Entry
  <1>11. type = "WRITE" => conn[s].state = "WRITING_RESPONSE"
    BY <1>8, <1>10
  <1>12. type = "READ" => conn[s].state # "WRITING_RESPONSE"
    BY <1>9, <1>10
  <1>13. type # "NONE" => (IF type = "NONE" THEN None ELSE listener.contexts[i]) = s
    BY DEF s
  <1>14. type \in {"READ", "WRITE", "DISCONNECTED"} => type # "NONE"
    OBVIOUS
  <1> QED BY <1>10, <1>11, <1>12, <1>13, <1>14 DEF Fits

\* The events wait() returns: one per pollfd, for the context registered with it.
LEMMA Polled ==
  ASSUME ServerInv, Serving
  PROVE  LET revents == [i \in DOMAIN listener.handle |-> Revents(listener.handle[i])]
             list == Events(listener.handle, listener.contexts, FdOf, revents, listener.serverSocket, None)
         IN  /\ list \in Seq([type : {"NONE", "ACCEPT", "READ", "WRITE", "DISCONNECTED"},
                              ctx : SlotSet \cup {Server, None}])
             /\ \A m \in 1..Len(list) : Fits(list[m])
             /\ \A m, n \in 1..Len(list) : list[m].ctx # None /\ list[m].ctx = list[n].ctx => m = n
  <1> DEFINE H == listener.handle
             C == listener.contexts
             revents == [i \in DOMAIN H |-> Revents(H[i])]
             list == Events(H, C, FdOf, revents, listener.serverSocket, None)
             type(i) == EventType(Revents(H[i]), H[i].fd, listener.serverSocket)
             T == [type : {"NONE", "ACCEPT", "READ", "WRITE", "DISCONNECTED"},
                   ctx : SlotSet \cup {Server, None}]
  <1>1. /\ H \in Seq([fd : Clients \cup {Server}, events : Interests]) /\ Len(H) \in Nat
        /\ C \in Seq(SlotSet \cup {Server}) /\ Len(C) = Len(H) /\ DOMAIN H = 1..Len(H)
        /\ \A m, n \in 1..Len(C) : C[m] = C[n] => m = n
    BY DEF ServerInv, TypeOK, InStep
  <1>2. /\ \A m, n \in 1..Len(H) : H[m].fd = H[n].fd => m = n
        /\ \A m \in 1..Len(H) : \/ C[m] = Server /\ H[m].fd = Server
                                \/ /\ C[m] \in InUse /\ H[m].fd \in Clients
                                   /\ H[m].fd = conn[C[m]].client
    BY DescriptorOnce
  <1>3. ASSUME NEW i \in 1..Len(H) PROVE FdOf[C[i]] = H[i].fd
    <2>1. InUse \subseteq SlotSet /\ Server \notin SlotSet
      BY Constants DEF InUse
    <2> QED BY <1>2, <2>1 DEF FdOf
  <1>4. ASSUME NEW i \in 1..Len(H) PROVE FindContext(C, FdOf, H[i].fd, None) = C[i]
    <2>1. PICK f : f = FdOf
      OBVIOUS
    <2>2. PICK q : q = C
      OBVIOUS
    <2>3. /\ q \in Seq(SlotSet \cup {Server}) /\ i \in 1..Len(q) /\ i # 0
          /\ \A j \in 1..Len(q) : f[q[j]] = f[q[i]] => j = i
      BY <1>1, <1>2, <1>3, <2>1, <2>2
    <2>4. FindContext(q, f, f[q[i]], None) = q[i]
      BY <2>3, FindContextAt
    <2> QED BY <1>3, <2>1, <2>2, <2>4
  <1>5. list = [i \in 1..Len(H) |->
                  [type |-> type(i), ctx |-> IF type(i) = "NONE" THEN None ELSE C[i]]]
    <2>1. list = [i \in 1..Len(H) |->
                    [type |-> EventType(revents[i], H[i].fd, listener.serverSocket),
                     ctx |-> IF EventType(revents[i], H[i].fd, listener.serverSocket) = "NONE" THEN None
                             ELSE FindContext(C, FdOf, H[i].fd, None)]]
      BY Zenon DEF Events
    <2>2. \A i \in 1..Len(H) : revents[i] = Revents(H[i])
      BY <1>1
    <2> HIDE DEF list, revents, H, C
    <2> QED BY <1>4, <2>1, <2>2, Zenon
  <1>6. \A i : type(i) \in {"NONE", "ACCEPT", "READ", "WRITE", "DISCONNECTED"}
    BY DEF EventType
  <1>7. \A i \in 1..Len(H) : C[i] \in SlotSet \cup {Server}
    BY <1>1
  <1>8. \A i \in 1..Len(H) : Fits([type |-> type(i), ctx |-> IF type(i) = "NONE" THEN None ELSE C[i]])
    <2>1. ASSUME NEW i \in 1..Len(H)
          PROVE  Fits([type |-> type(i), ctx |-> IF type(i) = "NONE" THEN None ELSE C[i]])
      <3>1. PICK t : t = type(i)
        OBVIOUS
      <3>2. Fits([type |-> t, ctx |-> IF t = "NONE" THEN None ELSE C[i]])
        BY <3>1, PolledFits
      <3> QED BY <3>1, <3>2
    <2> QED BY <2>1
  <1> HIDE DEF list, type, H, C
  <1>9. /\ list \in Seq(T) /\ Len(list) = Len(H)
        /\ \A i \in 1..Len(H) : list[i] = [type |-> type(i), ctx |-> IF type(i) = "NONE" THEN None ELSE C[i]]
    <2>1. \A i \in 1..Len(H) : [type |-> type(i), ctx |-> IF type(i) = "NONE" THEN None ELSE C[i]] \in T
      BY <1>6, <1>7
    <2> HIDE DEF T
    <2> QED BY <1>1, <1>5, <2>1
  <1>10. \A m \in 1..Len(list) : Fits(list[m])
    BY <1>8, <1>9
  <1>11. \A m, n \in 1..Len(list) : list[m].ctx # None /\ list[m].ctx = list[n].ctx => m = n
    <2>1. \A m \in 1..Len(H) : list[m].ctx # None => list[m].ctx = C[m]
      <3>1. ASSUME NEW m \in 1..Len(H), list[m].ctx # None PROVE list[m].ctx = C[m]
        <4>1. list[m] = [type |-> type(m), ctx |-> IF type(m) = "NONE" THEN None ELSE C[m]]
          BY <1>9
        <4>2. PICK t, x : t = type(m) /\ x = IF t = "NONE" THEN None ELSE C[m]
          OBVIOUS
        <4>3. list[m] = [type |-> t, ctx |-> x]
          BY <4>1, <4>2
        <4> QED BY <3>1, <4>2, <4>3
      <3> QED BY <3>1
    <2>2. Len(list) = Len(H)
      BY <1>9
    <2> QED BY <1>1, <2>1, <2>2
  <1> QED BY <1>9, <1>10, <1>11 DEF list, H, C

\* poll() starts a batch, or finds nothing to do.
LEMMA PollStep ==
  ASSUME ServerInv, RunPoll
  PROVE  ServerInv'
  <1> DEFINE revents == [i \in DOMAIN listener.handle |-> Revents(listener.handle[i])]
             list == Events(listener.handle, listener.contexts, FdOf, revents, listener.serverSocket, None)
             idle == \A i \in DOMAIN list : list[i].type = "NONE"
             T == [type : {"NONE", "ACCEPT", "READ", "WRITE", "DISCONNECTED"},
                   ctx : SlotSet \cup {Server, None}]
  <1>1. /\ rpc = "poll" /\ evs' = IF idle THEN <<>> ELSE list
        /\ rpc' = IF idle THEN "top" ELSE "dispatch"
        /\ UNCHANGED <<running, opc, opens, listening, listener, conn, avail, peer, accepted,
                       inbox, inflight, next, processed, replied>>
    BY Zenon DEF RunPoll, srvVars, peerVars, histVars
  <1>2. /\ list \in Seq(T) /\ \A m \in 1..Len(list) : Fits(list[m])
        /\ \A m, n \in 1..Len(list) : list[m].ctx # None /\ list[m].ctx = list[n].ctx => m = n
    BY <1>1, Polled, Zenon DEF Serving
  <1> HIDE DEF list, idle
  <1>3. \A e : Fits(e) => Fits(e)'
    BY <1>1, Kept DEF Fits
  <1>4. CASE idle
    BY <1>1, <1>4, ThreadStep DEF Batch
  <1>5. CASE ~idle
    <2>1. PICK q : q = list
      OBVIOUS
    <2>2. q \in Seq(T) /\ evs' = q /\ rpc' = "dispatch"
      BY <1>1, <1>2, <1>5, <2>1
    <2>3. \A m \in 1..Len(q) : Fits(q[m])'
      BY <1>2, <1>3, <2>1
    <2>4. Batch'
      BY <1>2, <2>1, <2>2, <2>3 DEF Batch, Fits
    <2> QED BY <1>1, <2>2, <2>4, ThreadStep
  <1> QED BY <1>4, <1>5

------------------------------------------------------------------------------
(* The listener of run() *)

Listeners == [handle : Seq([fd : Clients \cup {Server}, events : Interests]),
              contexts : Seq(SlotSet \cup {Server}), serverSocket : {None, Server}]

\* The listener l is the server's without the context s.
Without(l, s) ==
  /\ l \in Listeners /\ Len(l.contexts) = Len(l.handle) /\ l.serverSocket = Server
  /\ \A j \in 1..Len(l.contexts) : \E k \in 1..Len(listener.contexts) :
       /\ l.contexts[j] # s /\ l.contexts[j] = listener.contexts[k]
       /\ l.handle[j] = listener.handle[k]
  /\ \A k \in 1..Len(listener.contexts) : listener.contexts[k] # s =>
       \E j \in 1..Len(l.contexts) : l.contexts[j] = listener.contexts[k]
  /\ \A j, k \in 1..Len(l.contexts) : l.contexts[j] = l.contexts[k] => j = k

\* The listener a is l with the context s and its pollfd h behind it.
Extended(a, l, s, h) ==
  \E n \in Nat :
    /\ a \in Listeners /\ a.serverSocket = l.serverSocket
    /\ n \in 1..n /\ Len(a.contexts) = n /\ Len(a.handle) = n
    /\ a.contexts[n] = s /\ a.handle[n] = h
    /\ \A j \in 1..n : j # n =>
         /\ j \in 1..Len(l.contexts) /\ a.contexts[j] = l.contexts[j] /\ a.handle[j] = l.handle[j]
    /\ \A j \in 1..Len(l.contexts) : j \in 1..n /\ j # n

\* The listener l is the server's with h as the pollfd of the context s.
With(l, s, h) ==
  /\ l \in Listeners /\ Len(l.contexts) = Len(l.handle) /\ l.serverSocket = Server
  /\ \A j \in 1..Len(l.contexts) :
       \/ l.contexts[j] = s /\ l.handle[j] = h
       \/ \E k \in 1..Len(listener.contexts) :
            /\ l.contexts[j] # s /\ l.contexts[j] = listener.contexts[k]
            /\ l.handle[j] = listener.handle[k]
  /\ \A k \in 1..Len(listener.contexts) :
       \E j \in 1..Len(l.contexts) : l.contexts[j] = listener.contexts[k]
  /\ \E j \in 1..Len(l.contexts) : l.contexts[j] = s
  /\ \A j, k \in 1..Len(l.contexts) : l.contexts[j] = l.contexts[k] => j = k

\* The event at the front of the batch names a registered connection that no
\* other event of the batch is about.
LEMMA FrontEvent ==
  ASSUME ServerInv, NEW type \in {"READ", "WRITE", "DISCONNECTED"}, Dispatching(type),
         NEW s, s = Head(evs).ctx
  PROVE  /\ Serving /\ rpc = "dispatch" /\ evs # <<>>
         /\ s \in InUse /\ s \in SlotSet /\ conn[s].client \in Clients /\ conn[s].client # None
         /\ \E m \in 1..Len(listener.contexts) : listener.contexts[m] = s
         /\ type = "WRITE" => conn[s].state = "WRITING_RESPONSE"
         /\ type = "READ" => conn[s].state # "WRITING_RESPONSE"
         /\ \A e : (\E m \in 2..Len(evs) : e = evs[m]) => Fits(e) /\ e.ctx # s
  <1>1. rpc = "dispatch" /\ evs # <<>> /\ Head(evs).type = type /\ Serving
    BY DEF Dispatching, Serving
  <1>2. Len(evs) \in Nat /\ 1 \in 1..Len(evs) /\ Head(evs) = evs[1]
    BY <1>1 DEF ServerInv, TypeOK
  <1>3. Fits(evs[1]) /\ evs[1].type = type /\ evs[1].ctx = s
    BY <1>1, <1>2 DEF ServerInv, Batch
  <1>4. /\ s \in InUse /\ \E m \in 1..Len(listener.contexts) : listener.contexts[m] = s
        /\ type = "WRITE" => conn[s].state = "WRITING_RESPONSE"
        /\ type = "READ" => conn[s].state # "WRITING_RESPONSE"
    BY <1>3 DEF Fits
  <1>5. s \in SlotSet /\ conn[s].client \in Clients /\ conn[s].client # None /\ s # None
    BY <1>4, Constants DEF InUse, ServerInv, Buffers
  <1>6. ASSUME NEW m \in 2..Len(evs) PROVE Fits(evs[m]) /\ evs[m].ctx # s
    <2>1. m \in 1..Len(evs) /\ m # 1
      BY <1>2
    <2> QED BY <1>2, <1>3, <1>5, <2>1 DEF ServerInv, Batch
  <1> QED BY <1>1, <1>4, <1>5, <1>6

\* removeEvent() takes the connection out of both vectors, and nothing else.
LEMMA Removed ==
  ASSUME ServerInv, Serving, NEW s \in InUse, NEW m \in 1..Len(listener.contexts),
         listener.contexts[m] = s, NEW l, l = RemoveEvent(listener, s, conn[s].client)
  PROVE  Without(l, s)
  <1>1. PICK H, C : H = listener.handle /\ C = listener.contexts
    OBVIOUS
  <1>2. /\ H \in Seq([fd : Clients \cup {Server}, events : Interests])
        /\ C \in Seq(SlotSet \cup {Server}) /\ Len(C) = Len(H)
        /\ \A j, k \in 1..Len(C) : C[j] = C[k] => j = k
        /\ listener.serverSocket = Server /\ listener \in Listeners
    BY <1>1 DEF ServerInv, TypeOK, InStep, Listeners
  <1>3. m \in 1..Len(C) /\ m \in 1..Len(H) /\ C[m] = s
    BY <1>1, <1>2
  <1>4. (\A j, k \in 1..Len(H) : H[j].fd = H[k].fd => j = k) /\ H[m].fd = conn[s].client
    <2>1. s # Server
      BY Constants DEF InUse
    <2> QED BY <1>1, <1>3, <2>1, DescriptorOnce
  <1>5. EraseFd(H, conn[s].client) = RemoveAt(H, m)
    BY <1>2, <1>3, <1>4, EraseFdAt
  <1>6. RemoveFirst(C, s) = RemoveAt(C, m)
    BY <1>2, <1>3, RemoveFirstAt
  <1>7. PICK a, b : a = RemoveAt(C, m) /\ b = RemoveAt(H, m)
    OBVIOUS
  <1>8. l.contexts = a /\ l.handle = b /\ l.serverSocket = Server
        /\ l = [handle |-> b, contexts |-> a, serverSocket |-> Server]
    <2>1. l = [listener EXCEPT !.handle = EraseFd(H, conn[s].client), !.contexts = RemoveFirst(C, s)]
      BY <1>1 DEF RemoveEvent
    <2> QED BY <1>2, <1>5, <1>6, <1>7, <2>1 DEF Listeners
  <1>9. /\ a \in Seq(SlotSet \cup {Server}) /\ b \in Seq([fd : Clients \cup {Server}, events : Interests])
        /\ Len(a) = Len(b)
        /\ \A j \in 1..Len(a) : \E k \in 1..Len(C) : k # m /\ a[j] = C[k] /\ b[j] = H[k]
        /\ \A k \in 1..Len(C) : k # m => \E j \in 1..Len(a) : a[j] = C[k]
        /\ \A j, k \in 1..Len(a) : a[j] = a[k] => j = k
    <2>1. ErasedInStep(C, H, m)
      BY <1>2, <1>3, EraseInStep
    <2>2. a \in Seq(SlotSet \cup {Server}) /\ b \in Seq([fd : Clients \cup {Server}, events : Interests])
      BY <1>2, <1>3, <1>7, RemoveAtProperties
    <2> QED BY <1>2, <1>7, <2>1, <2>2, Zenon DEF ErasedInStep
  <1>10. \A j \in 1..Len(a) : \E k \in 1..Len(C) : a[j] # s /\ a[j] = C[k] /\ b[j] = H[k]
    BY <1>2, <1>3, <1>9, SMTT(30)
  <1>11. \A k \in 1..Len(C) : C[k] # s => \E j \in 1..Len(a) : a[j] = C[k]
    BY <1>3, <1>9
  <1>12. l \in Listeners
    BY <1>8, <1>9 DEF Listeners
  <1> QED BY <1>1, <1>8, <1>9, <1>10, <1>11, <1>12 DEF Without

\* addEvent() appends to both vectors.
LEMMA Appended ==
  ASSUME NEW l \in Listeners, Len(l.contexts) = Len(l.handle), NEW s \in SlotSet, NEW c \in Clients,
         NEW type \in {"READ", "WRITE"}, NEW a, a = AddEvent(l, s, c, type)
  PROVE  Extended(a, l, s, [fd |-> c, events |-> type])
  <1>0. PICK n : n = Len(l.contexts) + 1
    OBVIOUS
  <1>1. EventsOf(type) = type
    <2>1. CASE type = "READ"
      BY <2>1, Zenon DEF EventsOf
    <2>2. CASE type = "WRITE"
      BY <2>2, Zenon DEF EventsOf
    <2> QED BY <2>1, <2>2
  <1>2. PICK h : h = [fd |-> c, events |-> type]
    OBVIOUS
  <1>3. a = [handle |-> Append(l.handle, h), contexts |-> Append(l.contexts, s),
             serverSocket |-> l.serverSocket]
    <2>1. type # "ACCEPT"
      OBVIOUS
    <2> QED BY <1>1, <1>2, <2>1, Zenon DEF AddEvent
  <1>4. h \in [fd : Clients \cup {Server}, events : Interests]
    BY <1>2 DEF Interests
  <1>5. PICK H, C : H = l.handle /\ C = l.contexts
    OBVIOUS
  <1>6. /\ H \in Seq([fd : Clients \cup {Server}, events : Interests])
        /\ C \in Seq(SlotSet \cup {Server}) /\ l.serverSocket \in {None, Server} /\ Len(H) = Len(C)
    BY <1>5 DEF Listeners
  <1>7. /\ Append(H, h) \in Seq([fd : Clients \cup {Server}, events : Interests])
        /\ Len(Append(H, h)) = n /\ Append(H, h)[n] = h
        /\ \A j \in 1..Len(C) : Append(H, h)[j] = H[j]
    BY <1>0, <1>4, <1>5, <1>6, AppendProperties
  <1>8. /\ Append(C, s) \in Seq(SlotSet \cup {Server}) /\ n \in Nat
        /\ Len(Append(C, s)) = n /\ Append(C, s)[n] = s
        /\ \A j \in 1..Len(C) : Append(C, s)[j] = C[j]
    BY <1>0, <1>5, <1>6, AppendProperties
  <1>9. /\ \A j \in 1..n : j # n => j \in 1..Len(C)
        /\ \A j \in 1..Len(C) : j \in 1..n /\ j # n
        /\ n \in 1..n
    BY <1>0, <1>5, <1>6
  <1>10. a.handle = Append(H, h) /\ a.contexts = Append(C, s) /\ a.serverSocket = l.serverSocket
    BY <1>3, <1>5
  <1>11. a \in Listeners
    BY <1>3, <1>5, <1>6, <1>7, <1>8 DEF Listeners
  <1> QED BY <1>2, <1>5, <1>7, <1>8, <1>9, <1>10, <1>11 DEF Extended

\* modifyEvent() leaves the connection registered, once, for the new event.
LEMMA Modified ==
  ASSUME ServerInv, Serving, NEW s \in InUse, NEW m \in 1..Len(listener.contexts),
         listener.contexts[m] = s, NEW type \in {"READ", "WRITE"},
         NEW l, l = ModifyEvent(listener, s, conn[s].client, type)
  PROVE  With(l, s, [fd |-> conn[s].client, events |-> type])
  <1>1. PICK r, c : r = RemoveEvent(listener, s, conn[s].client) /\ c = conn[s].client
    OBVIOUS
  <1>a. Without(r, s)
    BY <1>1, Removed
  <1>2. /\ r \in Listeners /\ Len(r.contexts) = Len(r.handle) /\ r.serverSocket = Server
        /\ \A j \in 1..Len(r.contexts) : \E k \in 1..Len(listener.contexts) :
             /\ r.contexts[j] # s /\ r.contexts[j] = listener.contexts[k]
             /\ r.handle[j] = listener.handle[k]
        /\ \A k \in 1..Len(listener.contexts) : listener.contexts[k] # s =>
             \E j \in 1..Len(r.contexts) : r.contexts[j] = listener.contexts[k]
        /\ \A j, k \in 1..Len(r.contexts) : r.contexts[j] = r.contexts[k] => j = k
    BY <1>a DEF Without
  <1>3. s \in SlotSet /\ c \in Clients
    BY <1>1 DEF InUse, ServerInv, Buffers
  <1>4. l = AddEvent(r, s, c, type)
    BY <1>1 DEF ModifyEvent
  <1>b. Extended(l, r, s, [fd |-> c, events |-> type])
    BY <1>2, <1>3, <1>4, Appended
  <1>5. PICK n \in Nat :
        /\ l \in Listeners /\ l.serverSocket = r.serverSocket
        /\ n \in 1..n /\ Len(l.contexts) = n /\ Len(l.handle) = n
        /\ l.contexts[n] = s /\ l.handle[n] = [fd |-> c, events |-> type]
        /\ \A j \in 1..n : j # n =>
             /\ j \in 1..Len(r.contexts) /\ l.contexts[j] = r.contexts[j] /\ l.handle[j] = r.handle[j]
        /\ \A j \in 1..Len(r.contexts) : j \in 1..n /\ j # n
    BY <1>b DEF Extended
  <1>7. ASSUME NEW j \in 1..n
        PROVE  \/ l.contexts[j] = s /\ l.handle[j] = [fd |-> c, events |-> type]
               \/ \E k \in 1..Len(listener.contexts) :
                    /\ l.contexts[j] # s /\ l.contexts[j] = listener.contexts[k]
                    /\ l.handle[j] = listener.handle[k]
    <2>1. CASE j = n
      BY <1>5, <2>1
    <2>2. CASE j # n
      <3>1. j \in 1..Len(r.contexts) /\ l.contexts[j] = r.contexts[j] /\ l.handle[j] = r.handle[j]
        BY <1>5, <2>2
      <3>2. PICK k \in 1..Len(listener.contexts) : /\ r.contexts[j] # s /\ r.contexts[j] = listener.contexts[k]
                                                   /\ r.handle[j] = listener.handle[k]
        BY <1>2, <3>1
      <3> QED BY <3>1, <3>2
    <2> QED BY <2>1, <2>2
  <1>8. ASSUME NEW k \in 1..Len(listener.contexts)
        PROVE  \E j \in 1..n : l.contexts[j] = listener.contexts[k]
    <2>1. CASE listener.contexts[k] = s
      BY <1>5, <2>1
    <2>2. CASE listener.contexts[k] # s
      <3>1. PICK j \in 1..Len(r.contexts) : r.contexts[j] = listener.contexts[k]
        BY <1>2, <2>2
      <3>2. j \in 1..n /\ j # n
        BY <1>5
      <3>3. l.contexts[j] = r.contexts[j]
        BY <1>5, <3>2
      <3> QED BY <3>1, <3>2, <3>3
    <2> QED BY <2>1, <2>2
  <1>9. ASSUME NEW j \in 1..n, NEW k \in 1..n, l.contexts[j] = l.contexts[k] PROVE j = k
    <2>1. \A i \in 1..n : i # n => /\ i \in 1..Len(r.contexts) /\ l.contexts[i] = r.contexts[i]
                                   /\ l.contexts[i] # s
      BY <1>2, <1>5
    <2>2. CASE j = n \/ k = n
      BY <1>5, <1>9, <2>1, <2>2
    <2>3. CASE j # n /\ k # n
      <3>1. /\ j \in 1..Len(r.contexts) /\ k \in 1..Len(r.contexts)
            /\ r.contexts[j] = r.contexts[k]
        BY <1>9, <2>1, <2>3
      <3> QED BY <1>2, <3>1
    <2> QED BY <2>2, <2>3
  <1>10. l \in Listeners /\ Len(l.contexts) = n /\ Len(l.handle) = n /\ l.serverSocket = Server
    BY <1>2, <1>5
  <1>11. \E j \in 1..n : l.contexts[j] = s
    BY <1>5
  <1> QED BY <1>1, <1>7, <1>8, <1>9, <1>10, <1>11 DEF With

------------------------------------------------------------------------------
(* Accepting and disconnecting *)

\* A registration that follows the change of one connection keeps the vectors
\* in step, and the events for the others valid.
LEMMA Rewired ==
  ASSUME ServerInv, Serving, NEW s \in SlotSet, NEW l, NEW h, With(l, s, h), listener' = l,
         h.fd = conn'[s].client,
         h.events = IF conn'[s].state = "WRITING_RESPONSE" THEN "WRITE" ELSE "READ",
         InUse' = InUse \cup {s}, \A t \in SlotSet : t # s => conn'[t] = conn[t], opens' = opens
  PROVE  /\ InStep'
         /\ \A e : Fits(e) /\ (e.type \in {"READ", "WRITE", "DISCONNECTED"} => e.ctx # s) => Fits(e)'
  <1>1. /\ l \in Listeners /\ Len(l.contexts) = Len(l.handle) /\ l.serverSocket = Server
        /\ \A j \in 1..Len(l.contexts) :
             \/ l.contexts[j] = s /\ l.handle[j] = h
             \/ \E k \in 1..Len(listener.contexts) :
                  /\ l.contexts[j] # s /\ l.contexts[j] = listener.contexts[k]
                  /\ l.handle[j] = listener.handle[k]
        /\ \A k \in 1..Len(listener.contexts) :
             \E j \in 1..Len(l.contexts) : l.contexts[j] = listener.contexts[k]
        /\ \E j \in 1..Len(l.contexts) : l.contexts[j] = s
        /\ \A j, k \in 1..Len(l.contexts) : l.contexts[j] = l.contexts[k] => j = k
    BY DEF With
  <1>2. /\ \A m \in 1..Len(listener.contexts) : Entry(listener.contexts[m], listener.handle[m])
        /\ opens = 1 => \A t \in InUse : \E m \in 1..Len(listener.contexts) : listener.contexts[m] = t
    BY DEF ServerInv, InStep
  <1>3. ASSUME NEW t, NEW g, t # s, Entry(t, g) PROVE Entry(t, g)'
    <2>1. InUse \subseteq SlotSet
      BY DEF InUse
    <2> QED BY <1>3, <2>1 DEF Entry
  <1>4. Entry(s, h)'
    BY DEF Entry
  <1>5. ASSUME NEW j \in 1..Len(l.contexts) PROVE Entry(l.contexts[j], l.handle[j])'
    <2>1. CASE l.contexts[j] = s /\ l.handle[j] = h
      BY <1>4, <2>1
    <2>2. CASE \E k \in 1..Len(listener.contexts) :
                  /\ l.contexts[j] # s /\ l.contexts[j] = listener.contexts[k]
                  /\ l.handle[j] = listener.handle[k]
      <3>1. PICK t, g : t = l.contexts[j] /\ g = l.handle[j]
        OBVIOUS
      <3>2. t # s /\ Entry(t, g)
        BY <1>2, <2>2, <3>1
      <3>3. Entry(t, g)'
        BY <1>3, <3>2
      <3> QED BY <3>1, <3>3
    <2> QED BY <1>1, <2>1, <2>2
  <1>6. ASSUME opens' = 1, NEW t \in InUse' PROVE \E m \in 1..Len(l.contexts) : l.contexts[m] = t
    <2>1. CASE t = s
      BY <1>1, <2>1
    <2>2. CASE t # s
      <3>1. PICK k \in 1..Len(listener.contexts) : listener.contexts[k] = t
        BY <1>2, <1>6, <2>2
      <3>2. PICK j \in 1..Len(l.contexts) : l.contexts[j] = listener.contexts[k]
        BY <1>1
      <3> QED BY <3>1, <3>2
    <2> QED BY <2>1, <2>2
  <1>7. InStep'
    <2>1. /\ Len(l.contexts) = Len(l.handle) /\ l.serverSocket = Server
          /\ \A j, k \in 1..Len(l.contexts) : l.contexts[j] = l.contexts[k] => j = k
      BY <1>1
    <2> QED BY <1>5, <1>6, <2>1 DEF InStep
  <1>8. ASSUME NEW e, Fits(e), e.type \in {"READ", "WRITE", "DISCONNECTED"} => e.ctx # s PROVE Fits(e)'
    <2>1. CASE e.type \in {"READ", "WRITE", "DISCONNECTED"}
      <3>1. /\ e.ctx \in InUse /\ e.ctx \in SlotSet /\ e.ctx # s
            /\ \E m \in 1..Len(listener.contexts) : listener.contexts[m] = e.ctx
        BY <1>8, <2>1 DEF Fits, InUse
      <3>2. \E m \in 1..Len(l.contexts) : l.contexts[m] = e.ctx
        BY <1>1, <3>1
      <3>3. conn'[e.ctx] = conn[e.ctx] /\ e.ctx \in InUse'
        BY <3>1
      <3> QED BY <1>8, <3>2, <3>3 DEF Fits
    <2>2. CASE e.type \notin {"READ", "WRITE", "DISCONNECTED"}
      BY <2>2 DEF Fits
    <2> QED BY <2>1, <2>2
  <1> QED BY <1>7, <1>8

\* Taking the first object from the queue of free ones, and giving one back.
LEMMA QueueFront ==
  ASSUME NEW S, NEW q \in Seq(S), q # <<>>, IsInjective(q)
  PROVE  /\ Head(q) \in Range(q) /\ Head(q) \in S
         /\ Tail(q) \in Seq(S) /\ IsInjective(Tail(q)) /\ Range(Tail(q)) = Range(q) \ {Head(q)}
  <1>1. PICK t : t = Tail(q)
    OBVIOUS
  <1>2. /\ t \in Seq(S) /\ Len(t) = Len(q) - 1 /\ Len(q) \in Nat /\ Len(q) > 0 /\ Head(q) = q[1]
        /\ DOMAIN t = 1..Len(t) /\ DOMAIN q = 1..Len(q)
        /\ \A i \in 1..Len(t) : t[i] = q[i + 1]
    BY <1>1
  <1>3. \A i, j \in 1..Len(q) : q[i] = q[j] => i = j
    BY <1>2 DEF IsInjective
  <1>4. IsInjective(t)
    <2>1. ASSUME NEW i \in 1..Len(t), NEW j \in 1..Len(t), t[i] = t[j] PROVE i = j
      <3>1. i + 1 \in 1..Len(q) /\ j + 1 \in 1..Len(q) /\ q[i + 1] = q[j + 1]
        BY <1>2, <2>1
      <3>2. i + 1 = j + 1
        BY <1>3, <3>1
      <3> QED BY <3>2
    <2> QED BY <1>2, <2>1 DEF IsInjective
  <1>5. ASSUME NEW x \in Range(t) PROVE x \in Range(q) \ {q[1]}
    <2>1. PICK i \in 1..Len(t) : x = t[i]
      BY <1>2 DEF Range
    <2>2. i + 1 \in 1..Len(q) /\ x = q[i + 1] /\ i + 1 # 1 /\ 1 \in 1..Len(q)
      BY <1>2, <2>1
    <2>3. x # q[1]
      BY <1>3, <2>2
    <2> QED BY <1>2, <2>2, <2>3 DEF Range
  <1>6. ASSUME NEW x \in Range(q) \ {q[1]} PROVE x \in Range(t)
    <2>1. PICK i \in 1..Len(q) : x = q[i] /\ i # 1
      BY <1>2 DEF Range
    <2>2. i - 1 \in 1..Len(t) /\ (i - 1) + 1 = i
      BY <1>2, <2>1
    <2>3. t[i - 1] = x
      BY <1>2, <2>1, <2>2
    <2> QED BY <1>2, <2>2, <2>3 DEF Range
  <1>7. q[1] \in Range(q) /\ q[1] \in S
    BY <1>2 DEF Range
  <1> QED BY <1>1, <1>2, <1>4, <1>5, <1>6, <1>7

\* Giving an object back.
LEMMA QueueBack ==
  ASSUME NEW S, NEW q \in Seq(S), NEW x \in S, x \notin Range(q), IsInjective(q)
  PROVE  /\ Append(q, x) \in Seq(S) /\ IsInjective(Append(q, x))
         /\ Range(Append(q, x)) = Range(q) \cup {x}
  <1>1. PICK t : t = Append(q, x)
    OBVIOUS
  <1>2. /\ t \in Seq(S) /\ Len(t) = Len(q) + 1 /\ Len(q) \in Nat /\ t[Len(q) + 1] = x
        /\ DOMAIN t = 1..Len(t) /\ DOMAIN q = 1..Len(q)
        /\ \A i \in 1..Len(q) : t[i] = q[i]
    BY <1>1, AppendProperties
  <1>3. \A i \in 1..Len(q) : q[i] # x
    BY <1>2 DEF Range
  <1>4. \A i \in 1..Len(t) : i \in 1..Len(q) \/ i = Len(q) + 1
    BY <1>2
  <1>5. ASSUME NEW i \in 1..Len(t), NEW j \in 1..Len(t), t[i] = t[j] PROVE i = j
    <2>1. \A a, b \in 1..Len(q) : q[a] = q[b] => a = b
      BY <1>2 DEF IsInjective
    <2> QED BY <1>2, <1>3, <1>4, <1>5, <2>1
  <1>6. IsInjective(t)
    BY <1>2, <1>5 DEF IsInjective
  <1>7. Range(t) = Range(q) \cup {x}
    <2>1. Len(q) + 1 \in 1..Len(t) /\ \A i \in 1..Len(q) : i \in 1..Len(t)
      BY <1>2
    <2> QED BY <1>2, <1>4, <2>1 DEF Range
  <1> QED BY <1>1, <1>2, <1>6, <1>7

\* A connection as constructed.
LEMMA NewIsSound ==
  /\ \A c \in Clients : /\ NewConnection(c) \in ConnectionType /\ Sound(NewConnection(c))
                        /\ NewConnection(c).client = c /\ NewConnection(c).state = "READING_HEADER"
  /\ Sound(NoConnection)
  <1>1. <<>> \in Seq([client : Clients, req : Nat, pos : Nat]) /\ <<>> \in Seq(Units) /\ Len(<<>>) = 0
    BY EmptySeq
  <1>2. HeaderSize \in Nat /\ HeaderSize > 0
    BY Constants
  <1>3. ASSUME NEW c PROVE /\ NewConnection(c).client = c /\ NewConnection(c).state = "READING_HEADER"
                           /\ NewConnection(c).hdr = <<>> /\ NewConnection(c).pay = <<>>
                           /\ NewConnection(c).resp = <<>> /\ NewConnection(c).out = 0
    BY DEF NewConnection
  <1>a. Len(<<>>) < HeaderSize /\ 0 <= Len(<<>>)
    BY <1>2
  <1>4. ASSUME NEW c PROVE Sound(NewConnection(c))
    BY <1>1, <1>3, <1>a, Zenon DEF Sound
  <1>5. ASSUME NEW c \in Clients PROVE NewConnection(c) \in ConnectionType
    BY <1>1 DEF NewConnection, ConnectionType
  <1> QED BY <1>3, <1>4, <1>5 DEF NoConnection

\* When no object is free the server holds a connection for each of them.
LEMMA PoolFull ==
  ASSUME ServerInv, avail = <<>>
  PROVE  Cardinality(Held) >= Len(Slots) /\ IsFiniteSet(Held) /\ Cardinality(Held) \in Nat
  <1>1. /\ InUse = SlotSet
        /\ \A s, t \in SlotSet : conn[s].client = conn[t].client => s = t
        /\ \A s \in SlotSet : conn[s].client \in Held
    <2>1. Range(avail) = {}
      BY DEF Range
    <2>2. Range(avail) = SlotSet \ InUse /\ InUse \subseteq SlotSet
      BY DEF ServerInv, Pool, InUse
    <2>3. InUse = SlotSet
      BY <2>1, <2>2
    <2> QED BY <2>3 DEF ServerInv, Pool
  <1>2. IsFiniteSet(Held)
    <2>1. Held \in SUBSET accepted /\ IsFiniteSet(accepted)
      BY DEF Held, ServerInv, Exhausted
    <2> QED BY <2>1, FS_Subset
  <1>3. PICK f : f = [i \in 1..Len(Slots) |-> conn[Slots[i]].client]
    OBVIOUS
  <1>4. /\ \A i \in 1..Len(Slots) : Slots[i] \in SlotSet
        /\ \A i, j \in 1..Len(Slots) : Slots[i] = Slots[j] => i = j
        /\ Len(Slots) \in Nat
    <2>1. Slots \in Seq(SlotSet) /\ IsInjective(Slots)
      BY Constants, SlotsAssumption
    <2>2. DOMAIN Slots = 1..Len(Slots) /\ Len(Slots) \in Nat
      BY <2>1
    <2> QED BY <2>1, <2>2 DEF IsInjective
  <1>5. PICK T : T = Held
    OBVIOUS
  <1>6. f \in Injection(1..Len(Slots), T)
    <2>1. f \in [1..Len(Slots) -> T]
      BY <1>1, <1>3, <1>4, <1>5
    <2>2. DOMAIN f = 1..Len(Slots) /\ \A i, j \in 1..Len(Slots) : f[i] = f[j] => i = j
      BY <1>1, <1>3, <1>4
    <2> QED BY <2>1, <2>2, Zenon DEF Injection, IsInjective
  <1>7. Cardinality(1..Len(Slots)) <= Cardinality(T)
    BY <1>2, <1>5, <1>6, FS_Injection
  <1>8. Cardinality(1..Len(Slots)) = Len(Slots)
    <2>1. PICK n \in Nat : n = Len(Slots)
      BY <1>4
    <2>2. 1 \in Int /\ n \in Int
      OBVIOUS
    <2>3. Cardinality(1..n) = IF 1 > n THEN 0 ELSE n - 1 + 1
      BY <2>2, FS_Interval, Zenon
    <2> QED BY <2>1, <2>3
  <1>9. Cardinality(T) \in Nat
    BY <1>2, <1>5, FS_CardinalityType
  <1> QED BY <1>2, <1>4, <1>5, <1>7, <1>8, <1>9

\* accept() for the connection c, with a free object and without.
LEMMA AcceptStep ==
  ASSUME ServerInv, RunAccept
  PROVE  ServerInv'
  <1>1. PICK c \in Queued :
          /\ accepted' = accepted \cup {c}
          /\ \/ /\ Acquire(c)
                /\ listener' = AddEvent(listener, Head(avail), c, "READ")
                /\ rpc' = rpc
             \/ /\ avail = <<>>
                /\ rpc' = "crashed"
                /\ UNCHANGED <<conn, listener, avail>>
    BY DEF RunAccept
  <1>2. /\ UNCHANGED <<running, opc, opens, listening, peer, inbox, inflight, next, processed, replied>>
        /\ rpc = "dispatch" /\ evs # <<>> /\ evs' = Tail(evs)
    BY DEF RunAccept, Dispatching, srvVars, histVars
  <1>3. c \in Clients /\ c \notin accepted /\ peer[c] # "closed"
    BY DEF Queued
  <1>4. Held' = Held \cup {c} /\ c \notin Held
    BY <1>1, <1>2, <1>3 DEF Held
  <1>5. Serving /\ IsFiniteSet(accepted')
    <2>1. IsFiniteSet(accepted)
      BY DEF ServerInv, Exhausted
    <2> QED BY <1>1, <1>2, <2>1, FS_AddElement DEF Serving
  <1>6. \A m \in 2..Len(evs) : Fits(evs[m])
    BY DEF ServerInv, Batch, TypeOK
  <1>7. accepted' \subseteq Clients
    BY <1>1, <1>3 DEF ServerInv, TypeOK
  <1>8. CASE /\ avail = <<>> /\ rpc' = "crashed" /\ UNCHANGED <<conn, listener, avail>>
    <2>1. Buffers' /\ Pool' /\ InUse' = InUse
      BY <1>2, <1>4, <1>8, Kept DEF ServerInv
    <2>2. InStep'
      BY <1>8 DEF InStep, Serving
    <2>3. \A e : (\E m \in 2..Len(evs) : e = evs[m]) => Fits(e)'
      BY <1>6, <1>8, <2>1 DEF Fits
    <2>4. /\ Batch'
          /\ evs' \in Seq([type : {"NONE", "ACCEPT", "READ", "WRITE", "DISCONNECTED"},
                           ctx : SlotSet \cup {Server, None}])
      BY <1>2, <2>3, BatchTail
    <2>5. TypeOK'
      BY <1>2, <1>7, <1>8, <2>4 DEF ServerInv, TypeOK
    <2>6. Lifecycle'
      BY <1>2, <1>8, <2>1 DEF ServerInv, Lifecycle
    <2>7. Exhausted'
      <3>1. PICK T : T = Held
        OBVIOUS
      <3>2. Cardinality(T) >= Len(Slots) /\ IsFiniteSet(T) /\ Cardinality(T) \in Nat /\ Len(Slots) \in Nat
        BY <1>8, <3>1, PoolFull, Constants
      <3>3. Cardinality(T \cup {c}) = Cardinality(T) + 1
        BY <1>4, <3>1, <3>2, FS_AddElement
      <3>4. Cardinality(T \cup {c}) > Len(Slots) /\ Held' = T \cup {c}
        BY <1>4, <3>1, <3>2, <3>3
      <3> QED BY <1>5, <3>4 DEF Exhausted
    <2> QED BY <2>1, <2>2, <2>4, <2>5, <2>6, <2>7 DEF ServerInv
  <1>9. CASE /\ Acquire(c) /\ listener' = AddEvent(listener, Head(avail), c, "READ") /\ rpc' = rpc
    <2>1. PICK s, q : s = Head(avail) /\ q = avail
      OBVIOUS
    <2>2. /\ q # <<>> /\ q \in Seq(SlotSet) /\ IsInjective(q) /\ Range(q) = SlotSet \ InUse
          /\ conn' = [conn EXCEPT ![s] = NewConnection(c)] /\ avail' = Tail(q) /\ s = Head(q)
      BY <1>9, <2>1 DEF Acquire, ServerInv, TypeOK, Pool
    <2>3. /\ s \in SlotSet /\ s \notin InUse
          /\ avail' \in Seq(SlotSet) /\ IsInjective(avail') /\ Range(avail') = Range(q) \ {s}
      BY <2>2, QueueFront
    <2>4. /\ NewConnection(c) \in ConnectionType /\ Sound(NewConnection(c))
          /\ NewConnection(c).client = c /\ NewConnection(c).state = "READING_HEADER" /\ c # None
      BY <1>3, NewIsSound, Constants
    <2>5. /\ InUse' = InUse \cup {s} /\ conn'[s] = NewConnection(c)
          /\ \A t \in SlotSet : t # s => conn'[t] = conn[t]
      BY <2>2, <2>3, <2>4, Occupied DEF ServerInv
    <2>6. PICK l, h : l = listener' /\ h = [fd |-> c, events |-> "READ"]
      OBVIOUS
    <2>7. With(l, s, h)
      <3>1. PICK o : o = listener
        OBVIOUS
      <3>2. /\ o \in Listeners /\ Len(o.contexts) = Len(o.handle) /\ o.serverSocket = Server
            /\ \A j, k \in 1..Len(o.contexts) : o.contexts[j] = o.contexts[k] => j = k
            /\ \A j \in 1..Len(o.contexts) : o.contexts[j] # s
        <4>1. \A j \in 1..Len(listener.contexts) : listener.contexts[j] = Server \/ listener.contexts[j] \in InUse
          BY <1>5 DEF ServerInv, InStep, Entry
        <4>2. s # Server
          BY <2>3, Constants
        <4>3. \A j \in 1..Len(o.contexts) : o.contexts[j] # s
          BY <2>3, <3>1, <4>1, <4>2
        <4>4. o \in Listeners
          BY <3>1 DEF ServerInv, TypeOK, Listeners
        <4>5. /\ Len(o.contexts) = Len(o.handle) /\ o.serverSocket = Server
              /\ \A j, k \in 1..Len(o.contexts) : o.contexts[j] = o.contexts[k] => j = k
          BY <1>5, <3>1 DEF ServerInv, InStep
        <4> QED BY <4>3, <4>4, <4>5
      <3>3. l = AddEvent(o, s, c, "READ")
        BY <1>9, <2>1, <2>6, <3>1
      <3>4. Extended(l, o, s, h)
        BY <1>3, <2>3, <2>6, <3>2, <3>3, Appended
      <3>5. PICK n \in Nat :
              /\ l \in Listeners /\ l.serverSocket = o.serverSocket
              /\ n \in 1..n /\ Len(l.contexts) = n /\ Len(l.handle) = n
              /\ l.contexts[n] = s /\ l.handle[n] = h
              /\ \A j \in 1..n : j # n =>
                   /\ j \in 1..Len(o.contexts) /\ l.contexts[j] = o.contexts[j] /\ l.handle[j] = o.handle[j]
              /\ \A j \in 1..Len(o.contexts) : j \in 1..n /\ j # n
        BY <3>4 DEF Extended
      <3>6. ASSUME NEW j \in 1..n
            PROVE  \/ l.contexts[j] = s /\ l.handle[j] = h
                   \/ \E k \in 1..Len(o.contexts) :
                        l.contexts[j] # s /\ l.contexts[j] = o.contexts[k] /\ l.handle[j] = o.handle[k]
        BY <3>2, <3>5
      <3>7. \A k \in 1..Len(o.contexts) : \E j \in 1..n : l.contexts[j] = o.contexts[k]
        BY <3>5
      <3>8. ASSUME NEW j \in 1..n, NEW k \in 1..n, l.contexts[j] = l.contexts[k] PROVE j = k
        BY <3>2, <3>5, <3>8
      <3>9. (\E j \in 1..n : l.contexts[j] = s) /\ l.serverSocket = Server
        BY <3>2, <3>5
      <3> QED BY <3>1, <3>5, <3>6, <3>7, <3>8, <3>9 DEF With
    <2>8. /\ InStep'
          /\ \A e : Fits(e) /\ (e.type \in {"READ", "WRITE", "DISCONNECTED"} => e.ctx # s) => Fits(e)'
      <3>1. h.fd = conn'[s].client /\ h.events = "READ" /\ conn'[s].state # "WRITING_RESPONSE"
        BY <2>4, <2>5, <2>6
      <3> QED BY <1>2, <1>5, <2>3, <2>5, <2>6, <2>7, <3>1, Rewired
    <2>9. \A e : (\E m \in 2..Len(evs) : e = evs[m]) => Fits(e)'
      BY <1>6, <2>3, <2>8 DEF Fits
    <2>10. /\ Batch'
           /\ evs' \in Seq([type : {"NONE", "ACCEPT", "READ", "WRITE", "DISCONNECTED"},
                            ctx : SlotSet \cup {Server, None}])
      BY <1>2, <2>9, BatchTail
    <2>11. TypeOK'
      <3>1. conn' \in [SlotSet -> ConnectionType]
        BY <2>2, <2>3, <2>4 DEF ServerInv, TypeOK
      <3>2. listener' \in Listeners
        BY <2>6, <2>7 DEF With
      <3> QED BY <1>2, <1>7, <1>9, <2>3, <2>10, <3>1, <3>2 DEF ServerInv, TypeOK, Listeners
    <2>12. Buffers'
      <3>1. \A t \in SlotSet : Sound(conn'[t]) /\ (t \in InUse' => conn'[t].client \in Clients)
        BY <1>3, <2>4, <2>5 DEF ServerInv, Buffers
      <3> QED BY <1>2, <3>1 DEF ServerInv, Buffers, Sound
    <2>13. Pool'
      <3>1. Range(avail') = SlotSet \ InUse'
        BY <2>2, <2>3, <2>5
      <3>2. \A t \in InUse : t # s /\ conn'[t].client = conn[t].client /\ conn[t].client \in Held
        BY <2>3, <2>5 DEF ServerInv, Pool, InUse
      <3>3. conn'[s].client = c
        BY <2>4, <2>5
      <3> QED BY <1>4, <2>3, <2>5, <3>1, <3>2, <3>3 DEF ServerInv, Pool
    <2>14. Lifecycle' /\ Exhausted'
      BY <1>2, <1>5, <1>9 DEF ServerInv, Lifecycle, Exhausted
    <2> QED BY <2>8, <2>10, <2>11, <2>12, <2>13, <2>14 DEF ServerInv
  <1> QED BY <1>1, <1>8, <1>9

\* disconnectClient(), removeEvent() and release().
LEMMA DisconnectStep ==
  ASSUME ServerInv, RunDisconnect
  PROVE  ServerInv'
  <1>1. PICK s : s = Head(evs).ctx
    OBVIOUS
  <1>2. /\ Dispatching("DISCONNECTED") /\ evs' = Tail(evs)
        /\ peer' = [peer EXCEPT ![conn[s].client] = "closed"]
        /\ listener' = RemoveEvent(listener, s, conn[s].client)
        /\ conn' = [conn EXCEPT ![s] = NoConnection] /\ avail' = Append(avail, s)
        /\ UNCHANGED <<running, opc, opens, listening, rpc, accepted, inbox, inflight, next,
                       processed, replied>>
    BY <1>1 DEF RunDisconnect, DisconnectClient, Release, srvVars, histVars
  <1>3. /\ Serving /\ rpc = "dispatch" /\ evs # <<>>
        /\ s \in InUse /\ s \in SlotSet /\ conn[s].client \in Clients
        /\ \E m \in 1..Len(listener.contexts) : listener.contexts[m] = s
        /\ \A e : (\E m \in 2..Len(evs) : e = evs[m]) => Fits(e) /\ e.ctx # s
    BY <1>1, <1>2, FrontEvent
  <1>4. /\ InUse' = InUse \ {s} /\ conn'[s] = NoConnection
        /\ \A t \in SlotSet : t # s => conn'[t] = conn[t]
    BY <1>2, <1>3, Vacated DEF ServerInv
  <1>5. PICK l : l = listener'
    OBVIOUS
  <1>6. Without(l, s)
    <2>1. PICK m \in 1..Len(listener.contexts) : listener.contexts[m] = s
      BY <1>3
    <2>2. l = RemoveEvent(listener, s, conn[s].client)
      BY <1>2, <1>5
    <2> QED BY <1>3, <2>1, <2>2, Removed
  <1>7. /\ l \in Listeners /\ Len(l.contexts) = Len(l.handle) /\ l.serverSocket = Server
        /\ \A j \in 1..Len(l.contexts) : \E k \in 1..Len(listener.contexts) :
             /\ l.contexts[j] # s /\ l.contexts[j] = listener.contexts[k]
             /\ l.handle[j] = listener.handle[k]
        /\ \A k \in 1..Len(listener.contexts) : listener.contexts[k] # s =>
             \E j \in 1..Len(l.contexts) : l.contexts[j] = listener.contexts[k]
        /\ \A j, k \in 1..Len(l.contexts) : l.contexts[j] = l.contexts[k] => j = k
    BY <1>6 DEF Without
  <1>8. InUse \subseteq SlotSet
    BY DEF InUse
  <1>9. InStep'
    <2>1. /\ \A m \in 1..Len(listener.contexts) : Entry(listener.contexts[m], listener.handle[m])
          /\ opens = 1 => \A t \in InUse : \E m \in 1..Len(listener.contexts) : listener.contexts[m] = t
      BY <1>3 DEF ServerInv, InStep
    <2>2. ASSUME NEW t, NEW g, t # s, Entry(t, g) PROVE Entry(t, g)'
      BY <1>4, <1>8, <2>2 DEF Entry
    <2>3. ASSUME NEW j \in 1..Len(l.contexts) PROVE Entry(l.contexts[j], l.handle[j])'
      <3>1. PICK t, g : t = l.contexts[j] /\ g = l.handle[j]
        OBVIOUS
      <3>2. t # s /\ Entry(t, g)
        BY <1>7, <2>1, <3>1
      <3>3. Entry(t, g)'
        BY <2>2, <3>2
      <3> QED BY <3>1, <3>3
    <2>4. ASSUME opens' = 1, NEW t \in InUse' PROVE \E j \in 1..Len(l.contexts) : l.contexts[j] = t
      <3>1. PICK k \in 1..Len(listener.contexts) : listener.contexts[k] = t
        BY <1>2, <1>4, <2>1, <2>4
      <3> QED BY <1>4, <1>7, <3>1
    <2>5. /\ Len(l.contexts) = Len(l.handle) /\ l.serverSocket = Server
          /\ \A j, k \in 1..Len(l.contexts) : l.contexts[j] = l.contexts[k] => j = k
      BY <1>7
    <2> QED BY <1>5, <2>3, <2>4, <2>5 DEF InStep
  <1>10. ASSUME NEW e, Fits(e), e.ctx # s PROVE Fits(e)'
    <2>1. CASE e.type \in {"READ", "WRITE", "DISCONNECTED"}
      <3>1. /\ e.ctx \in InUse /\ e.ctx \in SlotSet
            /\ \E m \in 1..Len(listener.contexts) : listener.contexts[m] = e.ctx
        BY <1>8, <1>10, <2>1 DEF Fits
      <3>2. \E m \in 1..Len(listener'.contexts) : listener'.contexts[m] = e.ctx
        BY <1>5, <1>7, <1>10, <3>1
      <3>3. conn'[e.ctx] = conn[e.ctx] /\ e.ctx \in InUse'
        BY <1>4, <1>10, <3>1
      <3> QED BY <1>10, <3>2, <3>3 DEF Fits
    <2>2. CASE e.type \notin {"READ", "WRITE", "DISCONNECTED"}
      BY <2>2 DEF Fits
    <2> QED BY <2>1, <2>2
  <1>11. /\ Batch'
         /\ evs' \in Seq([type : {"NONE", "ACCEPT", "READ", "WRITE", "DISCONNECTED"},
                          ctx : SlotSet \cup {Server, None}])
    BY <1>2, <1>3, <1>10, BatchTail
  <1>12. /\ avail' \in Seq(SlotSet) /\ IsInjective(avail') /\ Range(avail') = Range(avail) \cup {s}
    <2>1. PICK q : q = avail
      OBVIOUS
    <2>2. q \in Seq(SlotSet) /\ IsInjective(q) /\ s \notin Range(q)
      BY <1>3, <2>1 DEF ServerInv, TypeOK, Pool
    <2> QED BY <1>2, <1>3, <2>1, <2>2, QueueBack
  <1>13. TypeOK'
    <2>1. conn' \in [SlotSet -> ConnectionType]
      BY <1>2, <1>3, NoConnectionFields DEF ServerInv, TypeOK
    <2>2. peer' \in [Clients -> {"none", "up", "fin", "reset", "refused", "closed"}]
      BY <1>2, <1>3 DEF ServerInv, TypeOK
    <2> QED BY <1>2, <1>5, <1>7, <1>11, <1>12, <2>1, <2>2 DEF ServerInv, TypeOK, Listeners
  <1>14. Buffers'
    <2>1. \A t \in SlotSet : Sound(conn'[t]) /\ (t \in InUse' => conn'[t].client \in Clients)
      BY <1>4, NewIsSound DEF ServerInv, Buffers
    <2> QED BY <1>2, <2>1 DEF ServerInv, Buffers, Sound
  <1>15. Held' = Held \ {conn[s].client}
    BY <1>2, <1>3 DEF Held, ServerInv, TypeOK
  <1>16. Pool'
    <2>1. Range(avail') = SlotSet \ InUse'
      BY <1>3, <1>4, <1>12 DEF ServerInv, Pool
    <2>2. \A t \in InUse' : /\ t \in InUse /\ conn'[t].client = conn[t].client
                            /\ conn[t].client # conn[s].client /\ conn[t].client \in Held
      BY <1>3, <1>4, <1>8 DEF ServerInv, Pool
    <2> QED BY <1>12, <1>15, <2>1, <2>2 DEF ServerInv, Pool
  <1>17. Lifecycle' /\ Exhausted'
    BY <1>2, <1>3 DEF ServerInv, Lifecycle, Exhausted
  <1> QED BY <1>9, <1>11, <1>13, <1>14, <1>16, <1>17 DEF ServerInv

------------------------------------------------------------------------------
(* Reading and writing *)

\* A connection that goes on reading, or writing, stays registered as it is.
LEMMA StaysRegistered ==
  ASSUME ServerInv, Serving, NEW s \in InUse, NEW m \in 1..Len(listener.contexts),
         listener.contexts[m] = s
  PROVE  With(listener, s, listener.handle[m])
  <1>1. /\ listener \in Listeners /\ Len(listener.contexts) = Len(listener.handle)
        /\ listener.serverSocket = Server
        /\ \A j, k \in 1..Len(listener.contexts) : listener.contexts[j] = listener.contexts[k] => j = k
    BY DEF ServerInv, InStep, TypeOK, Listeners
  <1> QED BY <1>1 DEF With

\* A READ or WRITE event turns its connection into k and registers what k waits
\* for.
LEMMA ConnectionStep ==
  ASSUME ServerInv, NEW type \in {"READ", "WRITE"}, Dispatching(type), evs' = Tail(evs),
         NEW s, s = Head(evs).ctx,
         NEW k \in ConnectionType, Sound(k), k.client = conn[s].client, conn' = [conn EXCEPT ![s] = k],
         \/ listener' = listener /\ (k.state = "WRITING_RESPONSE" <=> conn[s].state = "WRITING_RESPONSE")
         \/ /\ listener' = ModifyEvent(listener, s, conn[s].client, "WRITE")
            /\ k.state = "WRITING_RESPONSE"
         \/ /\ listener' = ModifyEvent(listener, s, conn[s].client, "READ")
            /\ k.state # "WRITING_RESPONSE",
         UNCHANGED <<running, opc, opens, listening, rpc, avail, peer, accepted, next>>,
         inbox' \in [Clients -> Seq([client : Clients, req : Nat, pos : Nat])],
         \A c \in Clients : inbox'[c] \in Seq(Units),
         inflight' \in [Clients -> 0..SendBuffer],
         processed' \in [Clients -> Seq([hdr : Seq([client : Clients, req : Nat, pos : Nat]),
                                         pay : Seq([client : Clients, req : Nat, pos : Nat])])],
         replied' \in [Clients -> Seq([client : Clients, req : Nat, pos : Nat])]
  PROVE  ServerInv'
  <1>1. /\ Serving /\ rpc = "dispatch" /\ evs # <<>>
        /\ s \in InUse /\ s \in SlotSet /\ conn[s].client \in Clients /\ conn[s].client # None
        /\ \E m \in 1..Len(listener.contexts) : listener.contexts[m] = s
        /\ \A e : (\E m \in 2..Len(evs) : e = evs[m]) => Fits(e) /\ e.ctx # s
    BY FrontEvent
  <1>2. PICK m \in 1..Len(listener.contexts) : listener.contexts[m] = s
    BY <1>1
  <1>3. /\ InUse' = InUse \cup {s} /\ conn'[s] = k
        /\ \A t \in SlotSet : t # s => conn'[t] = conn[t]
    BY <1>1, Occupied DEF ServerInv
  <1>4. InUse' = InUse
    BY <1>1, <1>3
  <1>5. PICK l : l = listener'
    OBVIOUS
  <1>6. \E h : With(l, s, h) /\ h.fd = k.client
               /\ h.events = IF k.state = "WRITING_RESPONSE" THEN "WRITE" ELSE "READ"
    <2>1. CASE listener' = listener /\ (k.state = "WRITING_RESPONSE" <=> conn[s].state = "WRITING_RESPONSE")
      <3>1. PICK h : h = listener.handle[m]
        OBVIOUS
      <3>2. With(l, s, h)
        BY <1>1, <1>2, <1>5, <2>1, <3>1, StaysRegistered
      <3>3. Entry(s, h) /\ s # Server
        BY <1>1, <1>2, <3>1, Constants DEF ServerInv, InStep
      <3> QED BY <2>1, <3>2, <3>3 DEF Entry
    <2>2. CASE /\ listener' = ModifyEvent(listener, s, conn[s].client, "WRITE")
               /\ k.state = "WRITING_RESPONSE"
      <3>1. PICK h : h = [fd |-> conn[s].client, events |-> "WRITE"]
        OBVIOUS
      <3>2. With(l, s, h)
        BY <1>1, <1>2, <1>5, <2>2, <3>1, Modified
      <3>3. h.fd = conn[s].client /\ h.events = "WRITE"
        BY <3>1
      <3> QED BY <2>2, <3>2, <3>3
    <2>3. CASE /\ listener' = ModifyEvent(listener, s, conn[s].client, "READ")
               /\ k.state # "WRITING_RESPONSE"
      <3>1. PICK h : h = [fd |-> conn[s].client, events |-> "READ"]
        OBVIOUS
      <3>2. With(l, s, h)
        BY <1>1, <1>2, <1>5, <2>3, <3>1, Modified
      <3>3. h.fd = conn[s].client /\ h.events = "READ"
        BY <3>1
      <3> QED BY <2>3, <3>2, <3>3
    <2> QED BY <2>1, <2>2, <2>3
  <1>7. PICK h : With(l, s, h) /\ h.fd = k.client
                 /\ h.events = IF k.state = "WRITING_RESPONSE" THEN "WRITE" ELSE "READ"
    BY <1>6
  <1>8. /\ InStep'
        /\ \A e : Fits(e) /\ (e.type \in {"READ", "WRITE", "DISCONNECTED"} => e.ctx # s) => Fits(e)'
    BY <1>1, <1>3, <1>5, <1>7, Rewired
  <1>9. \A e : (\E n \in 2..Len(evs) : e = evs[n]) => Fits(e)'
    BY <1>1, <1>8
  <1>10. /\ Batch'
         /\ evs' \in Seq([type : {"NONE", "ACCEPT", "READ", "WRITE", "DISCONNECTED"},
                          ctx : SlotSet \cup {Server, None}])
    BY <1>1, <1>9, BatchTail
  <1>11. TypeOK'
    <2>1. conn' \in [SlotSet -> ConnectionType]
      BY <1>1 DEF ServerInv, TypeOK
    <2>2. listener' \in Listeners
      BY <1>5, <1>7 DEF With
    <2> QED BY <1>10, <2>1, <2>2 DEF ServerInv, TypeOK, Listeners
  <1>12. Buffers'
    <2>1. \A t \in SlotSet : Sound(conn'[t]) /\ (t \in InUse' => conn'[t].client \in Clients)
      BY <1>1, <1>3, <1>4 DEF ServerInv, Buffers
    <2> QED BY <2>1 DEF ServerInv, Buffers, Sound
  <1>13. Held' = Held
    BY DEF Held
  <1>14. Pool'
    <2>1. \A t \in SlotSet : conn'[t].client = conn[t].client
      BY <1>3
    <2>2. InUse \subseteq SlotSet
      BY DEF InUse
    <2> QED BY <1>4, <1>13, <2>1, <2>2 DEF ServerInv, Pool
  <1>15. Lifecycle' /\ Exhausted'
    BY <1>1, <1>4, <1>13 DEF ServerInv, Lifecycle, Exhausted
  <1> QED BY <1>8, <1>10, <1>11, <1>12, <1>14, <1>15 DEF ServerInv

\* The smaller of two sizes.
LEMMA Smaller ==
  ASSUME NEW a \in Nat, NEW b \in Nat
  PROVE  Min({a, b}) \in Nat /\ Min({a, b}) <= a /\ Min({a, b}) <= b
  <1>1. {a, b} \in SUBSET Nat /\ {a, b} # {} /\ a \in {a, b} /\ b \in {a, b}
    OBVIOUS
  <1>2. Min({a, b}) \in {a, b} /\ \A j \in {a, b} : Min({a, b}) <= j
    BY <1>1, MinExists
  <1> QED BY <1>1, <1>2, Zenon

\* flush() leaves a connection that waits for a header.
LEMMA FlushIsSound ==
  ASSUME NEW k \in ConnectionType, k.client \in Clients
  PROVE  /\ Flush(k) \in ConnectionType /\ Sound(Flush(k)) /\ Flush(k).client = k.client
         /\ Flush(k).state = "READING_HEADER"
  <1>1. PICK n : n = NewConnection(k.client)
    OBVIOUS
  <1>2. n \in ConnectionType /\ Sound(n) /\ n.client = k.client /\ n.state = "READING_HEADER"
    BY <1>1, NewIsSound
  <1>3. Flush(k) = [n EXCEPT !.mode = k.mode]
    BY <1>1 DEF Flush
  <1>4. k.mode \in {"FAST", "SLOW", "READ_STREAM", "WRITE_STREAM"}
    BY DEF ConnectionType
  <1>5. PICK f : f = Flush(k)
    OBVIOUS
  <1>6. /\ f \in ConnectionType /\ f.client = n.client /\ f.state = n.state /\ f.hdr = n.hdr
        /\ f.pay = n.pay /\ f.need = n.need /\ f.resp = n.resp /\ f.out = n.out
    BY <1>2, <1>3, <1>4, <1>5 DEF ConnectionType
  <1> QED BY <1>2, <1>5, <1>6 DEF Sound

\* The response to a request is made of units.
LEMMA ReplyIsUnits ==
  ASSUME NEW hdr \in Seq(Units), hdr # <<>>
  PROVE  ReplyTo(hdr) \in Seq(Units)
  <1>1. hdr[1] \in Units
    OBVIOUS
  <1>2. /\ hdr[1].client \in Clients /\ hdr[1].req \in 1..Len(Requests)
    BY <1>1 DEF Units
  <1>3. Requests[hdr[1].req].response \in Nat
    BY <1>2, Constants
  <1>4. \A k \in 1..Requests[hdr[1].req].response : Unit(hdr[1].client, hdr[1].req, k) \in Units
    BY <1>2, <1>3 DEF Unit, Units
  <1> QED BY <1>3, <1>4 DEF ReplyTo

\* What runTask() makes of a connection whose request is complete.
LEMMA TaskIsSound ==
  ASSUME NEW k \in ConnectionType, k.client \in Clients, k.hdr \in Seq(Units), k.hdr # <<>>,
         k.pay \in Seq(Units), k.resp = <<>>, k.out = 0
  PROVE  RunTask(k) \in ConnectionType /\ Sound(RunTask(k)) /\ RunTask(k).client = k.client
  <1>1. k.mode \in {"FAST", "SLOW", "READ_STREAM", "WRITE_STREAM"}
    BY DEF ConnectionType
  <1>2. CASE k.mode \in {"FAST", "READ_STREAM"}
    <2>1. PICK r, t : /\ r = ReplyTo(k.hdr)
                      /\ t = [k EXCEPT !.state = "WRITING_RESPONSE", !.resp = r]
      OBVIOUS
    <2>2. RunTask(k) = t
      BY <1>2, <2>1, Zenon DEF RunTask
    <2>3. r \in Seq(Units) /\ r \in Seq([client : Clients, req : Nat, pos : Nat])
      BY <2>1, ReplyIsUnits, UnitsTyped
    <2>4. /\ t \in ConnectionType /\ t.client = k.client /\ t.state = "WRITING_RESPONSE"
          /\ t.hdr = k.hdr /\ t.pay = k.pay /\ t.resp = r /\ t.out = 0
      BY <2>1, <2>3 DEF ConnectionType
    <2>5. 0 <= Len(r)
      BY <2>3
    <2> QED BY <2>2, <2>3, <2>4, <2>5 DEF Sound
  <1>3. CASE k.mode = "SLOW"
    <2>1. PICK t : t = [k EXCEPT !.state = "WRITING_RESPONSE"]
      OBVIOUS
    <2>2. RunTask(k) = t
      BY <1>3, <2>1, Zenon DEF RunTask
    <2>3. /\ t \in ConnectionType /\ t.client = k.client /\ t.state = "WRITING_RESPONSE"
          /\ t.hdr = k.hdr /\ t.pay = k.pay /\ t.resp = <<>> /\ t.out = 0
      BY <2>1 DEF ConnectionType
    <2>4. <<>> \in Seq(Units) /\ 0 <= Len(<<>>)
      BY EmptySeq
    <2> QED BY <2>2, <2>3, <2>4 DEF Sound
  <1>4. CASE k.mode = "WRITE_STREAM"
    <2>1. RunTask(k) = Flush(k)
      BY <1>4, Zenon DEF RunTask
    <2> QED BY <2>1, FlushIsSound
  <1> QED BY <1>1, <1>2, <1>3, <1>4

\* readHeader() with units that fit: a header that is not complete, or the
\* request it announces.
LEMMA HeaderRead ==
  ASSUME NEW k \in ConnectionType, Sound(k), k.state = "READING_HEADER",
         NEW units \in Seq(Units), Len(k.hdr) + Len(units) <= HeaderSize,
         NEW n, n = ReadHeader(k, units)
  PROVE  /\ n \in ConnectionType /\ n.client = k.client /\ n.state # "WRITING_RESPONSE"
         /\ n.hdr \in Seq(Units) /\ n.pay \in Seq(Units) /\ n.resp = <<>> /\ n.out = 0
         /\ ~Complete(n) => Sound(n)
         /\ Complete(n) => n.hdr # <<>>
  <1>1. /\ k.hdr \in Seq(Units) /\ k.pay = <<>> /\ k.resp = <<>> /\ k.out = 0
        /\ <<>> \in Seq(Units) /\ HeaderSize \in Nat /\ HeaderSize > 0
    BY EmptySeq, Constants DEF Sound
  <1>2. PICK h : h = k.hdr \o units
    OBVIOUS
  <1>3. h \in Seq(Units) /\ Len(h) = Len(k.hdr) + Len(units) /\ Len(h) \in Nat /\ Len(h) <= HeaderSize
    BY <1>1, <1>2
  <1>4. h \in Seq([client : Clients, req : Nat, pos : Nat])
    BY <1>3, UnitsTyped
  <1>5. CASE Len(h) < HeaderSize
    <2>1. n = [k EXCEPT !.hdr = h]
      BY <1>2, <1>5 DEF ReadHeader
    <2>2. /\ n \in ConnectionType /\ n.client = k.client /\ n.state = "READING_HEADER"
          /\ n.hdr = h /\ n.pay = <<>> /\ n.resp = <<>> /\ n.out = 0
      BY <1>1, <1>4, <2>1 DEF ConnectionType
    <2>3. Sound(n) /\ ~Complete(n)
      BY <1>1, <1>3, <1>5, <2>2 DEF Sound, Complete
    <2> QED BY <1>1, <1>3, <2>2, <2>3
  <1>6. CASE ~(Len(h) < HeaderSize)
    <2>1. h # <<>> /\ h[1] \in Units
      BY <1>1, <1>3, <1>6
    <2>2. PICK q : q = Requests[h[1].req]
      OBVIOUS
    <2>3. q.payload \in Nat /\ q.mode \in {"FAST", "SLOW", "READ_STREAM", "WRITE_STREAM"}
      BY <2>1, <2>2, Constants DEF Units
    <2>4. n = [k EXCEPT !.hdr = h, !.state = "READING_PAYLOAD", !.need = q.payload, !.mode = q.mode]
      BY <1>2, <1>6, <2>2 DEF ReadHeader
    <2>5. /\ n \in ConnectionType /\ n.client = k.client /\ n.state = "READING_PAYLOAD"
          /\ n.hdr = h /\ n.pay = <<>> /\ n.resp = <<>> /\ n.out = 0 /\ n.need = q.payload
      BY <1>1, <1>4, <2>3, <2>4 DEF ConnectionType
    <2>6. ~Complete(n) => 0 < n.need
      BY <2>3, <2>5 DEF Complete
    <2>7. ~Complete(n) => Sound(n)
      BY <1>1, <1>3, <2>1, <2>5, <2>6 DEF Sound
    <2> QED BY <1>1, <1>3, <2>1, <2>5, <2>7
  <1> QED BY <1>5, <1>6

\* readPayload() with units that fit.
LEMMA PayloadRead ==
  ASSUME NEW k \in ConnectionType, Sound(k), k.state = "READING_PAYLOAD",
         NEW units \in Seq(Units), Len(k.pay) + Len(units) <= k.need,
         NEW n, n = ReadPayload(k, units)
  PROVE  /\ n \in ConnectionType /\ n.client = k.client /\ n.state # "WRITING_RESPONSE"
         /\ n.hdr \in Seq(Units) /\ n.pay \in Seq(Units) /\ n.resp = <<>> /\ n.out = 0
         /\ ~Complete(n) => Sound(n)
         /\ Complete(n) => n.hdr # <<>>
  <1>1. /\ k.hdr \in Seq(Units) /\ k.hdr # <<>> /\ k.pay \in Seq(Units) /\ k.resp = <<>> /\ k.out = 0
        /\ <<>> \in Seq(Units)
    BY EmptySeq DEF Sound
  <1>2. PICK p : p = k.pay \o units
    OBVIOUS
  <1>3. /\ p \in Seq(Units) /\ Len(p) \in Nat /\ Len(p) <= k.need /\ k.need \in Nat
    BY <1>1, <1>2 DEF ConnectionType
  <1>4. p \in Seq([client : Clients, req : Nat, pos : Nat])
    BY <1>3, UnitsTyped
  <1>5. n = [k EXCEPT !.pay = p]
    BY <1>2 DEF ReadPayload
  <1>6. /\ n \in ConnectionType /\ n.client = k.client /\ n.state = "READING_PAYLOAD"
        /\ n.hdr = k.hdr /\ n.pay = p /\ n.resp = <<>> /\ n.out = 0 /\ n.need = k.need
    BY <1>1, <1>4, <1>5 DEF ConnectionType
  <1>7. ~Complete(n) => Len(p) < n.need
    BY <1>3, <1>6 DEF Complete
  <1>8. ~Complete(n) => Sound(n)
    BY <1>1, <1>3, <1>6, <1>7 DEF Sound
  <1> QED BY <1>1, <1>3, <1>6, <1>8

\* What recv() takes fits the buffer it is for, and the rest stays.
LEMMA UnitsTaken ==
  ASSUME NEW c, NEW want \in Nat, inbox[c] \in Seq(Units), NEW n \in ReadSizes(c, want)
  PROVE  /\ SubSeq(inbox[c], 1, n) \in Seq(Units) /\ Len(SubSeq(inbox[c], 1, n)) <= want
         /\ SubSeq(inbox[c], n + 1, Len(inbox[c])) \in Seq(Units)
  <1>1. PICK q : q = inbox[c]
    OBVIOUS
  <1>2. q \in Seq(Units) /\ Len(q) \in Nat
    BY <1>1
  <1>3. n \in Nat /\ n <= want /\ n <= Len(q)
    <2>1. Min({want, Len(q)}) \in Nat /\ Min({want, Len(q)}) <= want /\ Min({want, Len(q)}) <= Len(q)
      BY <1>2, Smaller
    <2>2. n = Min({want, Len(q)}) \/ n = 0
      BY <1>1 DEF ReadSizes
    <2> QED BY <1>2, <2>1, <2>2
  <1>4. SubSeq(q, 1, n) \in Seq(Units) /\ Len(SubSeq(q, 1, n)) = n
    BY <1>2, <1>3
  <1>5. SubSeq(q, n + 1, Len(q)) \in Seq(Units)
    BY <1>2, <1>3
  <1> QED BY <1>1, <1>3, <1>4, <1>5

\* The case READ of run().
LEMMA ReadStep ==
  ASSUME ServerInv, RunRead
  PROVE  ServerInv'
  <1> DEFINE U == [client : Clients, req : Nat, pos : Nat]
             S == Head(evs).ctx
             C == conn[S].client
             W == IF conn[S].state = "READING_HEADER" THEN HeaderSize - Len(conn[S].hdr)
                  ELSE conn[S].need - Len(conn[S].pay)
             K(n) == IF conn[S].state = "READING_HEADER" THEN ReadHeader(conn[S], SubSeq(inbox[C], 1, n))
                     ELSE ReadPayload(conn[S], SubSeq(inbox[C], 1, n))
             After(n) == IF Complete(K(n)) THEN RunTask(K(n)) ELSE K(n)
  <1>1. PICK n \in ReadSizes(C, W) :
          /\ inbox' = [inbox EXCEPT ![C] = SubSeq(inbox[C], n + 1, Len(inbox[C]))]
          /\ processed' = IF Complete(K(n)) /\ Processes(K(n))
                          THEN [processed EXCEPT ![C] = Append(processed[C], [hdr |-> K(n).hdr, pay |-> K(n).pay])]
                          ELSE processed
          /\ conn' = [conn EXCEPT ![S] = After(n)]
          /\ listener' = IF After(n).state = "WRITING_RESPONSE"
                         THEN ModifyEvent(listener, S, C, "WRITE") ELSE listener
    BY Zenon DEF RunRead
  <1>2. PICK s, o, c, want, k, after :
          /\ s = Head(evs).ctx /\ o = conn[s] /\ c = o.client
          /\ want = IF o.state = "READING_HEADER" THEN HeaderSize - Len(o.hdr) ELSE o.need - Len(o.pay)
          /\ k = K(n) /\ after = After(n) /\ s = S /\ c = C /\ want = W
    OBVIOUS
  <1>3. /\ Dispatching("READ") /\ evs' = Tail(evs)
        /\ UNCHANGED <<running, opc, opens, listening, rpc, avail, peer, accepted, inflight, next, replied>>
    BY DEF RunRead, srvVars
  <1>a. /\ k = IF o.state = "READING_HEADER" THEN ReadHeader(o, SubSeq(inbox[c], 1, n))
               ELSE ReadPayload(o, SubSeq(inbox[c], 1, n))
        /\ after = IF Complete(k) THEN RunTask(k) ELSE k
    BY <1>2, Zenon
  <1> HIDE DEF S, C, W, K, After
  <1>4. /\ n \in ReadSizes(c, want)
        /\ inbox' = [inbox EXCEPT ![c] = SubSeq(inbox[c], n + 1, Len(inbox[c]))]
        /\ processed' = IF Complete(k) /\ Processes(k)
                        THEN [processed EXCEPT ![c] = Append(processed[c], [hdr |-> k.hdr, pay |-> k.pay])]
                        ELSE processed
        /\ conn' = [conn EXCEPT ![s] = after]
        /\ listener' = IF after.state = "WRITING_RESPONSE"
                       THEN ModifyEvent(listener, s, c, "WRITE") ELSE listener
    BY <1>1, <1>2, Zenon
  <1>5. /\ s \in SlotSet /\ c \in Clients /\ o.state # "WRITING_RESPONSE"
        /\ o \in ConnectionType /\ Sound(o)
    BY <1>2, <1>3, FrontEvent DEF ServerInv, TypeOK, Buffers
  <1>6. /\ inbox \in [Clients -> Seq(U)] /\ inbox[c] \in Seq(Units)
        /\ processed \in [Clients -> Seq([hdr : Seq(U), pay : Seq(U)])]
        /\ \A d \in Clients : inbox[d] \in Seq(Units)
    BY <1>5 DEF ServerInv, TypeOK, Buffers
  <1>7. /\ o.state \in {"READING_HEADER", "READING_PAYLOAD"} /\ o.need \in Nat
        /\ o.hdr \in Seq(Units) /\ o.pay \in Seq(Units) /\ HeaderSize \in Nat
        /\ o.state = "READING_HEADER" => Len(o.hdr) < HeaderSize
        /\ o.state = "READING_PAYLOAD" => Len(o.pay) < o.need
    BY <1>5, Constants DEF Sound, ConnectionType
  <1>8. want \in Nat
    BY <1>2, <1>7
  <1>9. PICK units, rest : units = SubSeq(inbox[c], 1, n) /\ rest = SubSeq(inbox[c], n + 1, Len(inbox[c]))
    OBVIOUS
  <1>10. units \in Seq(Units) /\ Len(units) <= want /\ Len(units) \in Nat /\ rest \in Seq(Units)
    <2>1. n \in ReadSizes(c, want)
      BY <1>4
    <2>2. units \in Seq(Units) /\ Len(units) <= want /\ rest \in Seq(Units)
      BY <1>6, <1>8, <1>9, <2>1, UnitsTaken, Zenon
    <2> QED BY <2>2
  <1>11. /\ k \in ConnectionType /\ k.client = c /\ k.state # "WRITING_RESPONSE"
         /\ k.hdr \in Seq(Units) /\ k.pay \in Seq(Units) /\ k.resp = <<>> /\ k.out = 0
         /\ ~Complete(k) => Sound(k)
         /\ Complete(k) => k.hdr # <<>>
    <2>1. CASE o.state = "READING_HEADER"
      <3>1. k = ReadHeader(o, units)
        BY <1>a, <1>9, <2>1
      <3>2. Len(o.hdr) + Len(units) <= HeaderSize
        BY <1>2, <1>7, <1>10, <2>1
      <3> QED BY <1>2, <1>5, <1>10, <2>1, <3>1, <3>2, HeaderRead, ZenonT(40)
    <2>2. CASE o.state = "READING_PAYLOAD"
      <3>1. k = ReadPayload(o, units)
        BY <1>a, <1>9, <2>2
      <3>2. Len(o.pay) + Len(units) <= o.need
        BY <1>2, <1>7, <1>10, <2>2
      <3> QED BY <1>2, <1>5, <1>10, <2>2, <3>1, <3>2, PayloadRead, ZenonT(40)
    <2> QED BY <1>7, <2>1, <2>2
  <1>12. after \in ConnectionType /\ Sound(after) /\ after.client = c
    <2>1. CASE Complete(k)
      <3>1. RunTask(k) \in ConnectionType /\ Sound(RunTask(k)) /\ RunTask(k).client = k.client
        BY <1>5, <1>11, <2>1, TaskIsSound
      <3> QED BY <1>a, <1>11, <2>1, <3>1
    <2>2. CASE ~Complete(k)
      BY <1>a, <1>11, <2>2
    <2> QED BY <2>1, <2>2
  <1>13. /\ inbox' \in [Clients -> Seq(U)] /\ \A d \in Clients : inbox'[d] \in Seq(Units)
    <2>1. rest \in Seq(U) /\ inbox' = [inbox EXCEPT ![c] = rest]
      BY <1>4, <1>9, <1>10, UnitsTyped
    <2> QED BY <1>6, <1>10, <2>1
  <1>14. processed' \in [Clients -> Seq([hdr : Seq(U), pay : Seq(U)])]
    <2>1. [hdr |-> k.hdr, pay |-> k.pay] \in [hdr : Seq(U), pay : Seq(U)]
      BY <1>11, UnitsTyped
    <2>2. Append(processed[c], [hdr |-> k.hdr, pay |-> k.pay]) \in Seq([hdr : Seq(U), pay : Seq(U)])
      BY <1>5, <1>6, <2>1, AppendProperties
    <2> QED BY <1>4, <1>5, <1>6, <2>2
  <1>15. /\ inflight' \in [Clients -> 0..SendBuffer] /\ replied' \in [Clients -> Seq(U)]
    BY <1>3 DEF ServerInv, TypeOK
  <1>16. \/ /\ listener' = listener
            /\ (after.state = "WRITING_RESPONSE" <=> conn[s].state = "WRITING_RESPONSE")
         \/ /\ listener' = ModifyEvent(listener, s, conn[s].client, "WRITE")
            /\ after.state = "WRITING_RESPONSE"
    BY <1>2, <1>4, <1>5
  <1>17. after.client = conn[s].client /\ conn' = [conn EXCEPT ![s] = after]
    BY <1>2, <1>4, <1>12
  <1> QED BY <1>2, <1>3, <1>12, <1>13, <1>14, <1>15, <1>16, <1>17, ConnectionStep

\* The case WRITE of run().
LEMMA WriteStep ==
  ASSUME ServerInv, RunWrite
  PROVE  ServerInv'
  <1> DEFINE U == [client : Clients, req : Nat, pos : Nat]
  <1>1. PICK s : s = Head(evs).ctx
    OBVIOUS
  <1>2. PICK o, c, k, w : o = conn[s] /\ c = o.client /\ k = WriteResponse(o) /\ w = WriteSize(o)
    OBVIOUS
  <1>3. /\ Dispatching("WRITE") /\ evs' = Tail(evs)
        /\ UNCHANGED <<running, opc, opens, listening, rpc, avail, peer, accepted, inbox, next, processed>>
    BY DEF RunWrite, srvVars
  <1>4. \/ w < 0 /\ UNCHANGED <<conn, listener, inflight, replied>>
        \/ /\ w >= 0
           /\ inflight' = [inflight EXCEPT ![c] = inflight[c] + w]
           /\ replied' = [replied EXCEPT ![c] = replied[c] \o SubSeq(k.resp, o.out + 1, k.out)]
           /\ \/ /\ k.out = Len(k.resp) /\ conn' = [conn EXCEPT ![s] = Flush(o)]
                 /\ listener' = ModifyEvent(listener, s, c, "READ")
              \/ /\ k.out # Len(k.resp) /\ conn' = [conn EXCEPT ![s] = k]
                 /\ listener' = listener
    BY <1>1, <1>2, Zenon DEF RunWrite
  <1>5. /\ s \in SlotSet /\ c \in Clients /\ o.state = "WRITING_RESPONSE"
        /\ o \in ConnectionType /\ Sound(o)
    BY <1>1, <1>2, <1>3, FrontEvent DEF ServerInv, TypeOK, Buffers
  <1>6. /\ inbox \in [Clients -> Seq(U)] /\ \A d \in Clients : inbox[d] \in Seq(Units)
        /\ processed \in [Clients -> Seq([hdr : Seq(U), pay : Seq(U)])]
        /\ inflight \in [Clients -> 0..SendBuffer] /\ replied \in [Clients -> Seq(U)]
        /\ conn \in [SlotSet -> ConnectionType]
    BY DEF ServerInv, TypeOK, Buffers
  <1>7. inbox' \in [Clients -> Seq(U)] /\ (\A d \in Clients : inbox'[d] \in Seq(Units))
        /\ processed' \in [Clients -> Seq([hdr : Seq(U), pay : Seq(U)])]
    BY <1>3, <1>6
  <1>8. CASE w < 0 /\ UNCHANGED <<conn, listener, inflight, replied>>
    <2>1. conn' = [conn EXCEPT ![s] = o]
      BY <1>2, <1>6, <1>8
    <2>2. inflight' \in [Clients -> 0..SendBuffer] /\ replied' \in [Clients -> Seq(U)]
      BY <1>6, <1>8
    <2> QED BY <1>1, <1>2, <1>3, <1>5, <1>7, <1>8, <2>1, <2>2, ConnectionStep
  <1>9. CASE /\ w >= 0
             /\ inflight' = [inflight EXCEPT ![c] = inflight[c] + w]
             /\ replied' = [replied EXCEPT ![c] = replied[c] \o SubSeq(k.resp, o.out + 1, k.out)]
             /\ \/ /\ k.out = Len(k.resp) /\ conn' = [conn EXCEPT ![s] = Flush(o)]
                   /\ listener' = ModifyEvent(listener, s, c, "READ")
                \/ /\ k.out # Len(k.resp) /\ conn' = [conn EXCEPT ![s] = k]
                   /\ listener' = listener
    <2>1. /\ o.resp \in Seq(Units) /\ o.out \in Nat /\ o.out <= Len(o.resp) /\ Len(o.resp) \in Nat
          /\ SendBuffer \in Nat /\ inflight[c] \in 0..SendBuffer
      BY <1>5, <1>6, Constants DEF Sound, ConnectionType
    <2>2. w \in Nat /\ o.out + w <= Len(o.resp) /\ inflight[c] + w <= SendBuffer
      <3>1. peer[c] # "reset"
        <4>1. peer[c] = "reset" => w = -1
          BY <1>2 DEF WriteSize
        <4> QED BY <1>9, <4>1
      <3>2. w = Min({Len(o.resp) - o.out, SendBuffer - inflight[c]})
        BY <1>2, <3>1 DEF WriteSize
      <3>3. PICK a \in Nat, b \in Nat : a = Len(o.resp) - o.out /\ b = SendBuffer - inflight[c]
        BY <2>1
      <3>4. w \in Nat /\ w <= a /\ w <= b
        BY <3>2, <3>3, Smaller
      <3> QED BY <2>1, <3>3, <3>4
    <2>3. k = [o EXCEPT !.out = o.out + w]
      <3>1. ~(WriteSize(o) < 0)
        BY <1>2, <2>2
      <3> QED BY <1>2, <3>1 DEF WriteResponse
    <2>4. /\ k \in ConnectionType /\ k.client = c /\ k.state = "WRITING_RESPONSE" /\ k.resp = o.resp
          /\ k.hdr = o.hdr /\ k.pay = o.pay /\ k.out = o.out + w
      <3>1. PICK x \in Nat : x = o.out + w
        BY <2>1, <2>2
      <3>2. k = [o EXCEPT !.out = x]
        BY <2>3, <3>1
      <3> QED BY <1>2, <1>5, <3>1, <3>2 DEF ConnectionType
    <2>5. Sound(k)
      BY <1>5, <2>2, <2>4 DEF Sound
    <2>6. inflight' \in [Clients -> 0..SendBuffer]
      <3>1. inflight[c] + w \in 0..SendBuffer
        BY <2>1, <2>2
      <3> QED BY <1>6, <1>9, <3>1
    <2>7. replied' \in [Clients -> Seq(U)]
      <3>1. SubSeq(k.resp, o.out + 1, k.out) \in Seq(Units)
        BY <2>1, <2>2, <2>4
      <3>2. SubSeq(k.resp, o.out + 1, k.out) \in Seq(U)
        BY <3>1, UnitsTyped
      <3>3. replied[c] \o SubSeq(k.resp, o.out + 1, k.out) \in Seq(U)
        BY <1>5, <1>6, <3>2, ConcatProperties
      <3> QED BY <1>5, <1>6, <1>9, <3>3
    <2>8. CASE /\ conn' = [conn EXCEPT ![s] = Flush(o)]
               /\ listener' = ModifyEvent(listener, s, c, "READ")
      <3>1. PICK f : f = Flush(o)
        OBVIOUS
      <3>2. f \in ConnectionType /\ Sound(f) /\ f.client = c /\ f.state # "WRITING_RESPONSE"
        BY <1>2, <1>5, <3>1, FlushIsSound
      <3> QED BY <1>1, <1>2, <1>3, <1>7, <2>6, <2>7, <2>8, <3>1, <3>2, ConnectionStep
    <2>9. CASE conn' = [conn EXCEPT ![s] = k] /\ listener' = listener
      BY <1>1, <1>2, <1>3, <1>5, <1>7, <2>4, <2>5, <2>6, <2>7, <2>9, ConnectionStep, ZenonT(40)
    <2> QED BY <1>9, <2>8, <2>9
  <1> QED BY <1>4, <1>8, <1>9

------------------------------------------------------------------------------
(* The theorems *)

\* The initial state, and a step that changes nothing.
LEMMA InitEstablishes ==
  ASSUME Init
  PROVE  ServerInv
  <1>1. conn \in [SlotSet -> ConnectionType] /\ \A s \in SlotSet : conn[s] = NoConnection
    BY NoConnectionFields DEF Init
  <1>2. InUse = {}
    BY <1>1 DEF InUse
  <1>3. Slots \in Seq(SlotSet) /\ Range(Slots) = SlotSet /\ IsInjective(Slots)
    BY Constants, SlotsAssumption DEF SlotSet
  <1>4. TypeOK
    <2>1. listener \in [handle : Seq([fd : Clients \cup {Server}, events : Interests]),
                        contexts : Seq(SlotSet \cup {Server}), serverSocket : {None, Server}]
      BY DEF Init, NewListener
    <2>2. /\ inflight \in [Clients -> 0..SendBuffer] /\ next \in [Clients -> [req : Nat, pos : Nat]]
      BY Constants DEF Init
    <2>3. /\ inbox \in [Clients -> Seq([client : Clients, req : Nat, pos : Nat])]
          /\ replied \in [Clients -> Seq([client : Clients, req : Nat, pos : Nat])]
          /\ processed \in [Clients -> Seq([hdr : Seq([client : Clients, req : Nat, pos : Nat]),
                                            pay : Seq([client : Clients, req : Nat, pos : Nat])])]
      BY EmptySeq DEF Init
    <2>4. /\ evs \in Seq([type : {"NONE", "ACCEPT", "READ", "WRITE", "DISCONNECTED"},
                           ctx : SlotSet \cup {Server, None}])
          /\ peer \in [Clients -> {"none", "up", "fin", "reset", "refused", "closed"}]
          /\ accepted \subseteq Clients /\ opens \in Nat /\ avail \in Seq(SlotSet)
          /\ running \in BOOLEAN /\ listening \in BOOLEAN /\ opc \in {"idle", "join"}
          /\ rpc \in {"none", "top", "poll", "dispatch", "exited", "crashed"}
      BY <1>3, EmptySeq DEF Init
    <2> QED BY <1>1, <2>1, <2>2, <2>3, <2>4, Zenon DEF TypeOK
  <1>5. Lifecycle /\ InStep /\ Batch
    BY <1>2 DEF Init, Lifecycle, InStep, Batch, Serving
  <1>6. Buffers
    <2>1. \A c \in Clients : inbox[c] \in Seq(Units) /\ next[c].req > 0
      BY EmptySeq DEF Init
    <2> QED BY <1>1, <1>2, <2>1, NewIsSound DEF Buffers
  <1>7. Pool
    BY <1>2, <1>3 DEF Init, Pool
  <1>8. Exhausted
    BY FS_EmptySet DEF Init, Exhausted
  <1> QED BY <1>4, <1>5, <1>6, <1>7, <1>8 DEF ServerInv

\* Every step keeps the invariant.
LEMMA StepPreserves ==
  ASSUME ServerInv, [Next]_vars
  PROVE  ServerInv'
  <1>1. CASE Open BY <1>1, OpenStep
  <1>2. CASE CloseBegin \/ CloseJoin BY <1>2, CloseStep
  <1>3. CASE PeerStep BY <1>3, PeerSteps
  <1>4. CASE RunCheck \/ RunPollFails \/ RunEndBatch BY <1>4, LoopStep
  <1>5. CASE RunPoll BY <1>5, PollStep
  <1>6. CASE RunAccept BY <1>6, AcceptStep
  <1>7. CASE RunAcceptFails \/ RunSkip BY <1>7, SkipStep
  <1>8. CASE RunDisconnect BY <1>8, DisconnectStep
  <1>9. CASE RunRead BY <1>9, ReadStep
  <1>10. CASE RunWrite BY <1>10, WriteStep
  <1>11. CASE UNCHANGED vars
    <2>1. UNCHANGED <<running, opc, opens, listening, rpc, listener, evs, conn, avail, peer, accepted,
                      inbox, inflight, next, processed, replied>>
      BY <1>11 DEF vars, srvVars, runVars, peerVars, histVars
    <2>2. TypeOK'
      BY <2>1 DEF ServerInv, TypeOK
    <2>3. Buffers'
      BY <2>1, Kept DEF ServerInv
    <2> QED BY <2>1, <2>2, <2>3, OutsideStep
  <1> QED BY <1>1, <1>2, <1>3, <1>4, <1>5, <1>6, <1>7, <1>8, <1>9, <1>10, <1>11 DEF Next, RunStep

\* The invariant that ties the poll loop, the listener, the connections and the
\* pool together holds for every number of peers, objects and requests.
THEOREM RequestInvariant == Spec => []ServerInv
  <1>1. Init => ServerInv
    BY InitEstablishes
  <1>2. ServerInv /\ [Next]_vars => ServerInv'
    BY StepPreserves
  <1> QED BY <1>1, <1>2, PTL DEF Spec

\* Every variable of the request server keeps its type, the counters, buffers
\* and batches of run() and SocketConnection included.
THEOREM RequestTypeCorrect == Spec => []TypeOK
  <1>1. ServerInv => TypeOK
    BY DEF ServerInv
  <1> QED BY <1>1, RequestInvariant, PTL

\* run() never casts a context to a connection that is gone, and never gets an
\* event that does not fit the state of its connection.
THEOREM ContextsAreLive == Spec => []EventContextsLive
  <1>1. ASSUME ServerInv PROVE EventContextsLive
    <2>1. /\ evs \in Seq([type : {"NONE", "ACCEPT", "READ", "WRITE", "DISCONNECTED"},
                          ctx : SlotSet \cup {Server, None}])
          /\ conn \in [SlotSet -> ConnectionType]
      BY <1>1 DEF ServerInv, TypeOK
    <2>2. DOMAIN evs = 1..Len(evs)
      BY <2>1
    <2>3. ASSUME NEW i \in 1..Len(evs)
          PROVE  /\ evs[i].type \in {"READ", "WRITE", "DISCONNECTED"} => evs[i].ctx \in InUse
                 /\ evs[i].type = "WRITE" => conn[evs[i].ctx].state = "WRITING_RESPONSE"
                 /\ evs[i].type = "READ" => conn[evs[i].ctx].state \in {"READING_HEADER", "READING_PAYLOAD"}
      <3>1. Fits(evs[i])
        BY <1>1 DEF ServerInv, Batch
      <3>2. evs[i].type = "READ" => evs[i].ctx \in SlotSet
        BY <3>1 DEF Fits, InUse
      <3> QED BY <2>1, <3>1, <3>2 DEF Fits, ConnectionType
    <2>4. ASSUME NEW i \in 1..Len(evs), NEW j \in 1..Len(evs), i # j, evs[i].ctx # None
          PROVE  evs[i].ctx # evs[j].ctx
      BY <1>1, <2>4 DEF ServerInv, Batch
    <2> QED BY <2>2, <2>3, <2>4, Zenon DEF EventContextsLive
  <1> QED BY <1>1, RequestInvariant, PTL

\* The polling set of run() follows the state machines of its connections.
THEOREM InterestIsRight == Spec => []InterestMatchesState
  <1>1. ASSUME ServerInv, rpc \in {"top", "poll", "dispatch"}
        PROVE  LET ctxs == listener.contexts
               IN  /\ IsInjective(ctxs) /\ Len(ctxs) = Len(listener.handle)
                   /\ \A s \in Range(ctxs) \ {Server} :
                        /\ s \in InUse
                        /\ \E h \in Range(listener.handle) :
                             /\ h.fd = conn[s].client
                             /\ h.events = IF conn[s].state = "WRITING_RESPONSE" THEN "WRITE" ELSE "READ"
                   /\ opens = 1 => InUse \subseteq Range(ctxs)
    <2>1. PICK H, C : H = listener.handle /\ C = listener.contexts
      OBVIOUS
    <2>2. /\ Len(C) = Len(H) /\ \A m \in 1..Len(C) : Entry(C[m], H[m])
          /\ \A m, n \in 1..Len(C) : C[m] = C[n] => m = n
          /\ opens = 1 => \A s \in InUse : \E m \in 1..Len(C) : C[m] = s
      BY <1>1, <2>1 DEF ServerInv, InStep, Serving
    <2>3. DOMAIN C = 1..Len(C) /\ DOMAIN H = 1..Len(H)
      BY <1>1, <2>1 DEF ServerInv, TypeOK
    <2>4. IsInjective(C)
      BY <2>2, <2>3 DEF IsInjective
    <2>5. ASSUME NEW s \in Range(C) \ {Server}
          PROVE  /\ s \in InUse
                 /\ \E h \in Range(H) :
                      /\ h.fd = conn[s].client
                      /\ h.events = IF conn[s].state = "WRITING_RESPONSE" THEN "WRITE" ELSE "READ"
      <3>1. PICK m \in 1..Len(C) : C[m] = s
        BY <2>3 DEF Range
      <3>2. Entry(s, H[m]) /\ s # Server
        BY <2>2, <3>1
      <3>3. H[m] \in Range(H)
        BY <2>2, <2>3 DEF Range
      <3> QED BY <3>2, <3>3 DEF Entry
    <2>6. opens = 1 => InUse \subseteq Range(C)
      BY <2>2, <2>3 DEF Range
    <2> QED BY <2>1, <2>2, <2>4, <2>5, <2>6
  <1>2. ServerInv => InterestMatchesState
    BY <1>1 DEF InterestMatchesState
  <1> QED BY <1>2, RequestInvariant, PTL

\* acquire() and release() keep the ObjectPool whole, and acquire() returns null
\* only when the server holds more connections than the pool has objects.
THEOREM PoolIsConserved == Spec => []PoolConservation
  <1>1. ServerInv => PoolConservation
    BY DEF ServerInv, Pool, Exhausted, PoolConservation
  <1> QED BY <1>1, RequestInvariant, PTL
==============================================================================
