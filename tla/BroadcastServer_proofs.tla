----------------------- MODULE BroadcastServer_proofs ------------------------
(* Theorems about BroadcastServer, for every set of clients, descriptors   *)
(* and threads and for every set of calls they make.                       *)
EXTENDS BroadcastServer, SocketEvent_proofs

\* Every event list wait() can build is well typed.
LEMMA EventsTyped ==
  ASSUME TypeOK, NEW revents
  PROVE  Events(snap.handle, snap.contexts, FdOf, revents, listener.serverSocket, None)
           \in Seq([type : EventTypes, ctx : Contexts \cup {None}])
<1> DEFINE type(i) == EventType(revents[i], snap.handle[i].fd, listener.serverSocket)
           find(i) == FindContext(snap.contexts, FdOf, snap.handle[i].fd, None)
           ev(i)   == [type |-> type(i), ctx |-> IF type(i) = "NONE" THEN None ELSE find(i)]
<1>1. snap.handle \in Seq([fd : Fds, events : Interests]) /\ snap.contexts \in Seq(Contexts)
  BY DEF TypeOK, HandleType
<1>2. \A i : type(i) \in EventTypes
  BY Zenon DEF EventType, EventTypes
<1>3. \A i : find(i) \in Contexts \cup {None}
  <2> SUFFICES ASSUME NEW f PROVE FindContext(snap.contexts, FdOf, f, None) \in Contexts \cup {None}
    BY Zenon
  <2> DEFINE I == {i \in 1..Len(snap.contexts) : FdOf[snap.contexts[i]] = f}
  <2>1. CASE I # {}
    <3>1. Min(I) \in 1..Len(snap.contexts)
      BY <1>1, <2>1, FirstIndex, Zenon
    <3>2. Min(I) # 0
      BY <1>1, <3>1
    <3>3. FindContext(snap.contexts, FdOf, f, None) = snap.contexts[Min(I)]
      BY <2>1, <3>2, Zenon DEF FindContext, SelectInSeq
    <3> HIDE DEF I
    <3>4. snap.contexts[Min(I)] \in Contexts
      BY <1>1, <3>1
    <3> QED BY <3>3, <3>4
  <2>2. CASE I = {}
    <3>1. FindContext(snap.contexts, FdOf, f, None) = None
      BY <2>2, Zenon DEF FindContext, SelectInSeq
    <3> QED BY <3>1
  <2> QED BY <2>1, <2>2
<1>4. Events(snap.handle, snap.contexts, FdOf, revents, listener.serverSocket, None)
        = [i \in 1..Len(snap.handle) |-> ev(i)]
  BY Zenon DEF Events
<1> HIDE DEF type, find
<1>5. \A i : ev(i) \in [type : EventTypes, ctx : Contexts \cup {None}]
  BY <1>2, <1>3
<1> HIDE DEF ev
<1>6. Len(snap.handle) \in Nat
  BY <1>1
<1> QED BY <1>4, <1>5, <1>6

\* The listener keeps its type when an entry is added.
LEMMA ListenerAdds ==
  ASSUME listener \in ListenerType, NEW c \in Contexts, NEW f \in Fds,
         NEW e \in {"ACCEPT", "READ"}
  PROVE  AddEvent(listener, c, f, e) \in ListenerType
<1> DEFINE G == Fds \cup {None}
<1>1. f \in G /\ listener \in [handle : Seq([fd : Fds, events : Interests]),
                               contexts : Seq(Contexts), serverSocket : G]
  BY DEF ListenerType, HandleType
<1> HIDE DEF G
<1>2. AddEvent(listener, c, f, e) \in [handle : Seq([fd : Fds, events : Interests]),
                                       contexts : Seq(Contexts), serverSocket : G]
  BY <1>1, AddEventType
<1> QED BY <1>2 DEF ListenerType, HandleType, G

\* The listener keeps its type when removeEvent takes an entry out.
LEMMA ListenerRemoves ==
  ASSUME listener \in ListenerType, NEW c, NEW f
  PROVE  RemoveEvent(listener, c, f) \in ListenerType
<1> DEFINE H == [fd : Fds, events : Interests]
           G == Fds \cup {None}
<1>1. ListenerType = [handle : Seq(H), contexts : Seq(Contexts), serverSocket : G]
  BY DEF ListenerType, HandleType
<1> HIDE DEF H, G
<1> QED BY <1>1, RemoveEventType

\* A notification moves sleeping threads only to another thread state.
LEMMA WokenTyped ==
  ASSUME TypeOK
  PROVE  Woken \in [Threads -> ThreadStates]
  BY DEF TypeOK, Woken, ThreadStates

\* Closing sockets keeps the descriptor table and the containers typed.
LEMMA CloseSocketsTyped ==
  ASSUME TypeOK, NEW S \in SUBSET Clients, CloseSockets(S)
  PROVE  /\ owner' \in [Fds -> Clients \cup {Server, None}]
         /\ sock' \in [Clients -> Fds \cup {None}]
  BY DEF TypeOK, CloseSockets

\* The disconnect callback is counted in Nat.
LEMMA OnDisconnectedTyped ==
  ASSUME TypeOK, NEW c \in Clients, OnDisconnected(c)
  PROVE  disconnected' \in [Clients -> Nat]
  BY DEF TypeOK, OnDisconnected

\* One evaluation of a wait's predicate keeps the thread's variables typed.
LEMMA WaitEvaluateTyped ==
  ASSUME TypeOK, NEW t \in Threads, NEW o \in {"none", "await", "awaitClose"},
         WaitEvaluate(t, o)
  PROVE  TypeOK'
<1>1. mtx' \in Threads \cup {None}
  BY DEF WaitEvaluate, TypeOK
<1>2. op' \in [Threads -> {"none", "await", "awaitClose"}]
  BY DEF WaitEvaluate, TypeOK
<1>3. pc' \in [Threads -> ThreadStates]
  <2>1. \A x \in ThreadStates : [pc EXCEPT ![t] = x] \in [Threads -> ThreadStates]
    BY DEF TypeOK
  <2>2. \E x \in {"blocking", "recheck", "idle"} : pc' = [pc EXCEPT ![t] = x]
    BY Zenon DEF WaitEvaluate
  <2> QED BY <2>1, <2>2 DEF ThreadStates
<1>4. ret' \in [Threads -> [code : Codes, clients : SUBSET Clients]]
  <2> DEFINE R == [code : Codes, clients : SUBSET Clients]
  <2>1. /\ NoResult \in R /\ Result("SOCKET_CLOSED", {}) \in R
        /\ Result("SOCKET_TIMEOUT", active) \in R /\ Result("SUCCESS", {}) \in R
    BY DEF NoResult, Result, Codes, TypeOK
  <2>2. \E x \in R : ret' = [ret EXCEPT ![t] = x]
    <3> HIDE DEF R
    <3> QED BY <2>1, Zenon DEF WaitEvaluate
  <2> QED BY <2>2 DEF TypeOK
<1> QED BY <1>1, <1>2, <1>3, <1>4 DEF WaitEvaluate, TypeOK, objVars, monVars, cliVars, kernVars, histVars

\* What TypeOK needs to be inductive: while the monitor works on a client it
\* has one, and only the owner is inside open() or close(), so that nobody
\* takes the socket of an open() away.
HasCursor == mpc \in {"push", "announce", "erase", "finish"} => cur \in Clients
OwnerStates == {"opened", "notify", "join", "clear", "shut"}
OwnerOnly == \A t \in Threads : pc[t] \in OwnerStates => IsOwner(t)
OpenedHasSocket == \A t \in Threads : pc[t] = "opened" => passive \in Fds
TypeInv == TypeOK /\ HasCursor /\ OwnerOnly /\ OpenedHasSocket

\* Every step preserves the type invariant.
LEMMA TypeStep ==
  ASSUME TypeInv, [Next]_vars
  PROVE  TypeOK'
<1> USE NullAssumption, BoundsAssumption DEF TypeInv
<1>u. CASE UNCHANGED vars
  BY <1>u DEF vars, objVars, monVars, apiVars, cliVars, kernVars, histVars, TypeOK
<1>1. CASE MonitorCheck
  BY <1>1 DEF MonitorCheck, TypeOK, ThreadStates, MonitorStates, objVars, monVars, apiVars, cliVars, kernVars, histVars
<1>2. CASE MonitorClear
  BY <1>2 DEF MonitorClear, TypeOK, ThreadStates, MonitorStates, objVars, monVars, apiVars, cliVars, kernVars, histVars
<1>3. CASE MonitorSnapshot
  BY <1>3 DEF MonitorSnapshot, TypeOK, ThreadStates, MonitorStates, objVars, monVars, apiVars, cliVars, kernVars, histVars, ListenerType
<1>4. CASE MonitorPoll
  <2> DEFINE revents == [i \in DOMAIN snap.handle |-> Revents(snap.handle[i])]
             list == Events(snap.handle, snap.contexts, FdOf, revents, listener.serverSocket, None)
  <2>1. list \in Seq([type : EventTypes, ctx : Contexts \cup {None}])
    BY EventsTyped
  <2>2. /\ evs' = <<>> \/ evs' = list
        /\ mpc' \in {"top", "dispatch"} /\ snap' = NoSnap
        /\ UNCHANGED <<objVars, cur, owned, apiVars, cliVars, kernVars, histVars>>
    BY <1>4, Zenon DEF MonitorPoll
  <2> HIDE DEF list, revents
  <2>3. evs' \in Seq([type : EventTypes, ctx : Contexts \cup {None}])
    <3>1. <<>> \in Seq([type : EventTypes, ctx : Contexts \cup {None}])
      OBVIOUS
    <3> QED BY <2>1, <2>2, <3>1, Zenon
  <2>4. mpc' \in MonitorStates /\ snap' \in [handle : HandleType, contexts : Seq(Contexts)]
    BY <2>2 DEF MonitorStates, NoSnap, HandleType
  <2> QED BY <2>2, <2>3, <2>4
          DEF TypeOK, objVars, apiVars, cliVars, kernVars, histVars
<1>5. CASE MonitorPollFails
  BY <1>5 DEF MonitorPollFails, TypeOK, ThreadStates, MonitorStates, objVars, monVars, apiVars, cliVars, kernVars, histVars, NoSnap, HandleType
<1>6. CASE MonitorAccept
  <2>1. PICK c \in Queued, f \in FreeFds : /\ owner' = [owner EXCEPT ![f] = c]
                                       /\ fd' = [fd EXCEPT ![c] = f]
                                       /\ sock' = [sock EXCEPT ![c] = f]
                                       /\ listener' = AddEvent(listener, c, f, "READ")
                                       /\ cur' = c /\ owned' = TRUE
    BY <1>6 DEF MonitorAccept, AcceptClient
  <2>2. c \in Clients /\ f \in Fds
    BY DEF Queued, FreeFds
  <2>3. listener' \in ListenerType
    BY <2>1, <2>2, ListenerAdds DEF TypeOK, Contexts
  <2>4. owner' \in [Fds -> Clients \cup {Server, None}] /\ fd' \in [Clients -> Fds \cup {None}] /\ sock' \in [Clients -> Fds \cup {None}]
    BY <2>1, <2>2 DEF TypeOK
  <2>5. cur' \in Clients \cup {None} /\ owned' \in BOOLEAN
    BY <2>1, <2>2
  <2>6. evs' \in Seq([type : EventTypes, ctx : Contexts \cup {None}]) /\ mpc' \in MonitorStates
    BY <1>6 DEF MonitorAccept, AcceptClient, Dispatching, TypeOK, MonitorStates
  <2> QED BY <1>6, <2>1, <2>2, <2>3, <2>4, <2>5, <2>6 DEF MonitorAccept, AcceptClient, TypeOK, objVars, monVars, apiVars, cliVars, kernVars, histVars
<1>7. CASE MonitorAcceptFails
  BY <1>7 DEF MonitorAcceptFails, TypeOK, ThreadStates, MonitorStates, objVars, monVars, apiVars, cliVars, kernVars, histVars, Dispatching
<1>8. CASE MonitorPush
  BY <1>8 DEF MonitorPush, TypeOK, ThreadStates, MonitorStates, objVars, monVars, apiVars, cliVars, kernVars, histVars, HasCursor
<1>9. CASE MonitorAnnounce
  <2>1. pc' \in [Threads -> ThreadStates]
    BY <1>9, WokenTyped DEF MonitorAnnounce
  <2>2. connected' \subseteq Clients
    BY <1>9 DEF MonitorAnnounce, OnConnected, HasCursor, TypeOK
  <2>3. mpc' \in MonitorStates /\ cur' \in Clients \cup {None}
    BY <1>9 DEF MonitorAnnounce, MonitorStates
  <2> QED BY <1>9, <2>1, <2>2, <2>3 DEF MonitorAnnounce, TypeOK, objVars, monVars, apiVars, cliVars, kernVars, histVars
<1>10. CASE MonitorRemove
  <2>1. listener' \in ListenerType
    BY <1>10, ListenerRemoves DEF MonitorRemove, TypeOK
  <2>2. evs' \in Seq([type : EventTypes, ctx : Contexts \cup {None}])
    BY <1>10 DEF MonitorRemove, Dispatching, TypeOK
  <2>3. mpc' \in MonitorStates /\ cur' \in Clients \cup {None}
    BY <1>10 DEF MonitorRemove, MonitorStates
  <2> QED BY <1>10, <2>1, <2>2, <2>3 DEF MonitorRemove, TypeOK, objVars, monVars, apiVars, cliVars, kernVars, histVars
<1>11. CASE MonitorErase
  BY <1>11 DEF MonitorErase, TypeOK, ThreadStates, MonitorStates, objVars, monVars, apiVars, cliVars, kernVars, histVars
<1>12. CASE MonitorFinish
  <2>1. pc' \in [Threads -> ThreadStates]
    BY <1>12, WokenTyped DEF MonitorFinish
  <2>2. owner' \in [Fds -> Clients \cup {Server, None}] /\ sock' \in [Clients -> Fds \cup {None}]
    BY <1>12, CloseSocketsTyped DEF MonitorFinish, HasCursor, TypeOK
  <2>3. disconnected' \in [Clients -> Nat]
    BY <1>12, OnDisconnectedTyped DEF MonitorFinish, HasCursor, TypeOK
  <2>4. mpc' \in MonitorStates /\ cur' \in Clients \cup {None} /\ owned' \in BOOLEAN
    BY <1>12 DEF MonitorFinish, MonitorStates
  <2> QED BY <1>12, <2>1, <2>2, <2>3, <2>4 DEF MonitorFinish, TypeOK, objVars, monVars, apiVars, cliVars, kernVars, histVars
<1>13. CASE MonitorSkip
  BY <1>13 DEF MonitorSkip, TypeOK, ThreadStates, MonitorStates, objVars, monVars, apiVars, cliVars, kernVars, histVars
<1>14. CASE MonitorEndBatch
  BY <1>14 DEF MonitorEndBatch, TypeOK, ThreadStates, MonitorStates, objVars, monVars, apiVars, cliVars, kernVars, histVars
<1>15. ASSUME NEW t \in Threads, OpenSocket(t) PROVE TypeOK'
  <2>1. passive' \in Fds \cup {None}
    BY <1>15 DEF OpenSocket, CreatePassive, FreeFds
  <2>2. owner' = owner \/ \E f \in Fds : owner' = [owner EXCEPT ![f] = Server]
    BY <1>15, Zenon DEF OpenSocket, CreatePassive, FreeFds
  <2>3. listening' \subseteq Fds /\ opens' \in Nat
    BY <1>15 DEF OpenSocket, CreatePassive, FreeFds, TypeOK
  <2>4. owner' \in [Fds -> Clients \cup {Server, None}]
    BY <2>2 DEF TypeOK
  <2>5. pc' = pc \/ pc' = [pc EXCEPT ![t] = "opened"]
    BY <1>15, Zenon DEF OpenSocket, CreatePassive
  <2>6. pc' \in [Threads -> ThreadStates]
    BY <2>5 DEF TypeOK, ThreadStates
  <2> QED BY <1>15, <2>1, <2>2, <2>3, <2>4, <2>5, <2>6 DEF OpenSocket, CreatePassive, TypeOK, objVars, monVars, apiVars, cliVars, kernVars, histVars
<1>16. ASSUME NEW t \in Threads, OpenStart(t) PROVE TypeOK'
  <2>1. passive \in Fds
    BY <1>16 DEF OpenStart, OpenedHasSocket
  <2>2. listener' \in ListenerType
    BY <1>16, <2>1, ListenerAdds DEF OpenStart, TypeOK, Contexts
  <2>3. pc' \in [Threads -> ThreadStates] /\ mpc' \in MonitorStates
    BY <1>16 DEF OpenStart, TypeOK, ThreadStates, MonitorStates
  <2>4. serverFd' \in Fds \cup {None} /\ handler' \in BOOLEAN /\ isMonitoring' \in BOOLEAN
    BY <1>16, <2>1, SwitchAssumption DEF OpenStart
  <2> QED BY <1>16, <2>1, <2>2, <2>3, <2>4 DEF OpenStart, TypeOK, objVars, monVars, apiVars, cliVars, kernVars, histVars
<1>17. ASSUME NEW t \in Threads, CloseBegin(t) PROVE TypeOK'
  <2>1. \E x \in {"notify", "clear"} : pc' = [pc EXCEPT ![t] = x]
    BY <1>17, Zenon DEF CloseBegin
  <2>2. pc' \in [Threads -> ThreadStates]
    BY <2>1 DEF TypeOK, ThreadStates
  <2>3. isMonitoring' \in BOOLEAN
    BY <1>17 DEF CloseBegin
  <2> QED BY <1>17, <2>1, <2>2, <2>3 DEF CloseBegin, TypeOK, objVars, monVars, apiVars, cliVars, kernVars, histVars
<1>18. ASSUME NEW t \in Threads, CloseNotify(t) PROVE TypeOK'
  BY <1>18 DEF CloseNotify, TypeOK, ThreadStates, MonitorStates, objVars, monVars, apiVars, cliVars, kernVars, histVars, Woken
<1>19. ASSUME NEW t \in Threads, CloseJoin(t) PROVE TypeOK'
  BY <1>19 DEF CloseJoin, TypeOK, ThreadStates, MonitorStates, objVars, monVars, apiVars, cliVars, kernVars, histVars
<1>20. ASSUME NEW t \in Threads, CloseClear(t) PROVE TypeOK'
  BY <1>20 DEF CloseClear, TypeOK, ThreadStates, MonitorStates, objVars, monVars, apiVars, cliVars, kernVars, histVars, CloseSockets
<1>21. ASSUME NEW t \in Threads, CloseShut(t) PROVE TypeOK'
  BY <1>21 DEF CloseShut, ClosePassive, TypeOK, ThreadStates, MonitorStates, objVars, monVars, apiVars, cliVars, kernVars, histVars, Queued
<1>22. ASSUME NEW t \in Threads, DropSwap(t) PROVE TypeOK'
  BY <1>22 DEF DropSwap, TypeOK, ThreadStates, MonitorStates, objVars, monVars, apiVars, cliVars, kernVars, histVars
<1>23. ASSUME NEW t \in Threads, DropRemove(t) PROVE TypeOK'
  <2>1. listener' \in ListenerType
    BY <1>23, ListenerRemoves DEF DropRemove, TypeOK
  <2>2. todo' \in [Threads -> SUBSET Clients]
    BY <1>23 DEF DropRemove, TypeOK
  <2> QED BY <1>23, <2>1, <2>2 DEF DropRemove, TypeOK, objVars, monVars, apiVars, cliVars, kernVars, histVars
<1>24. ASSUME NEW t \in Threads, DropHandoff(t) PROVE TypeOK'
  BY <1>24 DEF DropHandoff, TypeOK, ThreadStates, MonitorStates, objVars, monVars, apiVars, cliVars, kernVars, histVars
<1>25. ASSUME NEW t \in Threads, DropNotify(t) PROVE TypeOK'
  BY <1>25 DEF DropNotify, TypeOK, ThreadStates, MonitorStates, objVars, monVars, apiVars, cliVars, kernVars, histVars, Woken
<1>26. ASSUME NEW t \in Threads, DropClose(t) PROVE TypeOK'
  BY <1>26 DEF DropClose, TypeOK, ThreadStates, MonitorStates, objVars, monVars, apiVars, cliVars, kernVars, histVars, CloseSockets, OnDisconnected
<1>27. ASSUME NEW t \in Threads, DropReturn(t) PROVE TypeOK'
  BY <1>27 DEF DropReturn, TypeOK, ThreadStates, MonitorStates, objVars, monVars, apiVars, cliVars, kernVars, histVars
<1>28. ASSUME NEW t \in Threads, NEW o \in {"await", "awaitClose"}, WaitCall(t, o) PROVE TypeOK'
  BY <1>28, WaitEvaluateTyped DEF WaitCall
<1>29. ASSUME NEW t \in Threads, WaitSleep(t) PROVE TypeOK'
  BY <1>29 DEF WaitSleep, TypeOK, ThreadStates, MonitorStates, objVars, monVars, apiVars, cliVars, kernVars, histVars
<1>30. ASSUME NEW t \in Threads, WaitExpire(t) PROVE TypeOK'
  BY <1>30 DEF WaitExpire, TypeOK, ThreadStates, MonitorStates, objVars, monVars, apiVars, cliVars, kernVars, histVars
<1>31. ASSUME NEW t \in Threads, WaitWake(t) PROVE TypeOK'
  <2>1. op[t] \in {"none", "await", "awaitClose"}
    BY DEF TypeOK
  <2>2. WaitEvaluate(t, op[t])
    BY <1>31 DEF WaitWake
  <2>3. TypeOK'
    BY <2>1, <2>2, WaitEvaluateTyped, Zenon
  <2> QED BY <2>3
<1>32. ASSUME NEW t \in Threads, AwaitRecheck(t) PROVE TypeOK'
  BY <1>32 DEF AwaitRecheck, TypeOK, ThreadStates, MonitorStates, objVars, monVars, apiVars, cliVars, kernVars, histVars, Result, Codes
<1>33. ASSUME NEW c \in Clients, PeerConnect(c) PROVE TypeOK'
  BY <1>33 DEF PeerConnect, TypeOK, ThreadStates, MonitorStates, objVars, monVars, apiVars, cliVars, kernVars, histVars
<1>34. ASSUME NEW c \in Clients, PeerHangup(c) PROVE TypeOK'
  <2>1. \E x \in {"fin", "reset"} : peer' = [peer EXCEPT ![c] = x]
    BY <1>34, Zenon DEF PeerHangup
  <2>2. peer' \in [Clients -> {"none", "up", "fin", "reset", "refused"}]
    BY <2>1 DEF TypeOK
  <2> QED BY <1>34, <2>1, <2>2 DEF PeerHangup, TypeOK, objVars, monVars, apiVars, cliVars, kernVars, histVars
<1> QED BY <1>u, <1>1, <1>2, <1>3, <1>4, <1>5, <1>6, <1>7, <1>8, <1>9, <1>10, <1>11, <1>12, <1>13, <1>14, <1>15, <1>16, <1>17, <1>18, <1>19, <1>20, <1>21, <1>22, <1>23, <1>24, <1>25, <1>26, <1>27, <1>28, <1>29, <1>30, <1>31, <1>32, <1>33, <1>34 DEF Next, MonitorStep, ApiStep, ApiCall

\* The initial state satisfies the type invariant and its strengthening.
LEMMA TypeInit == Init => TypeInv
<1> SUFFICES ASSUME Init PROVE TypeInv
  OBVIOUS
<1>1. NewListener(None) \in ListenerType
  BY DEF NewListener, ListenerType, HandleType
<1>2. NoSnap \in [handle : HandleType, contexts : Seq(Contexts)]
  BY DEF NoSnap, HandleType
<1>3. NoResult \in [code : Codes, clients : SUBSET Clients]
  BY DEF NoResult, Codes
<1>4. <<>> \in Seq([type : EventTypes, ctx : Contexts \cup {None}])
  OBVIOUS
<1>5. TypeOK
  BY <1>1, <1>2, <1>3, <1>4 DEF Init, TypeOK, MonitorStates, ThreadStates
<1> QED BY <1>5 DEF Init, TypeInv, HasCursor, OwnerOnly, OwnerStates, OpenedHasSocket

\* The monitor has a client at hand in the states that use one.
LEMMA CursorStep ==
  ASSUME TypeInv, [Next]_vars
  PROVE  HasCursor'
<1> USE DEF TypeInv, HasCursor, objVars, monVars
<1>1. CASE MonitorAccept
  BY <1>1 DEF MonitorAccept, AcceptClient, Queued
<1>2. CASE MonitorRemove
  BY <1>2 DEF MonitorRemove
<1>3. CASE MonitorPush \/ MonitorErase \/ MonitorAnnounce \/ MonitorFinish
  BY <1>3 DEF MonitorPush, MonitorErase, MonitorAnnounce, MonitorFinish
<1>4. CASE MonitorCheck \/ MonitorClear \/ MonitorSnapshot \/ MonitorPoll \/ MonitorPollFails
  BY <1>4 DEF MonitorCheck, MonitorClear, MonitorSnapshot, MonitorPoll, MonitorPollFails
<1>5. CASE MonitorAcceptFails \/ MonitorSkip \/ MonitorEndBatch
  BY <1>5 DEF MonitorAcceptFails, Dispatching, MonitorSkip, MonitorEndBatch
<1>6. ASSUME NEW t \in Threads, ApiCall(t) PROVE HasCursor'
  BY <1>6 DEF ApiCall, OpenSocket, CreatePassive, CloseBegin, DropSwap, WaitCall, WaitEvaluate
<1>7. ASSUME NEW t \in Threads, ApiStep(t) \/ WaitExpire(t) PROVE HasCursor'
  BY <1>7 DEF ApiStep, OpenStart, CloseNotify, CloseJoin, CloseClear, CloseShut, ClosePassive, DropRemove,
     DropHandoff, DropNotify, DropClose, DropReturn, WaitSleep, WaitWake, WaitEvaluate,
     AwaitRecheck, WaitExpire
<1>8. ASSUME NEW c \in Clients, PeerConnect(c) \/ PeerHangup(c) PROVE HasCursor'
  BY <1>8 DEF PeerConnect, PeerHangup
<1>9. CASE UNCHANGED vars
  BY <1>9 DEF vars
<1> QED BY <1>1, <1>2, <1>3, <1>4, <1>5, <1>6, <1>7, <1>8, <1>9 DEF Next, MonitorStep

\* Nobody but the owner enters open() or close(), and no other step puts a
\* thread there.
LEMMA OwnerOnlyStep ==
  ASSUME TypeInv, [Next]_vars
  PROVE  OwnerOnly'
<1> USE DEF TypeInv, TypeOK, OwnerOnly, OwnerStates, apiVars
<1>1. CASE MonitorAccept \/ MonitorRemove \/ MonitorPush \/ MonitorErase
  BY <1>1 DEF MonitorAccept, AcceptClient, MonitorRemove, MonitorPush, MonitorErase
<1>2. CASE MonitorAnnounce \/ MonitorFinish
  BY <1>2 DEF MonitorAnnounce, MonitorFinish, Woken
<1>3. CASE MonitorCheck \/ MonitorClear \/ MonitorSnapshot \/ MonitorPoll \/ MonitorPollFails
  BY <1>3 DEF MonitorCheck, MonitorClear, MonitorSnapshot, MonitorPoll, MonitorPollFails
<1>4. CASE MonitorAcceptFails \/ MonitorSkip \/ MonitorEndBatch
  BY <1>4 DEF MonitorAcceptFails, MonitorSkip, MonitorEndBatch
<1>5. ASSUME NEW t \in Threads, OpenSocket(t) \/ CloseBegin(t) PROVE OwnerOnly'
  <2>1. IsOwner(t)
    BY <1>5, Zenon DEF OpenSocket, CreatePassive, CloseBegin, IsOwner
  <2>2. \A u \in Threads : pc'[u] = pc[u] \/ u = t
    BY <1>5 DEF OpenSocket, CreatePassive, CloseBegin
  <2> QED BY <2>1, <2>2
<1>6. ASSUME NEW t \in Threads, NEW o, WaitEvaluate(t, o) PROVE OwnerOnly'
  <2>1. \A u \in Threads : pc'[u] = pc[u] \/ pc'[u] \in {"blocking", "recheck", "idle"}
    BY <1>6 DEF WaitEvaluate
  <2> QED BY <2>1
<1>7. ASSUME NEW t \in Threads,
             DropSwap(t) \/ DropRemove(t) \/ DropHandoff(t) \/ DropNotify(t) \/ DropClose(t)
               \/ DropReturn(t) \/ WaitSleep(t) \/ AwaitRecheck(t) \/ WaitExpire(t)
      PROVE  OwnerOnly'
  BY <1>7, ZenonT(60) DEF DropSwap, DropRemove, DropHandoff, DropNotify, DropClose, DropReturn, WaitSleep,
     AwaitRecheck, WaitExpire, Woken
<1>8. ASSUME NEW t \in Threads,
             OpenStart(t) \/ CloseNotify(t) \/ CloseJoin(t) \/ CloseClear(t) \/ CloseShut(t)
      PROVE  OwnerOnly'
  BY <1>8 DEF OpenStart, CloseNotify, CloseJoin, CloseClear, CloseShut, ClosePassive, Woken
<1>9. ASSUME NEW c \in Clients, PeerConnect(c) \/ PeerHangup(c) PROVE OwnerOnly'
  BY <1>9 DEF PeerConnect, PeerHangup
<1>10. CASE UNCHANGED vars
  BY <1>10 DEF vars
<1> QED BY <1>1, <1>2, <1>3, <1>4, <1>5, <1>6, <1>7, <1>8, <1>9, <1>10
        DEF Next, MonitorStep, ApiStep, ApiCall, WaitCall, WaitWake

\* Between the two halves of open() the listening socket stays in place.
LEMMA OpenedStep ==
  ASSUME TypeInv, [Next]_vars
  PROVE  OpenedHasSocket'
<1> USE DEF TypeInv, TypeOK, OpenedHasSocket, apiVars, objVars
<1>1. CASE MonitorAccept \/ MonitorRemove \/ MonitorPush \/ MonitorErase
  BY <1>1 DEF MonitorAccept, AcceptClient, MonitorRemove, MonitorPush, MonitorErase
<1>2. CASE MonitorAnnounce \/ MonitorFinish
  BY <1>2 DEF MonitorAnnounce, MonitorFinish, Woken
<1>3. CASE MonitorCheck \/ MonitorClear \/ MonitorSnapshot \/ MonitorPoll \/ MonitorPollFails
  BY <1>3 DEF MonitorCheck, MonitorClear, MonitorSnapshot, MonitorPoll, MonitorPollFails
<1>4. CASE MonitorAcceptFails \/ MonitorSkip \/ MonitorEndBatch
  BY <1>4 DEF MonitorAcceptFails, MonitorSkip, MonitorEndBatch
<1>5. ASSUME NEW t \in Threads, OpenSocket(t) \/ CloseShut(t) PROVE OpenedHasSocket'
  <2>1. \A u \in Threads : pc[u] = "opened" => u = t /\ pc[t] # "idle" /\ pc[t] # "shut"
    <3>1. IsOwner(t)
      BY <1>5 DEF OpenSocket, CreatePassive, CloseShut, ClosePassive, IsOwner, OwnerOnly, OwnerStates
    <3>2. \A u \in Threads : pc[u] = "opened" => IsOwner(u)
      BY DEF OwnerOnly, OwnerStates
    <3> QED BY <3>1, <3>2, OwnerAssumption
  <2>2. \A u \in Threads : pc[u] # "opened"
    BY <1>5, <2>1 DEF OpenSocket, CreatePassive, CloseShut, ClosePassive
  <2>3. CASE CloseShut(t)
    BY <2>2, <2>3 DEF CloseShut, ClosePassive
  <2>4. CASE OpenSocket(t)
    BY <2>2, <2>4 DEF OpenSocket, CreatePassive, FreeFds
  <2> QED BY <1>5, <2>3, <2>4
<1>6. ASSUME NEW t \in Threads, NEW o, WaitEvaluate(t, o) PROVE OpenedHasSocket'
  <2>1. \A u \in Threads : pc'[u] = pc[u] \/ pc'[u] \in {"blocking", "recheck", "idle"}
    BY <1>6 DEF WaitEvaluate
  <2> QED BY <1>6, <2>1 DEF WaitEvaluate
<1>7. ASSUME NEW t \in Threads,
             DropSwap(t) \/ DropRemove(t) \/ DropHandoff(t) \/ DropNotify(t) \/ DropClose(t)
               \/ DropReturn(t) \/ WaitSleep(t) \/ AwaitRecheck(t) \/ WaitExpire(t)
      PROVE  OpenedHasSocket'
  BY <1>7, ZenonT(60) DEF DropSwap, DropRemove, DropHandoff, DropNotify, DropClose, DropReturn, WaitSleep,
     AwaitRecheck, WaitExpire, Woken
<1>8. ASSUME NEW t \in Threads,
             OpenStart(t) \/ CloseBegin(t) \/ CloseNotify(t) \/ CloseJoin(t) \/ CloseClear(t)
      PROVE  OpenedHasSocket'
  BY <1>8, ZenonT(60) DEF OpenStart, CloseBegin, CloseNotify, CloseJoin, CloseClear, Woken
<1>9. ASSUME NEW c \in Clients, PeerConnect(c) \/ PeerHangup(c) PROVE OpenedHasSocket'
  BY <1>9 DEF PeerConnect, PeerHangup
<1>10. CASE UNCHANGED vars
  BY <1>10 DEF vars
<1> QED BY <1>1, <1>2, <1>3, <1>4, <1>5, <1>6, <1>7, <1>8, <1>9, <1>10
        DEF Next, MonitorStep, ApiStep, ApiCall, WaitCall, WaitWake

\* Type correctness of the broadcast server, whatever the application calls
\* and whatever the peers do.
THEOREM TypeCorrect == Spec => []TypeOK
<1>1. Init => TypeInv
  BY TypeInit
<1>2. TypeInv /\ [Next]_vars => TypeInv'
  BY TypeStep, CursorStep, OwnerOnlyStep, OpenedStep DEF TypeInv
<1>3. TypeInv => TypeOK
  BY DEF TypeInv
<1> QED BY <1>1, <1>2, <1>3, PTL DEF Spec

------------------------------------------------------------------------------
(* Ownership *)

Core == Descriptors /\ Closers /\ OneCloser /\ Reports

\* A step that moves no client between the holders keeps the core.
LEMMA CoreFrame ==
  ASSUME Core, UNCHANGED <<active, owned, sock, owner, fd, passive, disconnected>>,
         owned => cur' = cur,
         \A t \in Threads : Holding(t)' = Holding(t)
  PROVE  Core'
<1>1. \A c : HasCloser(c)' <=> HasCloser(c)
  BY DEF HasCloser
<1>2. Descriptors' /\ Reports'
  BY DEF Core, Descriptors, Reports
<1>3. Closers'
  BY <1>1 DEF Core, Closers
<1>4. OneCloser'
  BY DEF Core, OneCloser
<1> QED BY <1>2, <1>3, <1>4 DEF Core

\* Holding depends on the thread's position and its two sets only.
LEMMA HoldingFrame ==
  ASSUME UNCHANGED <<pc, mine, todo>>
  PROVE  \A t \in Threads : Holding(t)' = Holding(t)
  BY Zenon DEF Holding

\* A notification changes nobody's holdings.
LEMMA HoldingWoken ==
  ASSUME TypeOK, pc' = Woken, UNCHANGED <<mine, todo>>
  PROVE  \A t \in Threads : Holding(t)' = Holding(t)
<1> SUFFICES ASSUME NEW t \in Threads PROVE Holding(t)' = Holding(t)
  OBVIOUS
<1>1. pc'[t] = pc[t] \/ (pc[t] = "asleep" /\ pc'[t] = "notified")
  BY DEF Woken
<1> QED BY <1>1 DEF Holding

\* Closing the sockets of clients that own theirs frees exactly their
\* descriptors.
LEMMA CloseOwned ==
  ASSUME TypeOK, Core, NEW S \in SUBSET Clients, \A c \in S : sock[c] # None,
         CloseSockets(S)
  PROVE  /\ \A c \in Clients : sock'[c] = IF c \in S THEN None ELSE sock[c]
         /\ \A f \in Fds : owner'[f] = IF owner[f] \in S THEN None ELSE owner[f]
<1>1. \A c \in Clients : sock'[c] = IF c \in S THEN None ELSE sock[c]
  BY DEF CloseSockets
<1>2. ASSUME NEW f \in Fds
      PROVE  (\E c \in S : sock[c] = f) <=> owner[f] \in S
  <2>1. ASSUME NEW c \in S, sock[c] = f PROVE owner[f] \in S
    BY <2>1 DEF Core, Descriptors
  <2>2. ASSUME owner[f] \in S PROVE sock[owner[f]] = f
    BY <2>2 DEF Core, Descriptors
  <2> QED BY <2>1, <2>2
<1>3. \A f \in Fds : owner'[f] = IF owner[f] \in S THEN None ELSE owner[f]
  BY <1>2 DEF CloseSockets
<1> QED BY <1>1, <1>3

\* After that the descriptors still correspond to the open sockets.
LEMMA CloseDescriptors ==
  ASSUME TypeOK, Core, NEW S \in SUBSET Clients, \A c \in S : sock[c] # None,
         CloseSockets(S), UNCHANGED <<fd, passive>>
  PROVE  Descriptors'
<1> USE NullAssumption
<1>1. \A c \in Clients : sock'[c] = IF c \in S THEN None ELSE sock[c]
  BY CloseOwned
<1>2. \A f \in Fds : owner'[f] = IF owner[f] \in S THEN None ELSE owner[f]
  BY CloseOwned
<1>3. ASSUME NEW c \in Clients, sock'[c] # None PROVE owner'[sock'[c]] = c /\ fd'[c] # None
  <2>1. c \notin S /\ sock'[c] = sock[c]
    BY <1>1, <1>3
  <2>2. sock[c] \in Fds /\ owner[sock[c]] = c /\ fd[c] # None
    BY <1>3, <2>1 DEF Core, Descriptors, TypeOK
  <2> QED BY <1>2, <2>1, <2>2
<1>4. ASSUME NEW f \in Fds, owner'[f] \in Clients PROVE sock'[owner'[f]] = f
  <2>1. owner[f] \notin S /\ owner'[f] = owner[f]
    BY <1>2, <1>4
  <2> QED BY <1>1, <1>4, <2>1 DEF Core, Descriptors
<1>5. passive' # None => owner'[passive'] = Server
  BY <1>2 DEF Core, Descriptors, TypeOK
<1> QED BY <1>3, <1>4, <1>5 DEF Descriptors

\* accept() gives the new client a free descriptor and the monitor its only
\* reference.
LEMMA CoreAccept ==
  ASSUME TypeOK, Core, MonitorLocal, MonitorAccept
  PROVE  Core'
<1> USE NullAssumption
<1>1. PICK c \in Queued, f \in FreeFds :
        /\ owner' = [owner EXCEPT ![f] = c]
        /\ fd' = [fd EXCEPT ![c] = f]
        /\ sock' = [sock EXCEPT ![c] = f]
        /\ cur' = c /\ owned' = TRUE
  BY DEF MonitorAccept, AcceptClient
<1>2. /\ c \in Clients /\ f \in Fds /\ owner[f] = None /\ fd[c] = None /\ ~owned
      /\ UNCHANGED <<active, passive, disconnected>>
  BY DEF MonitorAccept, AcceptClient, Queued, FreeFds, MonitorLocal, Dispatching, histVars
<1>3. sock[c] = None /\ ~HasCloser(c) /\ disconnected[c] = 0
  BY <1>2 DEF Core, Descriptors, Closers, Reports
<1>4. \A t \in Threads : Holding(t)' = Holding(t)
  BY HoldingFrame DEF MonitorAccept, AcceptClient, apiVars
<1>5. \A d \in Clients : sock'[d] = IF d = c THEN f ELSE sock[d]
  BY <1>1, <1>2 DEF TypeOK
<1>6. \A d \in Clients : fd'[d] = IF d = c THEN f ELSE fd[d]
  BY <1>1, <1>2 DEF TypeOK
<1>7. \A g \in Fds : owner'[g] = IF g = f THEN c ELSE owner[g]
  BY <1>1, <1>2 DEF TypeOK
<1>8. Descriptors'
  <2>1. ASSUME NEW d \in Clients, sock'[d] # None PROVE owner'[sock'[d]] = d /\ fd'[d] # None
    <3>1. CASE d = c
      BY <1>2, <1>5, <1>6, <1>7, <3>1
    <3>2. CASE d # c
      <4>1. sock[d] # None /\ sock[d] \in Fds
        BY <1>5, <2>1, <3>2 DEF TypeOK
      <4>2. owner[sock[d]] = d /\ fd[d] # None
        BY <4>1 DEF Core, Descriptors
      <4>3. sock[d] # f
        BY <1>2, <4>2
      <4> QED BY <1>5, <1>6, <1>7, <3>2, <4>1, <4>2, <4>3
    <3> QED BY <3>1, <3>2
  <2>2. ASSUME NEW g \in Fds, owner'[g] \in Clients PROVE sock'[owner'[g]] = g
    BY <1>2, <1>3, <1>5, <1>7, <2>2 DEF Core, Descriptors
  <2>3. passive' # None => owner'[passive'] = Server
    BY <1>2, <1>7 DEF Core, Descriptors, TypeOK
  <2> QED BY <2>1, <2>2, <2>3 DEF Descriptors
<1>9. \A d \in Clients : HasCloser(d)' <=> HasCloser(d) \/ d = c
  BY <1>1, <1>2, <1>4 DEF HasCloser
<1>10. Closers'
  BY <1>2, <1>5, <1>9 DEF Core, Closers
<1>11. OneCloser'
  BY <1>1, <1>2, <1>3, <1>4 DEF Core, OneCloser, HasCloser
<1>12. Reports'
  BY <1>2, <1>3, <1>5, <1>6 DEF Core, Reports
<1> QED BY <1>8, <1>10, <1>11, <1>12 DEF Core

\* push_back and erase move one client between the monitor and the list.
LEMMA CorePushErase ==
  ASSUME TypeInv, Core, MonitorLocal, MonitorPush \/ MonitorErase
  PROVE  Core'
<1>1. \A t \in Threads : Holding(t)' = Holding(t)
  BY HoldingFrame DEF MonitorPush, MonitorErase, apiVars
<1>2. cur \in Clients /\ cur' = cur
  BY DEF MonitorPush, MonitorErase, TypeInv, HasCursor
<1>3. UNCHANGED <<sock, owner, fd, passive, disconnected>>
  BY DEF MonitorPush, MonitorErase, cliVars, kernVars, histVars
<1>4. \/ owned /\ active' = active \cup {cur} /\ ~owned'
      \/ ~owned /\ active' = active \ {cur} /\ owned' = (cur \in active)
  BY DEF MonitorPush, MonitorErase, MonitorLocal
<1>5. Descriptors' /\ Reports'
  BY <1>3 DEF Core, Descriptors, Reports
<1>6. \A d \in Clients : HasCloser(d)' <=> HasCloser(d)
  BY <1>1, <1>2, <1>4 DEF HasCloser
<1>7. Closers'
  BY <1>3, <1>6 DEF Core, Closers
<1>8. OneCloser'
  <2>1. \A t \in Threads : active' \cap Holding(t)' = {}
    BY <1>1, <1>4 DEF Core, OneCloser
  <2>2. \A t, u \in Threads : t # u => Holding(t)' \cap Holding(u)' = {}
    BY <1>1 DEF Core, OneCloser
  <2>3. owned' => cur' \notin active' /\ \A t \in Threads : cur' \notin Holding(t)'
    BY <1>1, <1>2, <1>4, ZenonT(60) DEF Core, OneCloser
  <2> QED BY <2>1, <2>2, <2>3 DEF OneCloser
<1> QED BY <1>5, <1>7, <1>8 DEF Core

\* The callback raises a client's count from 0 to at most 1.
LEMMA ReportOnce ==
  ASSUME TypeOK, Core, NEW c \in Clients, sock[c] # None,
         CloseSockets({c}), OnDisconnected(c), UNCHANGED fd
  PROVE  Reports'
<1>1. disconnected[c] = 0 /\ fd[c] # None
  BY DEF Core, Reports, Descriptors
<1>2. \A d \in Clients : d # c => disconnected'[d] = disconnected[d]
  BY DEF OnDisconnected, TypeOK
<1>3. disconnected'[c] \in {0, 1}
  BY <1>1 DEF OnDisconnected, TypeOK
<1>4. \A d \in Clients : sock'[d] = IF d = c THEN None ELSE sock[d]
  BY DEF CloseSockets
<1> QED BY <1>1, <1>2, <1>3, <1>4 DEF Core, Reports

\* The monitor closes and reports the client it erased.
LEMMA CoreFinish ==
  ASSUME TypeInv, Core, MonitorLocal, MonitorFinish
  PROVE  Core'
<1>1. \A t \in Threads : Holding(t)' = Holding(t)
  BY HoldingWoken DEF MonitorFinish, TypeInv
<1>2. UNCHANGED <<active, fd, passive>> /\ ~owned'
  BY DEF MonitorFinish, objVars
<1>3. CASE owned
  <2>1. CloseSockets({cur}) /\ OnDisconnected(cur) /\ cur \in Clients /\ TypeOK
    BY <1>3 DEF MonitorFinish, TypeInv, HasCursor
  <2>2. sock[cur] # None
    BY <1>3, <2>1 DEF Core, Closers, HasCloser
  <2>3. Descriptors'
    BY <1>2, <2>1, <2>2, CloseDescriptors
  <2>4. Reports'
    BY <1>2, <2>1, <2>2, ReportOnce
  <2>5. \A d \in Clients : sock'[d] = IF d = cur THEN None ELSE sock[d]
    BY <2>1 DEF CloseSockets
  <2>6. \A d \in Clients : HasCloser(d)' <=> HasCloser(d) /\ d # cur
    BY <1>1, <1>2, <1>3 DEF HasCloser, Core, OneCloser
  <2>7. Closers'
    BY <2>5, <2>6 DEF Core, Closers
  <2>8. OneCloser'
    BY <1>1, <1>2 DEF Core, OneCloser
  <2> QED BY <2>3, <2>4, <2>7, <2>8 DEF Core
<1>4. CASE ~owned
  <2>1. owned' = owned
    BY <1>4 DEF MonitorFinish, TypeInv, TypeOK
  <2>2. UNCHANGED <<active, owned, sock, owner, fd, passive, disconnected>>
    BY <1>2, <1>4, <2>1 DEF MonitorFinish
  <2> QED BY <1>1, <1>4, <2>2, CoreFrame
<1> QED BY <1>3, <1>4

\* swap() moves the whole list to the thread inside dropAll().
LEMMA CoreSwap ==
  ASSUME TypeOK, Core, NEW t \in Threads, DropSwap(t)
  PROVE  Core'
<1>1. UNCHANGED <<owned, cur, sock, owner, fd, passive, disconnected>> /\ active' = {}
  BY DEF DropSwap, monVars, cliVars, kernVars, histVars
<1>2. Holding(t) = {} /\ Holding(t)' = active
  BY DEF DropSwap, Holding, TypeOK
<1>3. \A u \in Threads : u # t => Holding(u)' = Holding(u)
  BY DEF DropSwap, Holding, TypeOK
<1>4. \A d \in Clients : HasCloser(d)' <=> HasCloser(d)
  BY <1>1, <1>2, <1>3 DEF HasCloser
<1>5. Descriptors' /\ Reports'
  BY <1>1 DEF Core, Descriptors, Reports
<1>6. Closers'
  BY <1>1, <1>4 DEF Core, Closers
<1>7. OneCloser'
  <2>1. \A u \in Threads : active' \cap Holding(u)' = {}
    BY <1>1
  <2>2. \A u, v \in Threads : u # v => Holding(u)' \cap Holding(v)' = {}
    BY <1>2, <1>3 DEF Core, OneCloser
  <2>3. owned' => cur' \notin active' /\ \A u \in Threads : cur' \notin Holding(u)'
    BY <1>1, <1>2, <1>3 DEF Core, OneCloser
  <2> QED BY <2>1, <2>2, <2>3 DEF OneCloser
<1> QED BY <1>5, <1>6, <1>7 DEF Core

\* The other steps of dropAll() before its closing loop keep what it holds.
LEMMA CoreDropFrame ==
  ASSUME TypeOK, Core, NEW t \in Threads,
         DropRemove(t) \/ DropHandoff(t) \/ DropNotify(t) \/ DropReturn(t)
  PROVE  Core'
<1>1. UNCHANGED <<active, owned, cur, sock, owner, fd, passive, disconnected>>
  BY DEF DropRemove, DropHandoff, DropNotify, DropReturn, objVars, monVars, cliVars, kernVars, histVars
<1>2. CASE DropRemove(t)
  BY <1>1, <1>2, CoreFrame DEF DropRemove, Holding, TypeOK
<1>3. CASE DropHandoff(t)
  BY <1>1, <1>3, CoreFrame DEF DropHandoff, Holding, TypeOK
<1>4. CASE DropNotify(t)
  <2>1. \A u \in Threads : u # t => pc'[u] = pc[u] \/ (pc[u] = "asleep" /\ pc'[u] = "notified")
    BY <1>4 DEF DropNotify, Woken
  <2>2. Holding(t)' = Holding(t)
    BY <1>4 DEF DropNotify, Woken, Holding, TypeOK
  <2>3. \A u \in Threads : u # t => Holding(u)' = Holding(u)
    BY <1>4, <2>1 DEF DropNotify, Holding, TypeOK
  <2> QED BY <1>1, <2>2, <2>3, CoreFrame
<1>5. CASE DropReturn(t)
  BY <1>1, <1>5, CoreFrame DEF DropReturn, Holding, TypeOK
<1> QED BY <1>2, <1>3, <1>4, <1>5

\* One turn of dropAll()'s closing loop.
LEMMA CoreDropClose ==
  ASSUME TypeOK, Core, NEW t \in Threads, DropClose(t)
  PROVE  Core'
<1>1. PICK c \in todo[t] : /\ CloseSockets({c})
                           /\ OnDisconnected(c)
                           /\ todo' = [todo EXCEPT ![t] = @ \ {c}]
  BY DEF DropClose
<1>2. UNCHANGED <<active, owned, cur, fd, passive>> /\ c \in Clients
  BY DEF DropClose, objVars, monVars, TypeOK
<1>3. Holding(t) = todo[t] /\ Holding(t)' = todo[t] \ {c}
  BY <1>1 DEF DropClose, Holding, TypeOK
<1>4. \A u \in Threads : u # t => Holding(u)' = Holding(u)
  BY <1>1 DEF DropClose, Holding, TypeOK
<1>5. sock[c] # None
  BY <1>2, <1>3 DEF Core, Closers, HasCloser
<1>6. Descriptors'
  BY <1>1, <1>2, <1>5, CloseDescriptors
<1>7. Reports'
  BY <1>1, <1>2, <1>5, ReportOnce
<1>8. \A d \in Clients : sock'[d] = IF d = c THEN None ELSE sock[d]
  BY <1>1 DEF CloseSockets
<1>9. \A d \in Clients : HasCloser(d)' <=> HasCloser(d) /\ d # c
  <2>1. c \notin active /\ ~(owned /\ cur = c) /\ \A u \in Threads : u # t => c \notin Holding(u)
    BY <1>3 DEF Core, OneCloser
  <2> QED BY <1>2, <1>3, <1>4, <2>1 DEF HasCloser
<1>10. Closers'
  BY <1>8, <1>9 DEF Core, Closers
<1>11. OneCloser'
  <2>1. \A u \in Threads : Holding(u)' \subseteq Holding(u)
    BY <1>3, <1>4
  <2> QED BY <1>2, <2>1 DEF Core, OneCloser
<1> QED BY <1>6, <1>7, <1>10, <1>11 DEF Core

\* close() closes the sockets of the whole list and empties it.
LEMMA CoreCloseClear ==
  ASSUME TypeOK, Core, NEW t \in Threads, CloseClear(t)
  PROVE  Core'
<1>1. /\ UNCHANGED <<owned, cur, fd, passive, disconnected>> /\ active' = {}
      /\ CloseSockets(active) /\ active \in SUBSET Clients
  BY DEF CloseClear, monVars, histVars, TypeOK
<1>2. \A u \in Threads : Holding(u)' = Holding(u)
  BY DEF CloseClear, Holding, TypeOK
<1>3. \A c \in active : sock[c] # None
  BY DEF Core, Closers, HasCloser, TypeOK
<1>4. Descriptors'
  BY <1>1, <1>3, CloseDescriptors
<1>5. \A d \in Clients : sock'[d] = IF d \in active THEN None ELSE sock[d]
  BY <1>1 DEF CloseSockets
<1>6. Reports'
  BY <1>1, <1>5 DEF Core, Reports
<1>7. \A d \in Clients : HasCloser(d)' <=> HasCloser(d) /\ d \notin active
  BY <1>1, <1>2 DEF HasCloser, Core, OneCloser
<1>8. Closers'
  BY <1>5, <1>7 DEF Core, Closers
<1>9. OneCloser'
  BY <1>1, <1>2 DEF Core, OneCloser
<1> QED BY <1>4, <1>6, <1>8, <1>9 DEF Core

\* open() takes a free descriptor and close() frees the server's own: no
\* client's descriptor is touched.
LEMMA CoreServerSocket ==
  ASSUME TypeOK, Core, NEW t \in Threads, OpenSocket(t) \/ CloseShut(t)
  PROVE  Core'
<1> USE NullAssumption
<1>1. UNCHANGED <<active, owned, cur, sock, fd, disconnected>>
  BY DEF OpenSocket, CreatePassive, CloseShut, ClosePassive, monVars, cliVars, histVars
<1>2. \A u \in Threads : Holding(u)' = Holding(u)
  <2>1. UNCHANGED <<mine, todo>>
    BY DEF OpenSocket, CreatePassive, CloseShut, ClosePassive
  <2>2. \A u \in Threads : pc'[u] = pc[u] \/ {pc[u], pc'[u]} \subseteq {"idle", "opened", "shut"}
    BY DEF OpenSocket, CreatePassive, CloseShut, ClosePassive, TypeOK
  <2> QED BY <2>1, <2>2 DEF Holding
<1>3. ASSUME OpenSocket(t)
      PROVE  \A f \in Fds : owner'[f] = owner[f] \/ (owner[f] = None /\ owner'[f] = Server)
  <2>1. owner' = owner \/ \E f \in Fds : owner[f] = None /\ owner' = [owner EXCEPT ![f] = Server]
    BY <1>3, Zenon DEF OpenSocket, CreatePassive, FreeFds
  <2> QED BY <2>1 DEF TypeOK
<1>4. \A f \in Fds : owner[f] \in Clients <=> owner'[f] \in Clients
  <2>1. CASE OpenSocket(t)
    BY <1>3, <2>1
  <2>2. CASE CloseShut(t)
    BY <2>2 DEF CloseShut, ClosePassive, TypeOK, Core, Descriptors
  <2> QED BY <2>1, <2>2
<1>5. \A f \in Fds : owner[f] \in Clients => owner'[f] = owner[f]
  <2>1. CASE OpenSocket(t)
    BY <1>3, <2>1
  <2>2. CASE CloseShut(t)
    BY <2>2 DEF CloseShut, ClosePassive, TypeOK, Core, Descriptors
  <2> QED BY <2>1, <2>2
<1>6. passive' # None => owner'[passive'] = Server
  BY DEF OpenSocket, CreatePassive, CloseShut, ClosePassive, FreeFds, TypeOK
<1>7. Descriptors'
  <2>1. ASSUME NEW c \in Clients, sock'[c] # None PROVE owner'[sock'[c]] = c /\ fd'[c] # None
    BY <1>1, <1>5, <2>1 DEF Core, Descriptors, TypeOK
  <2>2. ASSUME NEW f \in Fds, owner'[f] \in Clients PROVE sock'[owner'[f]] = f
    BY <1>1, <1>4, <1>5, <2>2 DEF Core, Descriptors
  <2> QED BY <1>6, <2>1, <2>2 DEF Descriptors
<1>8. Closers'
  <2>1. \A c \in Clients : HasCloser(c)' <=> HasCloser(c)
    BY <1>1, <1>2 DEF HasCloser
  <2> QED BY <1>1, <2>1 DEF Core, Closers
<1>9. OneCloser' /\ Reports'
  BY <1>1, <1>2 DEF Core, OneCloser, Reports
<1> QED BY <1>7, <1>8, <1>9 DEF Core

\* All other steps leave clients where they are.
LEMMA CoreOtherSteps ==
  ASSUME TypeInv, Core, MonitorLocal,
         \/ MonitorCheck \/ MonitorClear \/ MonitorSnapshot \/ MonitorPoll \/ MonitorPollFails
         \/ MonitorAcceptFails \/ MonitorAnnounce \/ MonitorRemove \/ MonitorSkip \/ MonitorEndBatch
         \/ \E t \in Threads :
              \/ OpenStart(t) \/ CloseBegin(t) \/ CloseNotify(t) \/ CloseJoin(t)
              \/ WaitSleep(t) \/ WaitExpire(t) \/ AwaitRecheck(t)
              \/ \E o \in {"none", "await", "awaitClose"} :
                   pc[t] \in {"idle", "notified", "expired"} /\ WaitEvaluate(t, o)
         \/ \E c \in Clients : PeerConnect(c) \/ PeerHangup(c)
         \/ UNCHANGED vars
  PROVE  Core'
<1> USE DEF objVars, monVars, apiVars, cliVars, kernVars, histVars
<1> TypeOK
  BY DEF TypeInv
<1>1. CASE MonitorCheck \/ MonitorClear \/ MonitorSnapshot \/ MonitorPoll \/ MonitorPollFails
           \/ MonitorAcceptFails \/ MonitorSkip \/ MonitorEndBatch
  <2>1. UNCHANGED <<active, owned, cur, sock, owner, fd, passive, disconnected, pc, mine, todo>>
    BY <1>1 DEF MonitorCheck, MonitorClear, MonitorSnapshot, MonitorPoll, MonitorPollFails,
       MonitorAcceptFails, MonitorSkip, MonitorEndBatch
  <2> QED BY <2>1, HoldingFrame, CoreFrame
<1>2. CASE MonitorRemove
  <2>1. UNCHANGED <<active, owned, sock, owner, fd, passive, disconnected, pc, mine, todo>> /\ ~owned
    BY <1>2 DEF MonitorRemove, Dispatching, MonitorLocal
  <2> QED BY <2>1, HoldingFrame, CoreFrame
<1>3. CASE MonitorAnnounce
  <2>1. /\ UNCHANGED <<active, owned, sock, owner, fd, passive, disconnected, mine, todo>> /\ ~owned
        /\ pc' = Woken
    BY <1>3 DEF MonitorAnnounce, MonitorLocal
  <2> QED BY <2>1, HoldingWoken, CoreFrame
<1>4. ASSUME NEW t \in Threads,
             \/ OpenStart(t) \/ CloseBegin(t) \/ CloseNotify(t) \/ CloseJoin(t)
             \/ WaitSleep(t) \/ WaitExpire(t) \/ AwaitRecheck(t)
             \/ \E o \in {"none", "await", "awaitClose"} :
                  pc[t] \in {"idle", "notified", "expired"} /\ WaitEvaluate(t, o)
      PROVE  Core'
  <2>1. UNCHANGED <<active, owned, cur, sock, owner, fd, passive, disconnected, mine, todo>>
    BY <1>4 DEF OpenStart, CloseBegin, CloseNotify, CloseJoin, WaitSleep, WaitExpire,
       AwaitRecheck, WaitEvaluate
  <2> DEFINE Out == ThreadStates \ {"remove", "dropnotify", "dropclose"}
  <2>2. \A u \in Threads : pc'[u] = pc[u] \/ (pc[u] \in Out /\ pc'[u] \in Out)
    <3>1. CASE OpenStart(t) \/ CloseBegin(t) \/ CloseJoin(t) \/ WaitSleep(t) \/ WaitExpire(t)
               \/ AwaitRecheck(t)
      BY <3>1 DEF OpenStart, CloseBegin, CloseJoin, WaitSleep, WaitExpire, AwaitRecheck,
         TypeOK, ThreadStates
    <3>2. CASE CloseNotify(t)
      BY <3>2 DEF CloseNotify, Woken, TypeOK, ThreadStates
    <3>3. ASSUME NEW o \in {"none", "await", "awaitClose"},
                 pc[t] \in {"idle", "notified", "expired"}, WaitEvaluate(t, o)
          PROVE  \A u \in Threads : pc'[u] = pc[u] \/ (pc[u] \in Out /\ pc'[u] \in Out)
      <4>1. \E x \in {"blocking", "recheck", "idle"} : pc' = [pc EXCEPT ![t] = x]
        BY <3>3, Zenon DEF WaitEvaluate
      <4> QED BY <3>3, <4>1 DEF TypeOK, ThreadStates
    <3> QED BY <1>4, <3>1, <3>2, <3>3
  <2>3. \A u \in Threads : Holding(u)' = Holding(u)
    BY <2>1, <2>2 DEF Holding
  <2> QED BY <2>1, <2>3, CoreFrame
<1>5. CASE (\E c \in Clients : PeerConnect(c) \/ PeerHangup(c)) \/ UNCHANGED vars
  <2>1. UNCHANGED <<active, owned, cur, sock, owner, fd, passive, disconnected, pc, mine, todo>>
    BY <1>5 DEF PeerConnect, PeerHangup, vars
  <2> QED BY <2>1, HoldingFrame, CoreFrame
<1> QED BY <1>1, <1>2, <1>3, <1>4, <1>5

\* The monitor holds a reference in two states only, and runs without the
\* flag only while the owner is about to join it.
LEMMA MonitorLocalStep ==
  ASSUME TypeInv, MonitorLocal, [Next]_vars
  PROVE  MonitorLocal'
<1> USE DEF objVars, monVars, apiVars
<1> DEFINE Joining == \E t \in Threads : pc[t] \in {"notify", "join"}
           Reference == (owned => mpc \in {"push", "finish"}) /\ (mpc = "push" => owned)
           Running == ~isMonitoring => mpc = "none" \/ Joining
<1> TypeOK /\ Reference /\ Running
  BY DEF TypeInv, MonitorLocal
<1>1. CASE MonitorCheck \/ MonitorClear \/ MonitorSnapshot \/ MonitorPoll \/ MonitorPollFails
           \/ MonitorAcceptFails \/ MonitorSkip \/ MonitorEndBatch \/ MonitorRemove
  <2>1. UNCHANGED <<isMonitoring, pc, owned>> /\ mpc # "none" /\ ~owned /\ mpc' # "push"
    BY <1>1 DEF MonitorCheck, MonitorClear, MonitorSnapshot, MonitorPoll, MonitorPollFails,
       MonitorAcceptFails, MonitorSkip, MonitorEndBatch, MonitorRemove, Dispatching
  <2> QED BY <2>1 DEF MonitorLocal
<1>2. CASE MonitorAccept \/ MonitorPush \/ MonitorErase
  <2>1. UNCHANGED <<isMonitoring, pc>> /\ mpc # "none"
    BY <1>2 DEF MonitorAccept, AcceptClient, MonitorPush, MonitorErase, Dispatching
  <2>2. Reference'
    BY <1>2 DEF MonitorAccept, AcceptClient, MonitorPush, MonitorErase
  <2> QED BY <2>1, <2>2 DEF MonitorLocal
<1>3. CASE MonitorAnnounce \/ MonitorFinish
  <2>1. /\ isMonitoring' = isMonitoring /\ pc' = Woken /\ mpc # "none"
        /\ mpc' = "dispatch" /\ ~owned'
    BY <1>3 DEF MonitorAnnounce, MonitorFinish
  <2>2. Joining => Joining'
    BY <2>1 DEF Woken
  <2> QED BY <2>1, <2>2 DEF MonitorLocal
<1>4. ASSUME NEW t \in Threads, OpenStart(t) PROVE MonitorLocal'
  <2>1. ~Joining
    <3>1. \A u \in Threads : pc[u] \in {"notify", "join", "opened"} => IsOwner(u)
      BY DEF TypeInv, OwnerOnly, OwnerStates
    <3> QED BY <1>4, <3>1, OwnerAssumption DEF OpenStart
  <2>2. /\ isMonitoring' = TRUE /\ owned' = owned
        /\ mpc' = mpc \/ (mpc = "none" /\ mpc' = "top")
    BY <1>4, <2>1 DEF OpenStart
  <2> QED BY <2>2 DEF MonitorLocal
<1>5. ASSUME NEW t \in Threads, CloseBegin(t) PROVE MonitorLocal'
  <2>1. UNCHANGED <<mpc, owned>>
    BY <1>5 DEF CloseBegin
  <2>2. CASE isMonitoring
    <3>1. pc'[t] = "notify"
      BY <1>5, <2>2 DEF CloseBegin, TypeOK
    <3> QED BY <2>1, <3>1 DEF MonitorLocal
  <2>3. CASE ~isMonitoring
    <3>1. ~Joining
      <4>1. \A u \in Threads : pc[u] \in {"notify", "join"} => IsOwner(u)
        BY DEF TypeInv, OwnerOnly, OwnerStates
      <4>2. IsOwner(t) /\ pc[t] = "idle"
        BY <1>5, Zenon DEF CloseBegin, IsOwner
      <4> QED BY <4>1, <4>2, OwnerAssumption
    <3> QED BY <2>1, <2>3, <3>1 DEF MonitorLocal
  <2> QED BY <2>2, <2>3
<1>6. ASSUME NEW t \in Threads, CloseNotify(t) PROVE MonitorLocal'
  <2>1. UNCHANGED <<mpc, owned>> /\ pc'[t] = "join"
    BY <1>6 DEF CloseNotify, Woken
  <2> QED BY <2>1 DEF MonitorLocal
<1>7. ASSUME NEW t \in Threads, CloseJoin(t) PROVE MonitorLocal'
  BY <1>7 DEF CloseJoin, MonitorLocal
<1>8. ASSUME NEW t \in Threads,
             \/ OpenSocket(t) \/ CloseClear(t) \/ CloseShut(t)
             \/ DropSwap(t) \/ DropRemove(t) \/ DropHandoff(t) \/ DropNotify(t) \/ DropClose(t)
             \/ DropReturn(t) \/ WaitSleep(t) \/ AwaitRecheck(t) \/ WaitExpire(t)
             \/ \E o \in {"await", "awaitClose"} : WaitCall(t, o)
             \/ WaitWake(t)
      PROVE  MonitorLocal'
  <2>1. UNCHANGED <<isMonitoring, mpc, owned>>
    BY <1>8 DEF OpenSocket, CreatePassive, CloseClear, CloseShut, ClosePassive, DropSwap, DropRemove, DropHandoff, DropNotify,
       DropClose, DropReturn, WaitSleep, AwaitRecheck, WaitExpire, WaitCall, WaitWake, WaitEvaluate
  <2>2. pc[t] \notin {"notify", "join"}
    BY <1>8 DEF OpenSocket, CreatePassive, CloseClear, CloseShut, ClosePassive, DropSwap, DropRemove, DropHandoff, DropNotify,
       DropClose, DropReturn, WaitSleep, AwaitRecheck, WaitExpire, WaitCall, WaitWake
  <2>3. \A u \in Threads : u # t => pc'[u] = pc[u] \/ pc[u] = "asleep"
    BY <1>8 DEF OpenSocket, CreatePassive, CloseClear, CloseShut, ClosePassive, DropSwap, DropRemove, DropHandoff, DropNotify,
       DropClose, DropReturn, WaitSleep, AwaitRecheck, WaitExpire, WaitCall, WaitWake,
       WaitEvaluate, Woken, TypeOK
  <2>4. Joining => Joining'
    BY <2>2, <2>3
  <2> QED BY <2>1, <2>4 DEF MonitorLocal
<1>9. CASE (\E c \in Clients : PeerConnect(c) \/ PeerHangup(c)) \/ UNCHANGED vars
  BY <1>9 DEF PeerConnect, PeerHangup, vars, MonitorLocal
<1> QED BY <1>1, <1>2, <1>3, <1>4, <1>5, <1>6, <1>7, <1>8, <1>9
        DEF Next, MonitorStep, ApiStep, ApiCall

\* Every step preserves the ownership invariant.
LEMMA OwnershipStep ==
  ASSUME TypeInv, Ownership, [Next]_vars
  PROVE  Ownership'
<1> Core /\ MonitorLocal /\ TypeOK
  BY DEF Ownership, Core, TypeInv
<1>1. MonitorLocal'
  BY MonitorLocalStep
<1>2. Core'
  <2>1. CASE MonitorAccept
    BY <2>1, CoreAccept
  <2>2. CASE MonitorPush \/ MonitorErase
    BY <2>2, CorePushErase
  <2>3. CASE MonitorFinish
    BY <2>3, CoreFinish
  <2>4. ASSUME NEW t \in Threads, DropSwap(t) PROVE Core'
    BY <2>4, CoreSwap
  <2>5. ASSUME NEW t \in Threads, DropRemove(t) \/ DropHandoff(t) \/ DropNotify(t) \/ DropReturn(t)
        PROVE  Core'
    BY <2>5, CoreDropFrame
  <2>6. ASSUME NEW t \in Threads, DropClose(t) PROVE Core'
    BY <2>6, CoreDropClose
  <2>7. ASSUME NEW t \in Threads, CloseClear(t) PROVE Core'
    BY <2>7, CoreCloseClear
  <2>8. ASSUME NEW t \in Threads, OpenSocket(t) \/ CloseShut(t) PROVE Core'
    BY <2>8, CoreServerSocket
  <2>9. ASSUME NEW t \in Threads, NEW o \in {"await", "awaitClose"}, WaitCall(t, o) PROVE Core'
    BY <2>9, CoreOtherSteps DEF WaitCall
  <2>10. ASSUME NEW t \in Threads, WaitWake(t) PROVE Core'
    <3>1. op[t] \in {"none", "await", "awaitClose"}
      BY DEF TypeOK
    <3>2. pc[t] \in {"idle", "notified", "expired"} /\ WaitEvaluate(t, op[t])
      BY <2>10 DEF WaitWake
    <3> QED BY <3>1, <3>2, CoreOtherSteps
  <2>11. ASSUME NEW t \in Threads,
                \/ OpenStart(t) \/ CloseBegin(t) \/ CloseNotify(t) \/ CloseJoin(t)
                \/ WaitSleep(t) \/ WaitExpire(t) \/ AwaitRecheck(t)
         PROVE  Core'
    BY <2>11, CoreOtherSteps
  <2>12. CASE \/ MonitorCheck \/ MonitorClear \/ MonitorSnapshot \/ MonitorPoll \/ MonitorPollFails
              \/ MonitorAcceptFails \/ MonitorAnnounce \/ MonitorRemove \/ MonitorSkip
              \/ MonitorEndBatch
    BY <2>12, CoreOtherSteps
  <2>13. CASE (\E c \in Clients : PeerConnect(c) \/ PeerHangup(c)) \/ UNCHANGED vars
    BY <2>13, CoreOtherSteps
  <2> QED BY <2>1, <2>2, <2>3, <2>4, <2>5, <2>6, <2>7, <2>8, <2>9, <2>10, <2>11, <2>12, <2>13
          DEF Next, MonitorStep, ApiStep, ApiCall
<1> QED BY <1>1, <1>2 DEF Ownership, Core

\* Initially nobody holds anything.
LEMMA OwnershipInit == Init => Ownership
<1> SUFFICES ASSUME Init PROVE Ownership
  OBVIOUS
<1> USE NullAssumption DEF Init
<1>1. \A t \in Threads : Holding(t) = {}
  BY DEF Holding
<1>2. \A c \in Clients : ~HasCloser(c)
  BY <1>1 DEF HasCloser
<1>3. Descriptors
  BY DEF Descriptors
<1>4. Closers /\ Reports
  BY <1>2 DEF Closers, Reports
<1>5. OneCloser /\ MonitorLocal
  BY <1>1 DEF OneCloser, MonitorLocal
<1> QED BY <1>3, <1>4, <1>5 DEF Ownership

\* At every moment each open connection belongs to exactly one of the active
\* list, the monitor and the threads inside dropAll().
THEOREM OwnershipInvariant == Spec => [](TypeInv /\ Ownership)
<1>1. Init => TypeInv /\ Ownership
  BY TypeInit, OwnershipInit
<1>2. TypeInv /\ Ownership /\ [Next]_vars => (TypeInv /\ Ownership)'
  BY TypeStep, CursorStep, OwnerOnlyStep, OpenedStep, OwnershipStep DEF TypeInv
<1> QED BY <1>1, <1>2, PTL DEF Spec

\* The server never closes a descriptor that has been given to another
\* connection meanwhile.
THEOREM DescriptorSafety == Spec => []SocketOwnsItsFd
<1>1. Ownership => SocketOwnsItsFd
  BY DEF Ownership, Descriptors, SocketOwnsItsFd
<1> QED BY <1>1, OwnershipInvariant, PTL

\* onClientDisconnected runs at most once per client, although the monitor
\* and any number of dropAll() calls compete for it.
THEOREM SingleDisconnect == Spec => []NoDoubleDisconnect
<1>1. Ownership => NoDoubleDisconnect
  <2> SUFFICES ASSUME Ownership, NEW c \in Clients PROVE disconnected[c] <= 1
    BY DEF NoDoubleDisconnect
  <2>1. disconnected[c] = 0 \/ disconnected[c] = 1
    BY DEF Ownership, Reports
  <2> QED BY <2>1
<1> QED BY <1>1, OwnershipInvariant, PTL

\* No accepted descriptor is left without somebody who will close it.
THEOREM LeakFreedom == Spec => []NoDescriptorLeak
<1>1. TypeInv /\ Ownership => NoDescriptorLeak
  <2> SUFFICES ASSUME TypeInv, Ownership, NEW f \in Fds, owner[f] \in Clients
               PROVE  sock[owner[f]] = f /\ HasCloser(owner[f])
    BY DEF NoDescriptorLeak
  <2>1. sock[owner[f]] = f
    BY DEF Ownership, Descriptors
  <2>2. sock[owner[f]] # None
    BY <2>1, NullAssumption
  <2> QED BY <2>1, <2>2 DEF Ownership, Closers
<1> QED BY <1>1, OwnershipInvariant, PTL

------------------------------------------------------------------------------
(* The life cycle of the server *)

\* close() clears the lists, the socket and _handler after it joined the monitor.
JoinedFirst == \A t \in Threads : pc[t] \in {"clear", "shut"} => mpc = "none"

\* From the beginning of close() to its end the flag is down.
ClosingStopped ==
  \A t \in Threads : pc[t] \in {"notify", "join", "clear", "shut"} => ~isMonitoring

\* While the owner is inside open() or close() no other thread is.
LEMMA OneOwner ==
  ASSUME TypeInv, NEW t \in Threads, NEW u \in Threads, IsOwner(t), pc[u] \in OwnerStates
  PROVE  u = t
  BY OwnerAssumption DEF TypeInv, OwnerOnly

\* What one evaluation of the predicate may do to the thread's position.
LEMMA WaitOutcomes ==
  ASSUME NEW t \in Threads, NEW o, WaitEvaluate(t, o)
  PROVE  /\ mtx = None
         /\ \/ /\ mtx' = t /\ ~Reached(o) /\ isMonitoring
               /\ op' = [op EXCEPT ![t] = o] /\ pc' = [pc EXCEPT ![t] = "blocking"]
            \/ /\ mtx' = mtx /\ op' = [op EXCEPT ![t] = "none"]
               /\ \E x \in {"recheck", "idle"} : pc' = [pc EXCEPT ![t] = x]
  BY Zenon DEF WaitEvaluate

\* A call or a wake-up is one evaluation by a thread outside any critical section.
LEMMA WaitStarts ==
  ASSUME NEW t \in Threads, WaitWake(t) \/ \E o \in {"await", "awaitClose"} : WaitCall(t, o)
  PROVE  pc[t] \in {"idle", "notified", "expired"} /\ \E o : WaitEvaluate(t, o)
  BY DEF WaitWake, WaitCall

\* The steps of the monitor and of the network do not touch the mutex.
LEMMA OutsideSteps ==
  ASSUME TypeOK, MonitorStep \/ MonitorPollFails \/ (\E c \in Clients : PeerConnect(c) \/ PeerHangup(c))
         \/ UNCHANGED vars
  PROVE  /\ UNCHANGED <<mtx, op, isMonitoring, opens>>
         /\ \A t \in Threads : pc'[t] = pc[t] \/ (pc[t] = "asleep" /\ pc'[t] = "notified")
<1> USE DEF objVars, monVars, apiVars, cliVars, kernVars, histVars
<1>1. CASE MonitorAnnounce \/ MonitorFinish
  BY <1>1 DEF MonitorAnnounce, MonitorFinish, Woken
<1>2. CASE MonitorCheck \/ MonitorClear \/ MonitorSnapshot \/ MonitorPoll \/ MonitorPollFails
           \/ MonitorAccept \/ MonitorAcceptFails \/ MonitorPush \/ MonitorRemove \/ MonitorErase
           \/ MonitorSkip \/ MonitorEndBatch
  BY <1>2 DEF MonitorCheck, MonitorClear, MonitorSnapshot, MonitorPoll, MonitorPollFails,
     MonitorAccept, MonitorAcceptFails, MonitorPush, MonitorRemove, MonitorErase,
     MonitorSkip, MonitorEndBatch
<1>3. CASE (\E c \in Clients : PeerConnect(c) \/ PeerHangup(c)) \/ UNCHANGED vars
  BY <1>3 DEF PeerConnect, PeerHangup, vars
<1> QED BY <1>1, <1>2, <1>3 DEF MonitorStep

\* Every step preserves JoinedFirst.
LEMMA JoinedStep ==
  ASSUME TypeInv, MonitorLocal, JoinedFirst, [Next]_vars
  PROVE  JoinedFirst'
<1> USE DEF objVars, monVars, apiVars, cliVars, kernVars, histVars
<1> TypeOK
  BY DEF TypeInv
<1>1. CASE MonitorCheck \/ MonitorClear \/ MonitorSnapshot \/ MonitorPoll \/ MonitorPollFails
           \/ MonitorAccept \/ MonitorAcceptFails \/ MonitorPush \/ MonitorRemove \/ MonitorErase
           \/ MonitorSkip \/ MonitorEndBatch
  <2>1. pc' = pc /\ mpc # "none"
    BY <1>1 DEF MonitorCheck, MonitorClear, MonitorSnapshot, MonitorPoll, MonitorPollFails,
       MonitorAccept, MonitorAcceptFails, MonitorPush, MonitorRemove, MonitorErase,
       MonitorSkip, MonitorEndBatch, Dispatching
  <2> QED BY <2>1 DEF JoinedFirst
<1>2. CASE MonitorAnnounce \/ MonitorFinish
  <2>1. pc' = Woken /\ mpc # "none"
    BY <1>2 DEF MonitorAnnounce, MonitorFinish
  <2> QED BY <2>1 DEF JoinedFirst, Woken
<1>3. ASSUME NEW t \in Threads, OpenStart(t) PROVE JoinedFirst'
  <2>1. IsOwner(t) /\ pc[t] = "opened"
    BY <1>3 DEF OpenStart, TypeInv, OwnerOnly, OwnerStates
  <2>2. ASSUME NEW u \in Threads PROVE pc'[u] \notin {"clear", "shut"}
    <3>1. u = t \/ pc[u] \notin OwnerStates
      BY <2>1, OneOwner
    <3> QED BY <1>3, <2>1, <3>1 DEF OpenStart, TypeOK, OwnerStates
  <2> QED BY <2>2 DEF JoinedFirst
<1>4. ASSUME NEW t \in Threads, CloseBegin(t) PROVE JoinedFirst'
  <2>1. IsOwner(t) /\ pc[t] = "idle" /\ mpc' = mpc
    BY <1>4, Zenon DEF CloseBegin, IsOwner
  <2>2. isMonitoring \/ mpc = "none"
    <3>1. \A u \in Threads : pc[u] \notin {"notify", "join"}
      BY <2>1, OneOwner DEF OwnerStates
    <3> QED BY <3>1 DEF MonitorLocal
  <2>3. \A u \in Threads : pc'[u] = pc[u] \/ pc'[u] = "notify" \/ mpc = "none"
    BY <1>4, <2>2 DEF CloseBegin, TypeOK
  <2> QED BY <2>1, <2>3 DEF JoinedFirst
<1>5. ASSUME NEW t \in Threads, CloseJoin(t) PROVE JoinedFirst'
  BY <1>5 DEF CloseJoin, JoinedFirst
<1>6. ASSUME NEW t \in Threads, CloseShut(t) PROVE JoinedFirst'
  BY <1>6 DEF CloseShut, JoinedFirst, TypeOK
<1>7. ASSUME NEW t \in Threads, CloseClear(t) PROVE JoinedFirst'
  BY <1>7 DEF CloseClear, JoinedFirst, TypeOK
<1>8. ASSUME NEW t \in Threads,
             \/ OpenSocket(t) \/ CloseNotify(t)
             \/ DropSwap(t) \/ DropRemove(t) \/ DropHandoff(t) \/ DropNotify(t) \/ DropClose(t)
             \/ DropReturn(t) \/ WaitSleep(t) \/ AwaitRecheck(t) \/ WaitExpire(t)
             \/ \E o \in {"await", "awaitClose"} : WaitCall(t, o)
             \/ WaitWake(t)
      PROVE  JoinedFirst'
  <2>1. mpc' = mpc
    BY <1>8 DEF OpenSocket, CreatePassive, CloseNotify, DropSwap, DropRemove, DropHandoff,
       DropNotify, DropClose, DropReturn, WaitSleep, AwaitRecheck, WaitExpire, WaitCall, WaitWake,
       WaitEvaluate
  <2>2. \A u \in Threads : pc'[u] \in {"clear", "shut"} => pc[u] \in {"clear", "shut"}
    BY <1>8, ZenonT(60) DEF OpenSocket, CreatePassive, CloseNotify, DropSwap, DropRemove, DropHandoff,
       DropNotify, DropClose, DropReturn, WaitSleep, AwaitRecheck, WaitExpire, WaitCall, WaitWake,
       WaitEvaluate, Woken, TypeOK
  <2> QED BY <2>1, <2>2 DEF JoinedFirst
<1>9. CASE (\E c \in Clients : PeerConnect(c) \/ PeerHangup(c)) \/ UNCHANGED vars
  BY <1>9 DEF PeerConnect, PeerHangup, vars, JoinedFirst
<1> QED BY <1>1, <1>2, <1>3, <1>4, <1>5, <1>6, <1>7, <1>8, <1>9
        DEF Next, MonitorStep, ApiStep, ApiCall

\* Every step preserves ClosingStopped.
LEMMA ClosingStep ==
  ASSUME TypeInv, ClosingStopped, [Next]_vars
  PROVE  ClosingStopped'
<1> USE DEF objVars, monVars, apiVars, cliVars, kernVars, histVars
<1> TypeOK
  BY DEF TypeInv
<1> DEFINE Closing == {"notify", "join", "clear", "shut"}
<1>1. CASE MonitorStep \/ MonitorPollFails \/ (\E c \in Clients : PeerConnect(c) \/ PeerHangup(c))
           \/ UNCHANGED vars
  BY <1>1, OutsideSteps DEF ClosingStopped
<1>2. ASSUME NEW t \in Threads, WaitWake(t) \/ \E o \in {"await", "awaitClose"} : WaitCall(t, o)
      PROVE  ClosingStopped'
  <2>1. PICK o : WaitEvaluate(t, o)
    BY <1>2, WaitStarts
  <2>2. isMonitoring' = isMonitoring
    BY <2>1 DEF WaitEvaluate
  <2> QED BY <2>1, <2>2, WaitOutcomes DEF ClosingStopped, TypeOK
<1>3. ASSUME NEW t \in Threads, OpenStart(t) PROVE ClosingStopped'
  <2>1. IsOwner(t) /\ pc[t] = "opened"
    BY <1>3 DEF OpenStart, TypeInv, OwnerOnly, OwnerStates
  <2>2. \A u \in Threads : pc'[u] \notin Closing
    <3>1. \A u \in Threads : u # t => pc[u] \notin OwnerStates
      BY <2>1, OneOwner
    <3> QED BY <1>3, <3>1 DEF OpenStart, TypeOK, OwnerStates
  <2> QED BY <2>2 DEF ClosingStopped
<1>4. ASSUME NEW t \in Threads, CloseBegin(t) PROVE ClosingStopped'
  BY <1>4 DEF CloseBegin, ClosingStopped
<1>5. ASSUME NEW t \in Threads,
             \/ OpenSocket(t) \/ CloseNotify(t) \/ CloseJoin(t) \/ CloseClear(t) \/ CloseShut(t)
             \/ DropSwap(t) \/ DropRemove(t) \/ DropHandoff(t) \/ DropNotify(t) \/ DropClose(t)
             \/ DropReturn(t) \/ WaitSleep(t) \/ AwaitRecheck(t) \/ WaitExpire(t)
      PROVE  ClosingStopped'
  <2>1. isMonitoring' = isMonitoring
    BY <1>5 DEF OpenSocket, CreatePassive, CloseNotify, CloseJoin, CloseClear, CloseShut,
       DropSwap, DropRemove, DropHandoff, DropNotify, DropClose, DropReturn, WaitSleep,
       AwaitRecheck, WaitExpire
  <2>2. \A u \in Threads : pc'[u] \in Closing => pc[u] \in Closing
    BY <1>5, ZenonT(60) DEF OpenSocket, CreatePassive, CloseNotify, CloseJoin, CloseClear, CloseShut,
       DropSwap, DropRemove, DropHandoff, DropNotify, DropClose, DropReturn, WaitSleep,
       AwaitRecheck, WaitExpire, Woken, TypeOK
  <2> QED BY <2>1, <2>2 DEF ClosingStopped
<1> QED BY <1>1, <1>2, <1>3, <1>4, <1>5 DEF Next, ApiStep, ApiCall

\* What is known of the object's life from ownership alone.
LifeInv == TypeInv /\ Ownership /\ JoinedFirst /\ ClosingStopped

\* It holds in every reachable state.
LEMMA LifeInvariant == Spec => []LifeInv
<1>1. Init => JoinedFirst /\ ClosingStopped
  BY DEF Init, JoinedFirst, ClosingStopped
<1>2. LifeInv /\ [Next]_vars => (JoinedFirst /\ ClosingStopped)'
  BY JoinedStep, ClosingStep DEF LifeInv, Ownership
<1>3. TypeInv /\ Ownership /\ JoinedFirst /\ ClosingStopped <=> LifeInv
  BY DEF LifeInv
<1>4. (TypeInv /\ Ownership /\ JoinedFirst /\ ClosingStopped)' <=> LifeInv'
  BY DEF LifeInv
<1> QED BY <1>1, <1>2, <1>3, <1>4, OwnershipInvariant, PTL DEF Spec

------------------------------------------------------------------------------
(* The pointers of the monitor *)

\* A socket object and its event context have the same descriptor.
SockIsFd == \A c \in Clients : sock[c] # None => sock[c] = fd[c]

\* The first loop of dropAll() is about the clients it has swapped out.
DropsOwn == \A t \in Threads : pc[t] = "remove" => todo[t] \subseteq mine[t]

\* The copies of wait() and the event list exist only while they are used.
BatchLocal ==
  /\ mpc # "poll" => snap = NoSnap
  /\ mpc \notin {"dispatch", "push", "announce", "erase", "finish"} => evs = <<>>

\* A server that is not opened after a close() has one listening socket, from
\* before its monitor starts until after it was joined.
OpenOnce ==
  /\ opens = 0 \/ (\E t \in Threads : pc[t] = "opened") =>
       mpc = "none" /\ ~isMonitoring /\ listener.handle = <<>> /\ listener.contexts = <<>>
  /\ \A t \in Threads : pc[t] = "opened" => passive \in listening /\ opens # 0
  /\ isMonitoring => mpc # "none"
  /\ mpc # "none" => serverFd \in listening /\ owner[serverFd] = Server

\* A client whose context is in the listener is in the active list, about to
\* be, or still to be removed by a dropAll().
Registered(c) ==
  \/ c \in active
  \/ mpc = "push" /\ cur = c
  \/ \E t \in Threads : pc[t] = "remove" /\ c \in todo[t]

\* No context and no descriptor occurs twice, and every descriptor has its
\* context.  (A context may have lost its pollfd.)
Listed(handle, contexts, fdOf) ==
  /\ \A i, j \in 1..Len(contexts) : contexts[i] = contexts[j] => i = j
  /\ \A i, j \in 1..Len(handle) : handle[i].fd = handle[j].fd => i = j
  /\ \A i \in 1..Len(handle) : \E j \in 1..Len(contexts) : fdOf[contexts[j]] = handle[i].fd

Polling ==
  mpc # "none" =>
    /\ Listed(listener.handle, listener.contexts, FdOf)
    /\ \A j \in 1..Len(listener.contexts) :
         listener.contexts[j] = Server \/ Registered(listener.contexts[j])
    /\ mpc = "erase" => \A j \in 1..Len(listener.contexts) : listener.contexts[j] # cur

\* Somebody holds c until the monitor's next turn: only the end of the monitor's
\* own work on it, or the clearing of _pending_destruction, can free it.
Secure(c) == c \in active \cup pending \/ \E t \in Threads : pc[t] = "remove" /\ c \in mine[t]

\* What the monitor holds in local copies is secure: the vectors of wait(),
SnapSecure ==
  mpc = "poll" =>
    /\ Listed(snap.handle, snap.contexts, FdOf)
    /\ \A j \in 1..Len(snap.contexts) : snap.contexts[j] = Server \/ Secure(snap.contexts[j])

\* the events yet to be dispatched, each about another context,
EventsSecure ==
  /\ \A i \in 1..Len(evs) :
       evs[i].type # "NONE" => \/ evs[i].ctx = Server /\ evs[i].type # "DISCONNECTED"
                               \/ evs[i].ctx \in Clients /\ Secure(evs[i].ctx)
  /\ \A i, j \in 1..Len(evs) :
       evs[i].type # "NONE" /\ evs[j].type # "NONE" /\ evs[i].ctx = evs[j].ctx => i = j

\* and the client it is about to erase, which is in none of these events.
EraseSecure ==
  mpc = "erase" => Secure(cur) /\ \A i \in 1..Len(evs) : evs[i].type # "NONE" => evs[i].ctx # cur

Batch == SnapSecure /\ EventsSecure /\ EraseSecure

PointerInv == LifeInv /\ SockIsFd /\ DropsOwn /\ BatchLocal /\ OpenOnce /\ Polling /\ Batch

\* The steps of the monitor that use neither the lists nor the listener.
MonitorQuiet ==
  \/ MonitorCheck \/ MonitorPollFails \/ MonitorAcceptFails \/ MonitorAnnounce \/ MonitorFinish
  \/ MonitorSkip \/ MonitorEndBatch

\* The steps of the application threads that do not.
ThreadQuiet(t) ==
  \/ OpenSocket(t) \/ CloseBegin(t) \/ CloseNotify(t) \/ CloseJoin(t) \/ CloseShut(t)
  \/ DropNotify(t) \/ DropClose(t) \/ DropReturn(t)
  \/ WaitSleep(t) \/ WaitWake(t) \/ AwaitRecheck(t) \/ WaitExpire(t)
  \/ \E o \in {"await", "awaitClose"} : WaitCall(t, o)

\* A dropAll() in its first loop stays where it is.
DropsKept ==
  \A u \in Threads : pc[u] = "remove" => pc'[u] = "remove" /\ todo'[u] = todo[u] /\ mine'[u] = mine[u]

\* Nobody enters that loop.
NoNewDrops == \A u \in Threads : pc'[u] = "remove" => pc[u] = "remove"

\* Next, with the steps that matter to the listener and the lists apart.
LEMMA StepKinds ==
  ASSUME [Next]_vars
  PROVE  \/ MonitorQuiet \/ MonitorClear \/ MonitorSnapshot \/ MonitorPoll \/ MonitorAccept
         \/ MonitorPush \/ MonitorRemove \/ MonitorErase
         \/ \E t \in Threads : \/ ThreadQuiet(t) \/ OpenStart(t) \/ CloseClear(t) \/ DropSwap(t)
                               \/ DropRemove(t) \/ DropHandoff(t)
         \/ (\E c \in Clients : PeerConnect(c) \/ PeerHangup(c)) \/ UNCHANGED vars
  BY DEF Next, MonitorStep, ApiStep, ApiCall, MonitorQuiet, ThreadQuiet

\* What the quiet steps of the monitor leave alone.
LEMMA QuietMonitor ==
  ASSUME TypeOK, MonitorQuiet
  PROVE  /\ UNCHANGED <<active, pending, listener, serverFd, passive, isMonitoring, fd, listening, opens>>
         /\ DropsKept /\ NoNewDrops
         /\ mpc # "none" /\ mpc' \notin {"none", "poll", "push", "erase"}
         /\ \A t \in Threads : pc'[t] = "opened" <=> pc[t] = "opened"
<1> USE DEF objVars, monVars, apiVars, cliVars, kernVars, histVars
<1>1. CASE MonitorAnnounce \/ MonitorFinish
  <2>1. /\ UNCHANGED <<active, pending, listener, serverFd, passive, isMonitoring, fd, listening, opens>>
        /\ UNCHANGED <<todo, mine>> /\ pc' = Woken
        /\ mpc # "none" /\ mpc' = "dispatch"
    BY <1>1 DEF MonitorAnnounce, MonitorFinish
  <2>2. \A u \in Threads : pc'[u] = pc[u] \/ (pc[u] = "asleep" /\ pc'[u] = "notified")
    BY <2>1 DEF Woken
  <2> QED BY <2>1, <2>2 DEF DropsKept, NoNewDrops
<1>2. CASE MonitorCheck \/ MonitorPollFails \/ MonitorAcceptFails \/ MonitorSkip \/ MonitorEndBatch
  BY <1>2 DEF MonitorCheck, MonitorPollFails, MonitorAcceptFails, MonitorSkip, MonitorEndBatch,
     Dispatching, DropsKept, NoNewDrops
<1> QED BY <1>1, <1>2 DEF MonitorQuiet

\* What the quiet steps of a thread leave alone.
LEMMA QuietThread ==
  ASSUME TypeOK, NEW t \in Threads, ThreadQuiet(t)
  PROVE  /\ UNCHANGED <<active, pending, listener, serverFd, fd, snap, evs, cur>>
         /\ DropsKept /\ NoNewDrops
         /\ mpc' = mpc \/ (mpc = "exited" /\ mpc' = "none")
<1> USE DEF objVars, monVars, apiVars, cliVars, kernVars, histVars
<1>1. CASE OpenSocket(t) \/ CloseBegin(t) \/ CloseJoin(t) \/ CloseShut(t)
  BY <1>1 DEF OpenSocket, CreatePassive, CloseBegin, CloseJoin, CloseShut, ClosePassive, TypeOK,
     DropsKept, NoNewDrops
<1>2. CASE CloseNotify(t) \/ DropNotify(t)
  <2>1. /\ UNCHANGED <<active, pending, listener, serverFd, fd, snap, evs, cur, mpc, mine>>
        /\ pc[t] # "remove" /\ \E x \in {"join", "dropclose"} : pc' = [Woken EXCEPT ![t] = x]
        /\ \A u \in Threads : u # t => todo'[u] = todo[u]
    BY <1>2 DEF CloseNotify, DropNotify, TypeOK
  <2>2. pc'[t] # "remove" /\ \A u \in Threads : u # t => pc'[u] = pc[u] \/ (pc[u] = "asleep" /\ pc'[u] = "notified")
    BY <2>1 DEF Woken
  <2> QED BY <2>1, <2>2 DEF DropsKept, NoNewDrops
<1>3. CASE DropClose(t) \/ DropReturn(t) \/ WaitSleep(t) \/ AwaitRecheck(t) \/ WaitExpire(t)
  BY <1>3 DEF DropClose, DropReturn, WaitSleep, AwaitRecheck, WaitExpire, TypeOK, DropsKept, NoNewDrops
<1>4. CASE WaitWake(t) \/ \E o \in {"await", "awaitClose"} : WaitCall(t, o)
  <2>1. PICK o : WaitEvaluate(t, o)
    BY <1>4, WaitStarts
  <2>2. pc[t] \in {"idle", "notified", "expired"} /\ \E x \in {"blocking", "recheck", "idle"} : pc' = [pc EXCEPT ![t] = x]
    BY <1>4, <2>1, WaitStarts, WaitOutcomes
  <2>3. UNCHANGED <<active, pending, listener, serverFd, fd, snap, evs, cur, mpc, mine, todo>>
    BY <2>1 DEF WaitEvaluate
  <2> QED BY <2>2, <2>3 DEF TypeOK, DropsKept, NoNewDrops
<1> QED BY <1>1, <1>2, <1>3, <1>4 DEF ThreadQuiet

\* Sockets and contexts get their descriptor together, and only sockets lose it.
LEMMA SockIsFdStep ==
  ASSUME TypeInv, SockIsFd, [Next]_vars
  PROVE  SockIsFd'
<1> USE DEF objVars, monVars, apiVars, cliVars, kernVars, histVars
<1> TypeOK
  BY DEF TypeInv
<1>1. CASE MonitorAccept
  <2>1. PICK c \in Queued, f \in FreeFds : fd' = [fd EXCEPT ![c] = f] /\ sock' = [sock EXCEPT ![c] = f]
    BY <1>1 DEF MonitorAccept, AcceptClient
  <2> QED BY <2>1 DEF SockIsFd, TypeOK, Queued
<1>2. ASSUME fd' = fd, \A c \in Clients : sock'[c] = None \/ sock'[c] = sock[c] PROVE SockIsFd'
  BY <1>2 DEF SockIsFd
<1>3. CASE MonitorQuiet
  <2>1. CASE MonitorFinish
    <3>1. fd' = fd /\ \A c \in Clients : sock'[c] = None \/ sock'[c] = sock[c]
      BY <2>1 DEF MonitorFinish, CloseSockets
    <3> QED BY <1>2, <3>1
  <2>2. CASE ~MonitorFinish
    <3>1. UNCHANGED <<fd, sock>>
      BY <1>3, <2>2 DEF MonitorQuiet, MonitorCheck, MonitorPollFails, MonitorAcceptFails, MonitorAnnounce,
         MonitorSkip, MonitorEndBatch
    <3> QED BY <1>2, <3>1
  <2> QED BY <2>1, <2>2
<1>4. CASE MonitorClear \/ MonitorSnapshot \/ MonitorPoll \/ MonitorPush \/ MonitorRemove \/ MonitorErase
  <2>1. UNCHANGED <<fd, sock>>
    BY <1>4 DEF MonitorClear, MonitorSnapshot, MonitorPoll, MonitorPush, MonitorRemove, MonitorErase
  <2> QED BY <1>2, <2>1
<1>5. ASSUME NEW t \in Threads, ThreadQuiet(t) \/ CloseClear(t) PROVE SockIsFd'
  <2>1. CASE DropClose(t) \/ CloseClear(t)
    <3>1. fd' = fd /\ \A c \in Clients : sock'[c] = None \/ sock'[c] = sock[c]
      BY <2>1 DEF DropClose, CloseClear, CloseSockets
    <3> QED BY <1>2, <3>1
  <2>2. CASE ~(DropClose(t) \/ CloseClear(t))
    <3>1. UNCHANGED <<fd, sock>>
      BY <1>5, <2>2 DEF ThreadQuiet, OpenSocket, CreatePassive, CloseBegin, CloseNotify, CloseJoin, CloseShut,
         ClosePassive, DropNotify, DropReturn, WaitSleep, WaitWake, AwaitRecheck, WaitExpire, WaitCall,
         WaitEvaluate
    <3> QED BY <1>2, <3>1
  <2> QED BY <2>1, <2>2
<1>6. ASSUME NEW t \in Threads, OpenStart(t) \/ DropSwap(t) \/ DropRemove(t) \/ DropHandoff(t) PROVE SockIsFd'
  <2>1. UNCHANGED <<fd, sock>>
    BY <1>6 DEF OpenStart, DropSwap, DropRemove, DropHandoff
  <2> QED BY <1>2, <2>1
<1>7. CASE (\E c \in Clients : PeerConnect(c) \/ PeerHangup(c)) \/ UNCHANGED vars
  <2>1. UNCHANGED <<fd, sock>>
    BY <1>7 DEF PeerConnect, PeerHangup, vars
  <2> QED BY <1>2, <2>1
<1> QED BY <1>1, <1>3, <1>4, <1>5, <1>6, <1>7, StepKinds

\* dropAll() works through what it has swapped out.
LEMMA DropsOwnStep ==
  ASSUME TypeInv, DropsOwn, [Next]_vars
  PROVE  DropsOwn'
<1> USE DEF objVars, monVars, apiVars, cliVars, kernVars, histVars
<1> TypeOK
  BY DEF TypeInv
<1>1. ASSUME DropsKept, NoNewDrops PROVE DropsOwn'
  BY <1>1 DEF DropsKept, NoNewDrops, DropsOwn
<1>2. CASE MonitorQuiet \/ \E t \in Threads : ThreadQuiet(t)
  <2>1. DropsKept /\ NoNewDrops
    BY <1>2, QuietMonitor, QuietThread
  <2> QED BY <1>1, <2>1
<1>3. CASE \/ MonitorClear \/ MonitorSnapshot \/ MonitorPoll \/ MonitorAccept
           \/ MonitorPush \/ MonitorRemove \/ MonitorErase
           \/ (\E c \in Clients : PeerConnect(c) \/ PeerHangup(c)) \/ UNCHANGED vars
  <2>1. UNCHANGED <<pc, todo, mine>>
    BY <1>3 DEF MonitorClear, MonitorSnapshot, MonitorPoll, MonitorAccept, MonitorPush, MonitorRemove,
       MonitorErase, PeerConnect, PeerHangup, vars
  <2> QED BY <2>1 DEF DropsOwn
<1>4. ASSUME NEW t \in Threads, OpenStart(t) \/ CloseClear(t) \/ DropHandoff(t) PROVE DropsOwn'
  <2>1. UNCHANGED <<todo, mine>> /\ \E x \in {"idle", "shut", "dropnotify"} : pc' = [pc EXCEPT ![t] = x]
    BY <1>4 DEF OpenStart, CloseClear, DropHandoff
  <2> QED BY <2>1 DEF DropsOwn, TypeOK
<1>5. ASSUME NEW t \in Threads, DropSwap(t) PROVE DropsOwn'
  BY <1>5 DEF DropSwap, DropsOwn, TypeOK
<1>6. ASSUME NEW t \in Threads, DropRemove(t) PROVE DropsOwn'
  <2>1. PICK c \in todo[t] : todo' = [todo EXCEPT ![t] = todo[t] \ {c}]
    BY <1>6 DEF DropRemove
  <2>2. UNCHANGED <<pc, mine>>
    BY <1>6 DEF DropRemove
  <2>3. \A u \in Threads : todo'[u] \subseteq todo[u]
    BY <2>1 DEF TypeOK
  <2> QED BY <2>2, <2>3 DEF DropsOwn
<1> QED BY <1>2, <1>3, <1>4, <1>5, <1>6, StepKinds

\* The monitor's local copies.
LEMMA BatchLocalStep ==
  ASSUME TypeInv, MonitorLocal, BatchLocal, [Next]_vars
  PROVE  BatchLocal'
<1> USE DEF objVars, monVars, apiVars, cliVars, kernVars, histVars
<1> TypeOK
  BY DEF TypeInv
<1>1. CASE MonitorCheck \/ MonitorClear \/ MonitorSnapshot \/ MonitorPollFails
  BY <1>1 DEF MonitorCheck, MonitorClear, MonitorSnapshot, MonitorPollFails, BatchLocal
<1>2. CASE MonitorPoll
  <2>1. snap' = NoSnap /\ ((evs' = <<>> /\ mpc' = "top") \/ mpc' = "dispatch")
    BY <1>2, Zenon DEF MonitorPoll
  <2> QED BY <2>1 DEF BatchLocal
<1>3. CASE MonitorAccept \/ MonitorAcceptFails \/ MonitorPush \/ MonitorAnnounce \/ MonitorRemove \/ MonitorErase
           \/ MonitorFinish \/ MonitorSkip
  <2>1. /\ snap' = snap /\ mpc # "poll"
        /\ mpc' \in {"dispatch", "push", "announce", "erase", "finish"}
    BY <1>3 DEF MonitorAccept, MonitorAcceptFails, MonitorPush, MonitorAnnounce, MonitorRemove, MonitorErase,
       MonitorFinish, MonitorSkip, Dispatching
  <2> QED BY <2>1 DEF BatchLocal
<1>4. CASE MonitorEndBatch
  BY <1>4 DEF MonitorEndBatch, BatchLocal
<1>5. ASSUME NEW t \in Threads, ThreadQuiet(t) PROVE BatchLocal'
  <2>1. UNCHANGED <<snap, evs>> /\ (mpc' = mpc \/ (mpc = "exited" /\ mpc' = "none"))
    BY <1>5, QuietThread
  <2> QED BY <2>1 DEF BatchLocal
<1>6. ASSUME NEW t \in Threads, OpenStart(t) PROVE BatchLocal'
  <2>1. ~isMonitoring => mpc = "none"
    <3>1. \A u \in Threads : pc[u] \in {"notify", "join"} => u = t
      BY <1>6, OneOwner DEF TypeInv, OwnerOnly, OwnerStates, OpenStart
    <3> QED BY <1>6, <3>1 DEF OpenStart, MonitorLocal
  <2> QED BY <1>6, <2>1 DEF OpenStart, BatchLocal
<1>7. ASSUME NEW t \in Threads, CloseClear(t) \/ DropSwap(t) \/ DropRemove(t) \/ DropHandoff(t) PROVE BatchLocal'
  BY <1>7 DEF CloseClear, DropSwap, DropRemove, DropHandoff, BatchLocal
<1>8. CASE (\E c \in Clients : PeerConnect(c) \/ PeerHangup(c)) \/ UNCHANGED vars
  BY <1>8 DEF PeerConnect, PeerHangup, vars, BatchLocal
<1> QED BY <1>1, <1>2, <1>3, <1>4, <1>5, <1>6, <1>7, <1>8, StepKinds DEF MonitorQuiet

\* A step that leaves open(), the monitor's life and the listening socket alone.
LEMMA OpenOnceFrame ==
  ASSUME OpenOnce, UNCHANGED <<listener, serverFd, passive, isMonitoring, listening, opens>>,
         mpc' = "none" <=> mpc = "none",
         \A t \in Threads : pc'[t] = "opened" => pc[t] = "opened",
         mpc # "none" => owner'[serverFd] = owner[serverFd]
  PROVE  OpenOnce'
  BY DEF OpenOnce

\* The listening socket survives the end of a client.
LEMMA ServerSurvives ==
  ASSUME LifeInv, OpenOnce, NEW c \in Clients, CloseSockets({c}), mpc # "none"
  PROVE  owner'[serverFd] = owner[serverFd]
<1>1. serverFd \in Fds /\ owner[serverFd] = Server
  BY DEF OpenOnce, LifeInv, TypeInv, TypeOK
<1>2. sock[c] # serverFd
  <2>1. serverFd # None /\ c # Server
    BY <1>1, NullAssumption
  <2> QED BY <1>1, <2>1 DEF LifeInv, Ownership, Descriptors
<1> QED BY <1>1, <1>2 DEF CloseSockets

\* open() succeeds once.
LEMMA OpenOnceStep ==
  ASSUME ~ReopensClosed, LifeInv, OpenOnce, [Next]_vars
  PROVE  OpenOnce'
<1> USE DEF objVars, monVars, apiVars, cliVars, kernVars, histVars
<1> TypeOK /\ TypeInv
  BY DEF LifeInv, TypeInv
<1>1. CASE MonitorQuiet
  <2>1. /\ UNCHANGED <<listener, serverFd, passive, isMonitoring, listening, opens>>
        /\ mpc # "none" /\ mpc' # "none"
        /\ \A t \in Threads : pc'[t] = "opened" <=> pc[t] = "opened"
    BY <1>1, QuietMonitor
  <2>2. owner'[serverFd] = owner[serverFd]
    <3>1. CASE MonitorFinish /\ owned
      <4>1. PICK c \in Clients : c = cur
        BY <3>1 DEF MonitorFinish, TypeInv, HasCursor
      <4>2. CloseSockets({c})
        BY <3>1, <4>1 DEF MonitorFinish
      <4> QED BY <2>1, <4>2, ServerSurvives
    <3>2. CASE ~(MonitorFinish /\ owned)
      BY <1>1, <3>2 DEF MonitorQuiet, MonitorCheck, MonitorPollFails, MonitorAcceptFails, MonitorAnnounce,
         MonitorFinish, MonitorSkip, MonitorEndBatch
    <3> QED BY <3>1, <3>2
  <2> QED BY <2>1, <2>2, OpenOnceFrame
<1>2. CASE \/ MonitorClear \/ MonitorSnapshot \/ MonitorPoll \/ MonitorPush \/ MonitorErase
           \/ (\E c \in Clients : PeerConnect(c) \/ PeerHangup(c)) \/ UNCHANGED vars
  <2>1. /\ UNCHANGED <<listener, serverFd, passive, isMonitoring, listening, opens, owner, pc>>
        /\ mpc' = "none" <=> mpc = "none"
    BY <1>2 DEF MonitorClear, MonitorSnapshot, MonitorPoll, MonitorPush, MonitorErase, PeerConnect, PeerHangup,
       vars
  <2> QED BY <2>1, OpenOnceFrame
<1>3. CASE MonitorAccept \/ MonitorRemove
  <2>1. /\ UNCHANGED <<serverFd, passive, isMonitoring, listening, opens, pc>>
        /\ mpc = "dispatch" /\ mpc' # "none"
    BY <1>3 DEF MonitorAccept, MonitorRemove, Dispatching
  <2>2. serverFd \in Fds /\ owner[serverFd] = Server
    BY <2>1 DEF OpenOnce, TypeOK
  <2>3. owner'[serverFd] = Server
    <3>1. CASE MonitorRemove
      BY <2>2, <3>1 DEF MonitorRemove
    <3>2. CASE MonitorAccept
      <4>1. PICK c \in Queued, f \in FreeFds : owner' = [owner EXCEPT ![f] = c]
        BY <3>2 DEF MonitorAccept, AcceptClient
      <4>2. f # serverFd
        BY <2>2, NullAssumption DEF FreeFds
      <4> QED BY <2>2, <4>1, <4>2 DEF TypeOK
    <3> QED BY <1>3, <3>1, <3>2
  <2>4. opens # 0 /\ \A t \in Threads : pc[t] # "opened"
    BY <2>1 DEF OpenOnce
  <2> QED BY <2>1, <2>3, <2>4 DEF OpenOnce
<1>4. ASSUME NEW t \in Threads, OpenSocket(t) PROVE OpenOnce'
  <2>1. /\ UNCHANGED <<listener, serverFd, isMonitoring, mpc>> /\ IsOwner(t) /\ opens' = opens + 1
        /\ opens > 0 /\ ~isMonitoring => ReopensClosed
    BY <1>4 DEF OpenSocket, IsOwner
  <2>2. opens' # 0 /\ opens \in Nat
    BY <2>1 DEF TypeOK
  <2>3. \A u \in Threads : pc[u] # "opened"
    <3>1. pc[t] = "idle"
      BY <1>4 DEF OpenSocket
    <3> QED BY <2>1, <3>1, OneOwner DEF OwnerStates
  <2>4. CASE isMonitoring
    <3>1. mpc # "none" /\ serverFd \in listening /\ owner[serverFd] = Server /\ opens # 0
      BY <2>4 DEF OpenOnce
    <3>2. ~BindSucceeds
      BY <3>1 DEF BindSucceeds
    <3>3. UNCHANGED <<listening, pc>> /\ (owner' = owner \/ \E f \in FreeFds : owner' = [owner EXCEPT ![f] = Server])
      BY <1>4, <3>2 DEF OpenSocket, CreatePassive
    <3>4. owner'[serverFd] = Server
      BY <3>1, <3>3 DEF TypeOK
    <3> QED BY <2>1, <2>2, <2>3, <2>4, <3>1, <3>3, <3>4 DEF OpenOnce
  <2>5. CASE ~isMonitoring
    <3>1. opens = 0
      BY <2>1, <2>2, <2>5
    <3>2. mpc = "none" /\ listener.handle = <<>> /\ listener.contexts = <<>>
      BY <3>1 DEF OpenOnce
    <3>3. \A u \in Threads : pc'[u] = "opened" => passive' \in listening'
      BY <1>4, <2>3 DEF OpenSocket, CreatePassive, TypeOK
    <3> QED BY <2>1, <2>2, <2>5, <3>2, <3>3 DEF OpenOnce
  <2> QED BY <2>4, <2>5
<1>5. ASSUME NEW t \in Threads, OpenStart(t) PROVE OpenOnce'
  <2>1. /\ pc[t] = "opened" /\ pc' = [pc EXCEPT ![t] = "idle"] /\ serverFd' = passive /\ isMonitoring' = TRUE
        /\ mpc' = IF isMonitoring THEN mpc ELSE "top"
        /\ UNCHANGED <<passive, owner, listening, opens>>
    BY <1>5 DEF OpenStart
  <2>2. passive \in listening /\ opens # 0 /\ ~isMonitoring
    BY <2>1 DEF OpenOnce
  <2>3. passive # None /\ owner[passive] = Server
    BY <2>2, NullAssumption DEF LifeInv, Ownership, Descriptors, TypeOK
  <2>4. \A u \in Threads : pc'[u] # "opened"
    <3>1. IsOwner(t)
      BY <2>1 DEF TypeInv, OwnerOnly, OwnerStates
    <3>2. \A u \in Threads : pc[u] = "opened" => u = t
      BY <3>1, OneOwner DEF OwnerStates
    <3> QED BY <2>1, <3>2 DEF TypeOK
  <2> QED BY <2>1, <2>2, <2>3, <2>4 DEF OpenOnce
<1>6. ASSUME NEW t \in Threads, CloseBegin(t) PROVE OpenOnce'
  <2>1. /\ UNCHANGED <<listener, serverFd, passive, mpc, owner, listening, opens>> /\ isMonitoring' = FALSE
        /\ \A u \in Threads : pc'[u] = "opened" => pc[u] = "opened"
    BY <1>6 DEF CloseBegin, TypeOK
  <2> QED BY <2>1 DEF OpenOnce
<1>7. ASSUME NEW t \in Threads, CloseJoin(t) PROVE OpenOnce'
  <2>1. /\ UNCHANGED <<listener, serverFd, passive, isMonitoring, owner, listening, opens>>
        /\ pc[t] = "join" /\ mpc = "exited" /\ mpc' = "none"
        /\ \A u \in Threads : pc'[u] = "opened" => pc[u] = "opened"
    BY <1>7 DEF CloseJoin, TypeOK
  <2>2. ~isMonitoring
    BY <2>1 DEF LifeInv, ClosingStopped
  <2> QED BY <2>1, <2>2 DEF OpenOnce
<1>8. ASSUME NEW t \in Threads, CloseClear(t) \/ CloseShut(t) PROVE OpenOnce'
  <2>1. /\ pc[t] \in {"clear", "shut"} /\ UNCHANGED <<listener, serverFd, isMonitoring, mpc, opens>>
        /\ \E x \in {"idle", "shut"} : pc' = [pc EXCEPT ![t] = x]
    BY <1>8 DEF CloseClear, CloseShut
  <2>2. mpc = "none" /\ ~isMonitoring
    BY <2>1 DEF LifeInv, JoinedFirst, ClosingStopped
  <2>3. \A u \in Threads : pc'[u] # "opened"
    <3>1. IsOwner(t)
      BY <2>1 DEF TypeInv, OwnerOnly, OwnerStates
    <3>2. \A u \in Threads : pc[u] = "opened" => u = t
      BY <3>1, OneOwner DEF OwnerStates
    <3> QED BY <2>1, <3>2 DEF TypeOK
  <2> QED BY <2>1, <2>2, <2>3 DEF OpenOnce
<1>9. ASSUME NEW t \in Threads, DropClose(t) PROVE OpenOnce'
  <2>1. UNCHANGED <<listener, serverFd, passive, isMonitoring, mpc, pc, listening, opens>>
    BY <1>9 DEF DropClose
  <2>2. PICK c \in Clients : CloseSockets({c})
    BY <1>9 DEF DropClose, TypeOK
  <2> QED BY <2>1, <2>2, ServerSurvives, OpenOnceFrame
<1>10. ASSUME NEW t \in Threads, DropRemove(t) PROVE OpenOnce'
  <2>1. UNCHANGED <<serverFd, passive, isMonitoring, mpc, pc, owner, listening, opens>>
        /\ \E c \in Clients : listener' = RemoveEvent(listener, c, fd[c])
    BY <1>10 DEF DropRemove, TypeOK
  <2>2. ASSUME listener.handle = <<>>, listener.contexts = <<>>
        PROVE  listener'.handle = <<>> /\ listener'.contexts = <<>>
    <3>1. PICK c, f : listener' = RemoveEvent(listener, c, f)
      BY <2>1
    <3>2. listener'.handle = EraseFd(listener.handle, f) /\ listener'.contexts = RemoveFirst(listener.contexts, c)
      BY <3>1 DEF RemoveEvent, TypeOK, ListenerType
    <3>3. (~ \E i \in 1..Len(<<>>) : <<>>[i].fd = f) /\ ~ \E i \in 1..Len(<<>>) : <<>>[i] = c
      OBVIOUS
    <3>4. EraseFd(<<>>, f) = <<>> /\ RemoveFirst(<<>>, c) = <<>>
      BY <3>3, Zenon DEF EraseFd, RemoveFirstMatch, RemoveFirst
    <3> QED BY <2>2, <3>2, <3>4
  <2> QED BY <2>1, <2>2 DEF OpenOnce
<1>11. ASSUME NEW t \in Threads,
              \/ CloseNotify(t) \/ DropNotify(t) \/ DropReturn(t) \/ WaitSleep(t) \/ AwaitRecheck(t)
              \/ WaitExpire(t) \/ DropSwap(t) \/ DropHandoff(t)
       PROVE  OpenOnce'
  <2>1. UNCHANGED <<listener, serverFd, passive, isMonitoring, mpc, owner, listening, opens>>
    BY <1>11 DEF CloseNotify, DropNotify, DropReturn, WaitSleep, AwaitRecheck, WaitExpire, DropSwap, DropHandoff
  <2>2. \A u \in Threads : pc'[u] = "opened" => pc[u] = "opened"
    BY <1>11 DEF CloseNotify, DropNotify, DropReturn, WaitSleep, AwaitRecheck, WaitExpire, DropSwap, DropHandoff,
       Woken, TypeOK
  <2> QED BY <2>1, <2>2, OpenOnceFrame
<1>12. ASSUME NEW t \in Threads, WaitWake(t) \/ \E o \in {"await", "awaitClose"} : WaitCall(t, o)
       PROVE  OpenOnce'
  <2>1. PICK o : WaitEvaluate(t, o)
    BY <1>12, WaitStarts
  <2>2. UNCHANGED <<listener, serverFd, passive, isMonitoring, mpc, owner, listening, opens>>
    BY <2>1 DEF WaitEvaluate
  <2>3. \A u \in Threads : pc'[u] = "opened" => pc[u] = "opened"
    BY <2>1, WaitOutcomes DEF TypeOK
  <2> QED BY <2>2, <2>3, OpenOnceFrame
<1> QED BY <1>1, <1>2, <1>3, <1>4, <1>5, <1>6, <1>7, <1>8, <1>9, <1>10, <1>11, <1>12, StepKinds DEF ThreadQuiet

\* removeEvent keeps the vectors listed, and the context is gone.
LEMMA ListedRemoved ==
  ASSUME NEW H, NEW hs \in Seq(H), NEW S, NEW cs \in Seq(S), NEW F, Listed(hs, cs, F), NEW c
  PROVE  /\ Listed(EraseFd(hs, F[c]), RemoveFirst(cs, c), F)
         /\ ErasedOnce(RemoveFirst(cs, c), cs, c) /\ ErasedFd(EraseFd(hs, F[c]), hs, F[c])
<1>1. PICK f, r, q : f = F[c] /\ r = EraseFd(hs, f) /\ q = RemoveFirst(cs, c)
  OBVIOUS
<1>2. ErasedFd(r, hs, f)
  BY <1>1, EraseFdOnce DEF Listed
<1>3. ErasedOnce(q, cs, c)
  BY <1>1, RemoveFirstOnce DEF Listed
<1>4. /\ \A i, j \in 1..Len(q) : q[i] = q[j] => i = j
      /\ \A i, j \in 1..Len(r) : r[i].fd = r[j].fd => i = j
  BY <1>2, <1>3 DEF ErasedFd, ErasedOnce
<1>5. ASSUME NEW i \in 1..Len(r) PROVE \E j \in 1..Len(q) : F[q[j]] = r[i].fd
  <2>1. PICK k \in 1..Len(hs) : r[i] = hs[k] /\ hs[k].fd # f
    BY <1>2 DEF ErasedFd
  <2>2. PICK m \in 1..Len(cs) : F[cs[m]] = hs[k].fd
    BY DEF Listed
  <2>3. cs[m] # c
    BY <1>1, <2>1, <2>2
  <2>4. PICK j \in 1..Len(q) : q[j] = cs[m]
    BY <1>3, <2>3 DEF ErasedOnce
  <2> QED BY <2>1, <2>2, <2>4
<1>6. Listed(r, q, F)
  BY <1>4, <1>5, Zenon DEF Listed
<1> QED BY <1>1, <1>2, <1>3, <1>6

\* addEvent keeps them listed if neither the context nor its descriptor is there.
LEMMA ListedAdded ==
  ASSUME NEW H, NEW hs \in Seq(H), NEW S, NEW cs \in Seq(S), NEW F, Listed(hs, cs, F),
         NEW h \in H, NEW c \in S, NEW G, G[c] = h.fd,
         \A j \in 1..Len(cs) : cs[j] # c /\ G[cs[j]] = F[cs[j]],
         \A i \in 1..Len(hs) : hs[i].fd # h.fd
  PROVE  Listed(Append(hs, h), Append(cs, c), G)
<1>1. PICK r, q : r = Append(hs, h) /\ q = Append(cs, c)
  OBVIOUS
<1>2. /\ Len(r) = Len(hs) + 1 /\ r[Len(hs) + 1] = h /\ \A i \in 1..Len(hs) : r[i] = hs[i]
      /\ Len(q) = Len(cs) + 1 /\ q[Len(cs) + 1] = c /\ \A j \in 1..Len(cs) : q[j] = cs[j]
      /\ Len(hs) \in Nat /\ Len(cs) \in Nat
  BY <1>1
<1>3. \A i \in 1..Len(r) : i \in 1..Len(hs) \/ i = Len(hs) + 1
  BY <1>2
<1>4. \A j \in 1..Len(q) : j \in 1..Len(cs) \/ j = Len(cs) + 1
  BY <1>2
<1>5. ASSUME NEW i \in 1..Len(q), NEW j \in 1..Len(q), q[i] = q[j] PROVE i = j
  <2>1. CASE i \in 1..Len(cs) /\ j \in 1..Len(cs)
    <3>1. cs[i] = cs[j]
      BY <1>2, <1>5, <2>1
    <3> QED BY <2>1, <3>1 DEF Listed
  <2>2. CASE i = Len(cs) + 1 /\ j \in 1..Len(cs)
    BY <1>2, <1>5, <2>2
  <2>3. CASE i \in 1..Len(cs) /\ j = Len(cs) + 1
    BY <1>2, <1>5, <2>3
  <2> QED BY <1>4, <2>1, <2>2, <2>3
<1>6. ASSUME NEW i \in 1..Len(r), NEW j \in 1..Len(r), r[i].fd = r[j].fd PROVE i = j
  <2>1. CASE i \in 1..Len(hs) /\ j \in 1..Len(hs)
    <3>1. hs[i].fd = hs[j].fd
      BY <1>2, <1>6, <2>1
    <3> QED BY <2>1, <3>1 DEF Listed
  <2>2. CASE i = Len(hs) + 1 /\ j \in 1..Len(hs)
    BY <1>2, <1>6, <2>2
  <2>3. CASE i \in 1..Len(hs) /\ j = Len(hs) + 1
    BY <1>2, <1>6, <2>3
  <2> QED BY <1>3, <2>1, <2>2, <2>3
<1>7. ASSUME NEW i \in 1..Len(r) PROVE \E j \in 1..Len(q) : G[q[j]] = r[i].fd
  <2>1. CASE i = Len(hs) + 1
    <3>1. Len(cs) + 1 \in 1..Len(q)
      BY <1>2
    <3> QED BY <1>2, <2>1, <3>1
  <2>2. CASE i \in 1..Len(hs)
    <3>1. PICK j \in 1..Len(cs) : F[cs[j]] = hs[i].fd
      BY <2>2 DEF Listed
    <3>2. j \in 1..Len(q)
      BY <1>2
    <3> QED BY <1>2, <2>2, <3>1, <3>2
  <2> QED BY <1>3, <2>1, <2>2
<1>8. Listed(r, q, G)
  BY <1>5, <1>6, <1>7, Zenon DEF Listed
<1> QED BY <1>1, <1>8

\* A registered client is open, and its descriptor is its own.
LEMMA RegisteredOpen ==
  ASSUME LifeInv, SockIsFd, DropsOwn, NEW c \in Clients, Registered(c)
  PROVE  fd[c] \in Fds /\ owner[fd[c]] = c
<1>1. HasCloser(c)
  <2>1. CASE c \in active
    BY <2>1 DEF HasCloser
  <2>2. CASE mpc = "push" /\ cur = c
    BY <2>2 DEF HasCloser, LifeInv, Ownership, MonitorLocal
  <2>3. CASE \E t \in Threads : pc[t] = "remove" /\ c \in todo[t]
    <3>1. PICK t \in Threads : pc[t] = "remove" /\ c \in todo[t]
      BY <2>3
    <3>2. c \in Holding(t)
      BY <3>1 DEF DropsOwn, Holding
    <3> QED BY <3>2 DEF HasCloser
  <2> QED BY <2>1, <2>2, <2>3 DEF Registered
<1>2. sock[c] # None
  BY <1>1 DEF LifeInv, Ownership, Closers
<1>3. sock[c] = fd[c] /\ sock[c] \in Fds
  BY <1>2 DEF SockIsFd, LifeInv, TypeInv, TypeOK
<1> QED BY <1>2, <1>3 DEF LifeInv, Ownership, Descriptors

\* The types of the listener's vectors.
LEMMA VectorTypes ==
  ASSUME TypeOK
  PROVE  /\ listener.handle \in HandleType /\ listener.contexts \in Seq(Contexts)
         /\ \A j \in 1..Len(listener.contexts) :
              listener.contexts[j] \in Clients \/ listener.contexts[j] = Server
  BY DEF TypeOK, ListenerType, Contexts

\* A step that leaves the listener alone and takes nobody it lists away.
LEMMA PollingFrame ==
  ASSUME TypeOK, Polling, UNCHANGED <<listener, serverFd, fd>>, mpc' # "none" => mpc # "none",
         mpc' = "erase" => mpc = "erase" /\ cur' = cur,
         \A c \in Clients : Registered(c) => Registered(c)'
  PROVE  Polling'
<1>1. FdOf' = FdOf
  BY DEF FdOf
<1>2. SUFFICES ASSUME mpc' # "none"
               PROVE  /\ Listed(listener.handle, listener.contexts, FdOf)
                      /\ \A j \in 1..Len(listener.contexts) :
                           listener.contexts[j] = Server \/ Registered(listener.contexts[j])'
                      /\ mpc' = "erase" => \A j \in 1..Len(listener.contexts) : listener.contexts[j] # cur'
  <2>1. listener' = listener
    OBVIOUS
  <2> QED BY <1>1, <2>1, Zenon DEF Polling
<1> QED BY <1>2, VectorTypes DEF Polling

\* Nobody loses a registration in a step that leaves the list and the first
\* loops of dropAll() alone.
LEMMA RegisteredKept ==
  ASSUME DropsKept, NEW c, Registered(c), active \subseteq active',
         mpc = "push" => (mpc' = "push" /\ cur' = cur) \/ cur \in active'
  PROVE  Registered(c)'
  BY DEF DropsKept, Registered

\* removeEvent on the server's listener.
LEMMA ListenerRemoved ==
  ASSUME TypeOK, NEW c \in Clients, listener' = RemoveEvent(listener, c, fd[c]), UNCHANGED <<serverFd, fd>>,
         Listed(listener.handle, listener.contexts, FdOf)
  PROVE  /\ Listed(listener'.handle, listener'.contexts, FdOf')
         /\ ErasedOnce(listener'.contexts, listener.contexts, c)
         /\ ErasedFd(listener'.handle, listener.handle, fd[c])
<1>1. PICK hs, cs, F : hs = listener.handle /\ cs = listener.contexts /\ F = FdOf
  OBVIOUS
<1>2. hs \in HandleType /\ cs \in Seq(Contexts) /\ Listed(hs, cs, F)
  BY <1>1, VectorTypes
<1>3. F[c] = fd[c] /\ FdOf' = F
  BY <1>1, NullAssumption DEF FdOf, Contexts
<1>4. listener'.handle = EraseFd(hs, fd[c]) /\ listener'.contexts = RemoveFirst(cs, c)
  BY <1>1 DEF RemoveEvent, TypeOK, ListenerType
<1>5. /\ Listed(EraseFd(hs, F[c]), RemoveFirst(cs, c), F)
      /\ ErasedOnce(RemoveFirst(cs, c), cs, c) /\ ErasedFd(EraseFd(hs, F[c]), hs, F[c])
  <2>1. hs \in Seq([fd : Fds, events : Interests])
    BY <1>2 DEF HandleType
  <2> QED BY <1>2, <2>1, ListedRemoved
<1> QED BY <1>1, <1>3, <1>4, <1>5

\* addEvent on the server's listener.
LEMMA ListenerAdded ==
  ASSUME TypeOK, NEW c \in Contexts, NEW f \in Fds, NEW e \in {"ACCEPT", "READ"},
         listener' = AddEvent(listener, c, f, e), Listed(listener.handle, listener.contexts, FdOf),
         FdOf'[c] = f,
         \A j \in 1..Len(listener.contexts) :
           listener.contexts[j] # c /\ FdOf'[listener.contexts[j]] = FdOf[listener.contexts[j]],
         \A i \in 1..Len(listener.handle) : listener.handle[i].fd # f
  PROVE  /\ Listed(listener'.handle, listener'.contexts, FdOf')
         /\ listener'.contexts = Append(listener.contexts, c)
         /\ listener'.handle = Append(listener.handle, [fd |-> f, events |-> EventsOf(e)])
<1>1. PICK hs, cs, F, G, h : /\ hs = listener.handle /\ cs = listener.contexts /\ F = FdOf /\ G = FdOf'
                             /\ h = [fd |-> f, events |-> EventsOf(e)]
  OBVIOUS
<1>2. EventsOf(e) \in Interests
  BY DEF EventsOf, Interests
<1>3. hs \in Seq([fd : Fds, events : Interests]) /\ cs \in Seq(Contexts) /\ Listed(hs, cs, F)
  BY <1>1, VectorTypes DEF HandleType
<1>4. h \in [fd : Fds, events : Interests] /\ h.fd = f
  BY <1>1, <1>2
<1>5. /\ G[c] = h.fd /\ \A j \in 1..Len(cs) : cs[j] # c /\ G[cs[j]] = F[cs[j]]
      /\ \A i \in 1..Len(hs) : hs[i].fd # h.fd
  BY <1>1, <1>4
<1>6. Listed(Append(hs, h), Append(cs, c), G)
  <2>1. PICK H : H = [fd : Fds, events : Interests]
    OBVIOUS
  <2>2. hs \in Seq(H) /\ h \in H /\ cs \in Seq(Contexts) /\ c \in Contexts
    BY <1>3, <1>4, <2>1
  <2>3. Listed(hs, cs, F)
    BY <1>3
  <2> QED BY <1>5, <2>2, <2>3, ListedAdded
<1>7. listener'.handle = Append(hs, h) /\ listener'.contexts = Append(cs, c)
  BY <1>1 DEF AddEvent
<1> QED BY <1>1, <1>6, <1>7

\* Polling, from its parts.
LEMMA PollingFrom ==
  ASSUME Listed(listener'.handle, listener'.contexts, FdOf'),
         \A j \in 1..Len(listener'.contexts) :
           listener'.contexts[j] = Server \/ Registered(listener.contexts[j])',
         mpc' = "erase" => \A j \in 1..Len(listener'.contexts) : listener'.contexts[j] # cur'
  PROVE  Polling'
  BY DEF Polling

\* accept() registers a client and a descriptor the listener does not have.
LEMMA PollingAccept ==
  ASSUME LifeInv, SockIsFd, DropsOwn, OpenOnce, Polling, MonitorAccept
  PROVE  Polling'
<1> USE DEF objVars, monVars, apiVars, cliVars, kernVars, histVars
<1> TypeOK
  BY DEF LifeInv, TypeInv
<1>1. PICK c \in Queued, f \in FreeFds :
        fd' = [fd EXCEPT ![c] = f] /\ listener' = AddEvent(listener, c, f, "READ") /\ cur' = c
  BY DEF MonitorAccept, AcceptClient
<1>2. /\ c \in Clients /\ fd[c] = None /\ f \in Fds /\ owner[f] = None /\ c # Server /\ c \in Contexts
      /\ UNCHANGED <<active, serverFd, pc, todo>> /\ mpc = "dispatch" /\ mpc' = "push"
  BY NullAssumption DEF MonitorAccept, Dispatching, Queued, FreeFds, Contexts
<1>3. /\ Listed(listener.handle, listener.contexts, FdOf)
      /\ \A j \in 1..Len(listener.contexts) :
           listener.contexts[j] = Server \/ Registered(listener.contexts[j])
  BY <1>2 DEF Polling
<1>4. ASSUME NEW j \in 1..Len(listener.contexts)
      PROVE  /\ listener.contexts[j] # c /\ FdOf'[listener.contexts[j]] = FdOf[listener.contexts[j]]
             /\ FdOf[listener.contexts[j]] # f
  <2>1. PICK x : x = listener.contexts[j]
    OBVIOUS
  <2>2. CASE x = Server
    <3>1. owner[serverFd] = Server
      BY <1>2 DEF OpenOnce
    <3>2. serverFd # f /\ FdOf[x] = serverFd /\ FdOf'[x] = serverFd
      BY <1>2, <2>2, <3>1, NullAssumption DEF FdOf, Contexts
    <3> QED BY <1>2, <2>1, <2>2, <3>2
  <2>3. CASE x # Server
    <3>1. x \in Clients /\ Registered(x)
      BY <1>3, <2>1, <2>3, VectorTypes
    <3>2. fd[x] \in Fds /\ owner[fd[x]] = x
      BY <3>1, RegisteredOpen
    <3>3. x # c /\ fd[x] # f
      BY <1>2, <3>1, <3>2, NullAssumption
    <3>4. FdOf[x] = fd[x] /\ FdOf'[x] = fd[x]
      BY <1>1, <1>2, <2>3, <3>1, <3>3 DEF FdOf, Contexts, TypeOK
    <3> QED BY <2>1, <3>3, <3>4
  <2> QED BY <2>2, <2>3
<1>5. \A i \in 1..Len(listener.handle) : listener.handle[i].fd # f
  BY <1>3, <1>4 DEF Listed
<1>6. FdOf'[c] = f
  BY <1>1, <1>2 DEF FdOf, TypeOK
<1>7. /\ Listed(listener'.handle, listener'.contexts, FdOf')
      /\ listener'.contexts = Append(listener.contexts, c)
  BY <1>1, <1>2, <1>3, <1>4, <1>5, <1>6, ListenerAdded
<1>8. \A x : Registered(x) \/ x = c => Registered(x)'
  BY <1>1, <1>2 DEF Registered
<1>9. ASSUME NEW j \in 1..Len(listener'.contexts)
      PROVE  listener'.contexts[j] = Server \/ Registered(listener.contexts[j])'
  <2>1. \/ j \in 1..Len(listener.contexts) /\ listener'.contexts[j] = listener.contexts[j]
        \/ listener'.contexts[j] = c
    BY <1>7, VectorTypes
  <2> QED BY <1>3, <1>8, <2>1
<1> QED BY <1>2, <1>7, <1>9, PollingFrom

\* open() registers the accept context in an empty listener.
LEMMA PollingOpen ==
  ASSUME LifeInv, OpenOnce, NEW t \in Threads, OpenStart(t)
  PROVE  Polling'
<1> USE DEF objVars, monVars, apiVars, cliVars, kernVars, histVars
<1> TypeOK
  BY DEF LifeInv, TypeInv
<1>1. /\ pc[t] = "opened" /\ serverFd' = passive /\ listener' = AddEvent(listener, Server, passive, "ACCEPT")
      /\ mpc' = IF isMonitoring THEN mpc ELSE "top"
  BY DEF OpenStart
<1>2. listener.handle = <<>> /\ listener.contexts = <<>> /\ ~isMonitoring /\ passive \in Fds
  BY <1>1 DEF OpenOnce, TypeOK
<1>3. Len(listener.handle) = 0 /\ Len(listener.contexts) = 0
  BY <1>2
<1>4. Listed(listener.handle, listener.contexts, FdOf)
  BY <1>3 DEF Listed
<1>5. Server \in Contexts /\ FdOf'[Server] = passive
  BY <1>1 DEF FdOf, Contexts
<1>6. /\ Listed(listener'.handle, listener'.contexts, FdOf')
      /\ listener'.contexts = Append(listener.contexts, Server)
  <2>1. /\ \A j \in 1..Len(listener.contexts) :
             listener.contexts[j] # Server /\ FdOf'[listener.contexts[j]] = FdOf[listener.contexts[j]]
        /\ \A i \in 1..Len(listener.handle) : listener.handle[i].fd # passive
    BY <1>3
  <2>2. listener' = AddEvent(listener, Server, passive, "ACCEPT") /\ passive \in Fds
    BY <1>1, <1>2
  <2> QED BY <1>4, <1>5, <2>1, <2>2, ListenerAdded
<1>7. \A j \in 1..Len(listener'.contexts) : listener'.contexts[j] = Server
  BY <1>2, <1>6
<1>8. mpc' # "erase"
  BY <1>1, <1>2
<1> QED BY <1>6, <1>7, <1>8, PollingFrom

\* removeEvent, by the monitor or by dropAll(), takes one context out; the
\* others stay registered.
LEMMA PollingRemove ==
  ASSUME TypeOK, Polling, NEW c \in Clients, listener' = RemoveEvent(listener, c, fd[c]), UNCHANGED <<serverFd, fd>>,
         mpc # "none", \A x \in Clients : Registered(x) /\ x # c => Registered(x)',
         mpc' = "erase" => cur' = c \/ (mpc = "erase" /\ cur' = cur)
  PROVE  Polling'
<1>1. /\ Listed(listener.handle, listener.contexts, FdOf)
      /\ \A j \in 1..Len(listener.contexts) :
           listener.contexts[j] = Server \/ Registered(listener.contexts[j])
      /\ mpc = "erase" => \A j \in 1..Len(listener.contexts) : listener.contexts[j] # cur
  BY DEF Polling
<1>2. /\ Listed(listener'.handle, listener'.contexts, FdOf')
      /\ ErasedOnce(listener'.contexts, listener.contexts, c)
  BY <1>1, ListenerRemoved
<1>3. ASSUME NEW j \in 1..Len(listener'.contexts)
      PROVE  /\ listener'.contexts[j] = Server \/ Registered(listener.contexts[j])'
             /\ mpc' = "erase" => listener'.contexts[j] # cur'
  <2>1. PICK k \in 1..Len(listener.contexts) : listener'.contexts[j] = listener.contexts[k] /\ listener.contexts[k] # c
    BY <1>2 DEF ErasedOnce
  <2>2. PICK x : x = listener.contexts[k]
    OBVIOUS
  <2>3. x = Server \/ (x \in Clients /\ Registered(x))
    BY <1>1, <2>2, VectorTypes
  <2>4. x = Server \/ Registered(x)'
    BY <2>1, <2>2, <2>3
  <2>5. mpc' = "erase" => x # cur'
    BY <1>1, <2>1, <2>2
  <2> QED BY <2>1, <2>2, <2>4, <2>5
<1> QED BY <1>2, <1>3, PollingFrom

\* Nobody but the accept context, the active clients and those of a dropAll()
\* is ever listed.
LEMMA PollingStep ==
  ASSUME LifeInv, SockIsFd, DropsOwn, OpenOnce, Polling, [Next]_vars
  PROVE  Polling'
<1> USE DEF objVars, monVars, apiVars, cliVars, kernVars, histVars
<1> TypeOK
  BY DEF LifeInv, TypeInv
<1>1. CASE MonitorQuiet
  <2>1. mpc # "push"
    BY <1>1 DEF MonitorQuiet, MonitorCheck, MonitorPollFails, MonitorAcceptFails, MonitorAnnounce,
       MonitorFinish, MonitorSkip, MonitorEndBatch, Dispatching
  <2>2. /\ UNCHANGED <<active, listener, serverFd, fd>> /\ DropsKept
        /\ mpc # "none" /\ mpc' # "erase"
    BY <1>1, QuietMonitor
  <2>3. \A c \in Clients : Registered(c) => Registered(c)'
    BY <2>1, <2>2, RegisteredKept
  <2> QED BY <2>2, <2>3, PollingFrame
<1>2. CASE MonitorClear \/ MonitorSnapshot \/ MonitorPoll
  <2>1. /\ UNCHANGED <<active, listener, serverFd, fd, pc, todo, mine, cur>>
        /\ mpc \in {"clear", "wait", "poll"} /\ mpc' # "erase"
    BY <1>2 DEF MonitorClear, MonitorSnapshot, MonitorPoll
  <2>2. \A c \in Clients : Registered(c) => Registered(c)'
    BY <2>1 DEF Registered
  <2> QED BY <2>1, <2>2, PollingFrame
<1>3. CASE MonitorPush
  <2>1. /\ UNCHANGED <<listener, serverFd, fd, pc, todo, mine, cur>> /\ active' = active \cup {cur}
        /\ mpc = "push" /\ mpc' = "announce"
    BY <1>3 DEF MonitorPush
  <2>2. \A c \in Clients : Registered(c) => Registered(c)'
    BY <2>1 DEF Registered
  <2> QED BY <2>1, <2>2, PollingFrame
<1>4. CASE MonitorErase
  <2>1. /\ UNCHANGED <<listener, serverFd, fd, pc, todo, mine, cur>> /\ active' = active \ {cur}
        /\ mpc = "erase" /\ mpc' = "finish"
    BY <1>4 DEF MonitorErase
  <2>2. ASSUME NEW j \in 1..Len(listener.contexts)
        PROVE  listener.contexts[j] = Server \/ Registered(listener.contexts[j])'
    <3>1. PICK x : x = listener.contexts[j]
      OBVIOUS
    <3>2. x # cur /\ (x = Server \/ Registered(x))
      BY <2>1, <3>1 DEF Polling
    <3>3. x = Server \/ Registered(x)'
      BY <2>1, <3>2 DEF Registered
    <3> QED BY <2>1, <3>1, <3>3
  <2>3. FdOf' = FdOf /\ Listed(listener.handle, listener.contexts, FdOf)
    BY <2>1 DEF FdOf, Polling
  <2> QED BY <2>1, <2>2, <2>3, PollingFrom
<1>5. CASE MonitorRemove
  <2>1. PICK c \in Clients : listener' = RemoveEvent(listener, c, fd[c]) /\ cur' = c
    BY <1>5 DEF MonitorRemove
  <2>2. UNCHANGED <<active, serverFd, fd, pc, todo>> /\ mpc = "dispatch" /\ mpc' = "erase"
    BY <1>5 DEF MonitorRemove, Dispatching
  <2>3. \A x \in Clients : Registered(x) => Registered(x)'
    BY <2>2 DEF Registered
  <2> QED BY <2>1, <2>2, <2>3, PollingRemove
<1>6. ASSUME NEW t \in Threads, ThreadQuiet(t) PROVE Polling'
  <2>1. /\ UNCHANGED <<active, listener, serverFd, fd, cur>> /\ DropsKept
        /\ mpc' = mpc \/ (mpc = "exited" /\ mpc' = "none")
    BY <1>6, QuietThread
  <2>2. \A c \in Clients : Registered(c) => Registered(c)'
    BY <2>1, RegisteredKept
  <2> QED BY <2>1, <2>2, PollingFrame
<1>7. ASSUME NEW t \in Threads, CloseClear(t) PROVE Polling'
  <2>1. pc[t] = "clear" /\ mpc' = mpc
    BY <1>7 DEF CloseClear
  <2> QED BY <2>1 DEF LifeInv, JoinedFirst, Polling
<1>8. ASSUME NEW t \in Threads, DropSwap(t) PROVE Polling'
  <2>1. /\ UNCHANGED <<listener, serverFd, fd, mpc, cur>> /\ pc[t] = "idle"
        /\ todo' = [todo EXCEPT ![t] = active] /\ pc' = [pc EXCEPT ![t] = "remove"]
    BY <1>8 DEF DropSwap
  <2>2. pc'[t] = "remove" /\ todo'[t] = active /\ \A u \in Threads : pc[u] = "remove" => pc'[u] = "remove" /\ todo'[u] = todo[u]
    BY <2>1 DEF TypeOK
  <2>3. \A c \in Clients : Registered(c) => Registered(c)'
    BY <2>1, <2>2 DEF Registered
  <2> QED BY <2>1, <2>3, PollingFrame
<1>9. ASSUME NEW t \in Threads, DropRemove(t) PROVE Polling'
  <2>1. PICK c \in todo[t] : listener' = RemoveEvent(listener, c, fd[c]) /\ todo' = [todo EXCEPT ![t] = todo[t] \ {c}]
    BY <1>9 DEF DropRemove
  <2>2. UNCHANGED <<active, serverFd, fd, mpc, cur, pc>> /\ c \in Clients
    BY <1>9 DEF DropRemove, TypeOK
  <2>3. \A x \in Clients : Registered(x) /\ x # c => Registered(x)'
    <3>1. \A u \in Threads, x \in Clients : x \in todo[u] /\ x # c => x \in todo'[u]
      BY <2>1 DEF TypeOK
    <3> QED BY <2>2, <3>1 DEF Registered
  <2>4. CASE mpc = "none"
    BY <2>2, <2>4 DEF Polling
  <2>5. CASE mpc # "none"
    BY <2>1, <2>2, <2>3, <2>5, PollingRemove
  <2> QED BY <2>4, <2>5
<1>10. ASSUME NEW t \in Threads, DropHandoff(t) PROVE Polling'
  <2>1. /\ UNCHANGED <<active, listener, serverFd, fd, mpc, cur, todo>> /\ todo[t] = {}
        /\ pc' = [pc EXCEPT ![t] = "dropnotify"]
    BY <1>10 DEF DropHandoff
  <2>2. \A c \in Clients : Registered(c) => Registered(c)'
    BY <2>1 DEF Registered, TypeOK
  <2> QED BY <2>1, <2>2, PollingFrame
<1>11. CASE (\E c \in Clients : PeerConnect(c) \/ PeerHangup(c)) \/ UNCHANGED vars
  <2>1. UNCHANGED <<active, listener, serverFd, fd, mpc, cur, todo, pc>>
    BY <1>11 DEF PeerConnect, PeerHangup, vars
  <2>2. \A c \in Clients : Registered(c) => Registered(c)'
    BY <2>1 DEF Registered
  <2> QED BY <2>1, <2>2, PollingFrame
<1> QED BY <1>1, <1>2, <1>3, <1>4, <1>5, <1>6, <1>7, <1>8, <1>9, <1>10, <1>11, StepKinds,
           PollingAccept, PollingOpen

\* Who was secure stays so in a step that only adds to the lists and leaves the
\* first loops of dropAll() alone.
LEMMA SecureKept ==
  ASSUME DropsKept, active \subseteq active', pending \subseteq pending'
  PROVE  \A c : Secure(c) => Secure(c)'
  BY DEF DropsKept, Secure

\* The events that remain after the first one.
LEMMA EventsTail ==
  ASSUME TypeOK, EventsSecure, evs # <<>>, evs' = Tail(evs), \A c : Secure(c) => Secure(c)'
  PROVE  EventsSecure'
<1>1. Len(evs') = Len(evs) - 1 /\ Len(evs) \in Nat /\ \A i \in 1..Len(evs') : i + 1 \in 1..Len(evs) /\ evs'[i] = evs[i + 1]
  BY DEF TypeOK
<1>2. \A i \in 1..Len(evs') :
        evs'[i].type # "NONE" => \/ evs'[i].ctx = Server /\ evs'[i].type # "DISCONNECTED"
                                 \/ evs'[i].ctx \in Clients /\ Secure(evs[i].ctx)'
  <2>1. SUFFICES ASSUME NEW i \in 1..Len(evs'), evs'[i].type # "NONE"
                 PROVE  \/ evs'[i].ctx = Server /\ evs'[i].type # "DISCONNECTED"
                        \/ evs'[i].ctx \in Clients /\ Secure(evs[i].ctx)'
    OBVIOUS
  <2>2. PICK e : e = evs[i + 1] /\ e = evs'[i]
    BY <1>1
  <2>3. (e.ctx = Server /\ e.type # "DISCONNECTED") \/ (e.ctx \in Clients /\ Secure(e.ctx))
    BY <1>1, <2>1, <2>2 DEF EventsSecure
  <2>4. Secure(e.ctx) => Secure(e.ctx)'
    OBVIOUS
  <2> QED BY <2>2, <2>3, <2>4
<1>3. ASSUME NEW i \in 1..Len(evs'), NEW j \in 1..Len(evs'),
             evs'[i].type # "NONE", evs'[j].type # "NONE", evs'[i].ctx = evs'[j].ctx
      PROVE  i = j
  <2>1. i + 1 = j + 1
    BY <1>1, <1>3 DEF EventsSecure
  <2> QED BY <2>1
<1> QED BY <1>2, <1>3, Zenon DEF EventsSecure

\* A step that leaves the copies alone and frees nobody.
LEMMA BatchFrame ==
  ASSUME Batch, FdOf' = FdOf, evs' = evs, \A c : Secure(c) => Secure(c)',
         mpc' = "poll" => mpc = "poll" /\ snap' = snap,
         mpc' = "erase" => mpc = "erase" /\ cur' = cur
  PROVE  Batch'
<1>1. SnapSecure'
  <2>1. CASE mpc' = "poll"
    <3>1. \A j \in 1..Len(snap.contexts) : snap.contexts[j] = Server \/ Secure(snap.contexts[j])'
      BY <2>1 DEF Batch, SnapSecure
    <3>2. snap' = snap /\ Listed(snap.handle, snap.contexts, FdOf)
      BY <2>1 DEF Batch, SnapSecure
    <3> QED BY <3>1, <3>2, Zenon DEF SnapSecure
  <2>2. CASE mpc' # "poll"
    BY <2>2 DEF SnapSecure
  <2> QED BY <2>1, <2>2
<1>2. EventsSecure'
  BY DEF Batch, EventsSecure
<1>3. EraseSecure'
  BY DEF Batch, EraseSecure
<1> QED BY <1>1, <1>2, <1>3 DEF Batch

\* Every event wait() reports is about the context that has the descriptor.
Located(list, hs, cs, F, R, server) ==
  \A i \in 1..Len(hs) :
    /\ list[i].type = EventType(R[i], hs[i].fd, server)
    /\ list[i].type # "NONE" => \E j \in 1..Len(cs) : list[i].ctx = cs[j] /\ F[cs[j]] = hs[i].fd

\* wait() finds a context for every pollfd of a listed snapshot.
LEMMA EventsLocated ==
  ASSUME NEW H, NEW hs \in Seq(H), NEW S, NEW cs \in Seq(S), NEW F, Listed(hs, cs, F), NEW R, NEW server, NEW nil
  PROVE  Located(Events(hs, cs, F, R, server, nil), hs, cs, F, R, server)
<1>1. PICK list : list = Events(hs, cs, F, R, server, nil)
  OBVIOUS
<1>2. ASSUME NEW i \in 1..Len(hs)
      PROVE  /\ list[i].type = EventType(R[i], hs[i].fd, server)
             /\ list[i].type # "NONE" => \E j \in 1..Len(cs) : list[i].ctx = cs[j] /\ F[cs[j]] = hs[i].fd
  <2>1. PICK type, ctx : type = EventType(R[i], hs[i].fd, server) /\ ctx = FindContext(cs, F, hs[i].fd, nil)
    OBVIOUS
  <2>2. list[i] = [type |-> type, ctx |-> IF type = "NONE" THEN nil ELSE ctx]
    BY <1>1, <2>1, Zenon DEF Events
  <2>3. \E j \in 1..Len(cs) : ctx = cs[j] /\ F[cs[j]] = hs[i].fd
    <3>1. PICK f : f = hs[i].fd
      OBVIOUS
    <3>2. \E j \in 1..Len(cs) : F[cs[j]] = f
      BY <3>1 DEF Listed
    <3>3. \E j \in 1..Len(cs) : FindContext(cs, F, f, nil) = cs[j] /\ F[cs[j]] = f
      BY <3>2, FindContextFound
    <3> QED BY <2>1, <3>1, <3>3
  <2>4. list[i].type = type /\ (type # "NONE" => list[i].ctx = ctx)
    BY <2>2
  <2> QED BY <2>1, <2>3, <2>4
<1>3. Located(list, hs, cs, F, R, server)
  BY <1>2, Zenon DEF Located
<1> QED BY <1>1, <1>3

\* The listening socket is never reported as disconnected.
LEMMA ServerNotDisconnected ==
  ASSUME NEW h, h.fd = serverFd, serverFd \in listening, owner[serverFd] = Server, NEW server
  PROVE  EventType(Revents(h), h.fd, server) # "DISCONNECTED"
<1>1. Revents(h) \in {{"IN"}, {}}
  BY NullAssumption DEF Revents
<1> QED BY <1>1 DEF EventType

\* The batch wait() makes from a secure snapshot.
LEMMA BatchPoll ==
  ASSUME LifeInv, OpenOnce, Batch, MonitorPoll
  PROVE  Batch'
<1> USE DEF objVars, monVars, apiVars, cliVars, kernVars, histVars
<1> TypeOK
  BY DEF LifeInv, TypeInv
<1> DEFINE revents == [i \in DOMAIN snap.handle |-> Revents(snap.handle[i])]
           list == Events(snap.handle, snap.contexts, FdOf, revents, listener.serverSocket, None)
<1>1. /\ evs' = <<>> \/ evs' = list
      /\ mpc = "poll" /\ mpc' \in {"top", "dispatch"} /\ UNCHANGED <<active, pending, pc, mine>>
  BY Zenon DEF MonitorPoll
<1>2. PICK hs, cs, F : hs = snap.handle /\ cs = snap.contexts /\ F = FdOf
  OBVIOUS
<1>3. /\ hs \in HandleType /\ cs \in Seq(Contexts) /\ Listed(hs, cs, F)
      /\ \A j \in 1..Len(cs) : cs[j] \in Contexts /\ (cs[j] = Server \/ Secure(cs[j]))
  BY <1>1, <1>2 DEF TypeOK, Batch, SnapSecure
<1>4. PICK R, server : R = revents /\ server = listener.serverSocket
  OBVIOUS
<1>5. list = Events(hs, cs, F, R, server, None) /\ \A i \in 1..Len(hs) : R[i] = Revents(hs[i])
  <2>1. DOMAIN hs = 1..Len(hs)
    BY <1>3 DEF HandleType
  <2> QED BY <1>2, <1>4, <2>1
<1> HIDE DEF list, revents
<1>6. Located(list, hs, cs, F, R, server) /\ Len(list) = Len(hs)
  <2>1. PICK H : hs \in Seq(H)
    BY <1>3 DEF HandleType
  <2>2. Located(Events(hs, cs, F, R, server, None), hs, cs, F, R, server)
    BY <1>3, <2>1, EventsLocated
  <2>3. Len(Events(hs, cs, F, R, server, None)) = Len(hs)
    <3>1. Len(hs) \in Nat
      BY <2>1
    <3> QED BY <3>1 DEF Events
  <2> QED BY <1>5, <2>2, <2>3
<1>7. ASSUME NEW i \in 1..Len(list), list[i].type # "NONE"
      PROVE  \/ list[i].ctx = Server /\ list[i].type # "DISCONNECTED"
             \/ list[i].ctx \in Clients /\ Secure(list[i].ctx)
  <2>1. PICK j \in 1..Len(cs) : list[i].ctx = cs[j] /\ F[cs[j]] = hs[i].fd
    BY <1>6, <1>7 DEF Located
  <2>2. CASE cs[j] = Server
    <3>1. PICK h : h = hs[i]
      OBVIOUS
    <3>2. h.fd = serverFd /\ serverFd \in listening /\ owner[serverFd] = Server
      BY <1>1, <1>2, <2>1, <2>2, <3>1 DEF FdOf, Contexts, OpenOnce
    <3>3. list[i].type = EventType(Revents(h), h.fd, server)
      BY <1>5, <1>6, <3>1 DEF Located
    <3>4. list[i].type # "DISCONNECTED"
      BY <3>2, <3>3, ServerNotDisconnected
    <3> QED BY <2>1, <2>2, <3>4
  <2>3. CASE cs[j] # Server
    BY <1>3, <2>1, <2>3 DEF Contexts
  <2> QED BY <2>2, <2>3
<1>8. ASSUME NEW i \in 1..Len(list), NEW j \in 1..Len(list),
             list[i].type # "NONE", list[j].type # "NONE", list[i].ctx = list[j].ctx
      PROVE  i = j
  <2>1. hs[i].fd = hs[j].fd
    BY <1>6, <1>8 DEF Located
  <2> QED BY <1>3, <1>6, <2>1 DEF Listed
<1>9. EventsSecure'
  <2>1. CASE evs' = <<>>
    BY <2>1 DEF EventsSecure
  <2>2. CASE evs' = list
    <3>1. \A c : Secure(c)' <=> Secure(c)
      BY <1>1 DEF Secure
    <3>2. \A i \in 1..Len(evs') :
            evs'[i].type # "NONE" => \/ evs'[i].ctx = Server /\ evs'[i].type # "DISCONNECTED"
                                     \/ evs'[i].ctx \in Clients /\ Secure(evs[i].ctx)'
      BY <1>7, <2>2, <3>1
    <3>3. \A i, j \in 1..Len(evs') :
            evs'[i].type # "NONE" /\ evs'[j].type # "NONE" /\ evs'[i].ctx = evs'[j].ctx => i = j
      BY <1>8, <2>2
    <3> QED BY <3>2, <3>3, Zenon DEF EventsSecure
  <2> QED BY <1>1, <2>1, <2>2
<1> QED BY <1>1, <1>9 DEF Batch, SnapSecure, EraseSecure

\* The monitor takes the first event, of a disconnected client, and its place
\* in the listener: the other events are about other clients.
LEMMA BatchRemove ==
  ASSUME LifeInv, Batch, MonitorRemove
  PROVE  Batch'
<1> USE DEF objVars, monVars, apiVars, cliVars, kernVars, histVars
<1> TypeOK
  BY DEF LifeInv, TypeInv
<1>1. /\ evs # <<>> /\ evs[1].type = "DISCONNECTED" /\ evs[1].ctx \in Clients /\ cur' = evs[1].ctx
      /\ evs' = Tail(evs) /\ mpc' = "erase" /\ UNCHANGED <<active, pending, pc, mine>>
  BY DEF MonitorRemove, Dispatching, TypeOK
<1>2. \A c : Secure(c)' <=> Secure(c)
  BY <1>1 DEF Secure
<1>3. EventsSecure'
  BY <1>1, <1>2, EventsTail DEF Batch
<1>4. Len(evs') = Len(evs) - 1 /\ Len(evs) \in Nat /\ 1 \in 1..Len(evs)
      /\ \A i \in 1..Len(evs') : i + 1 \in 1..Len(evs) /\ evs'[i] = evs[i + 1] /\ i + 1 # 1
  BY <1>1 DEF TypeOK
<1>5. Secure(evs[1].ctx) /\ \A i \in 1..Len(evs') : evs'[i].type # "NONE" => evs'[i].ctx # evs[1].ctx
  <2>1. Server \notin Clients
    BY NullAssumption
  <2> QED BY <1>1, <1>4, <2>1 DEF Batch, EventsSecure
<1>6. EraseSecure'
  BY <1>1, <1>2, <1>5 DEF EraseSecure
<1> QED BY <1>1, <1>3, <1>6 DEF Batch, SnapSecure

\* Nobody the monitor holds in a local copy loses its last owner.
LEMMA BatchStep ==
  ASSUME LifeInv, DropsOwn, BatchLocal, OpenOnce, Polling, Batch, [Next]_vars
  PROVE  Batch'
<1> USE DEF objVars, monVars, apiVars, cliVars, kernVars, histVars
<1> TypeOK
  BY DEF LifeInv, TypeInv
<1>0. ASSUME evs' = <<>>, mpc' \notin {"poll", "erase"} PROVE Batch'
  BY <1>0 DEF Batch, SnapSecure, EventsSecure, EraseSecure
<1>1. CASE MonitorQuiet
  <2>1. UNCHANGED <<active, pending, serverFd, fd>> /\ DropsKept /\ mpc' \notin {"poll", "erase"}
    BY <1>1, QuietMonitor
  <2>2. \A c : Secure(c) => Secure(c)'
    BY <2>1, SecureKept
  <2>3. evs' = evs \/ (evs # <<>> /\ evs' = Tail(evs))
    BY <1>1 DEF MonitorQuiet, MonitorCheck, MonitorPollFails, MonitorAcceptFails, MonitorAnnounce,
       MonitorFinish, MonitorSkip, MonitorEndBatch, Dispatching
  <2>4. CASE evs' = evs
    <3>1. FdOf' = FdOf
      BY <2>1 DEF FdOf
    <3> QED BY <2>1, <2>2, <2>4, <3>1, BatchFrame
  <2>5. CASE evs # <<>> /\ evs' = Tail(evs)
    <3>1. EventsSecure'
      BY <2>2, <2>5, EventsTail DEF Batch
    <3> QED BY <2>1, <3>1 DEF Batch, SnapSecure, EraseSecure
  <2> QED BY <2>3, <2>4, <2>5
<1>2. CASE MonitorClear
  <2>1. evs' = <<>> /\ mpc' = "wait"
    BY <1>2 DEF MonitorClear, BatchLocal
  <2> QED BY <1>0, <2>1
<1>3. CASE MonitorSnapshot
  <2>1. /\ mpc = "wait" /\ mpc' = "poll" /\ evs' = <<>> /\ UNCHANGED <<active, pending, pc, mine, serverFd, fd>>
        /\ snap'.handle = listener.handle /\ snap'.contexts = listener.contexts
    BY <1>3 DEF MonitorSnapshot, BatchLocal
  <2>2. \A c : Registered(c) => Secure(c)'
    BY <2>1 DEF Registered, Secure, DropsOwn
  <2>3. FdOf' = FdOf
    BY <2>1 DEF FdOf
  <2>4. \A j \in 1..Len(listener.contexts) :
          listener.contexts[j] = Server \/ Secure(listener.contexts[j])'
    <3>1. SUFFICES ASSUME NEW j \in 1..Len(listener.contexts)
                   PROVE  listener.contexts[j] = Server \/ Secure(listener.contexts[j])'
      OBVIOUS
    <3>2. PICK x : x = listener.contexts[j]
      OBVIOUS
    <3>3. x = Server \/ Registered(x)
      BY <2>1, <3>2 DEF Polling
    <3>4. x = Server \/ Secure(x)'
      BY <2>2, <3>3
    <3>5. listener' = listener
      BY <1>3 DEF MonitorSnapshot
    <3> QED BY <3>2, <3>4, <3>5
  <2>5. SnapSecure'
    <3>1. listener' = listener /\ Listed(listener.handle, listener.contexts, FdOf)
      BY <1>3, <2>1 DEF MonitorSnapshot, Polling
    <3>2. ASSUME NEW j \in 1..Len(snap'.contexts) PROVE snap'.contexts[j] = Server \/ Secure(snap.contexts[j])'
      BY <2>1, <2>4, <3>1, <3>2
    <3>3. Listed(snap'.handle, snap'.contexts, FdOf')
      BY <2>1, <2>3, <3>1
    <3> QED BY <3>2, <3>3, Zenon DEF SnapSecure
  <2> QED BY <2>1, <2>5 DEF Batch, EventsSecure, EraseSecure
<1>4. CASE MonitorAccept
  <2>1. /\ UNCHANGED <<active, pending, pc, mine>> /\ evs # <<>> /\ evs' = Tail(evs) /\ mpc' = "push"
    BY <1>4 DEF MonitorAccept, Dispatching
  <2>2. EventsSecure'
    <3>1. \A c : Secure(c) => Secure(c)'
      BY <2>1 DEF Secure
    <3> QED BY <2>1, <3>1, EventsTail DEF Batch
  <2> QED BY <2>1, <2>2 DEF Batch, SnapSecure, EraseSecure
<1>5. CASE MonitorPush
  <2>1. /\ UNCHANGED <<pending, pc, mine, serverFd, fd, evs>> /\ active' = active \cup {cur} /\ mpc' = "announce"
    BY <1>5 DEF MonitorPush
  <2>2. FdOf' = FdOf /\ \A c : Secure(c) => Secure(c)'
    BY <2>1 DEF Secure, FdOf
  <2> QED BY <2>1, <2>2, BatchFrame
<1>6. CASE MonitorErase
  <2>1. /\ UNCHANGED <<pending, pc, mine, evs>> /\ active' = active \ {cur} /\ mpc = "erase" /\ mpc' = "finish"
    BY <1>6 DEF MonitorErase
  <2>2. \A c : Secure(c) /\ c # cur => Secure(c)'
    BY <2>1 DEF Secure
  <2>3. \A i \in 1..Len(evs) : evs[i].type # "NONE" => evs[i].ctx # cur
    BY <2>1 DEF Batch, EraseSecure
  <2>4. EventsSecure'
    <3>1. \A i \in 1..Len(evs) :
            evs[i].type # "NONE" => \/ evs[i].ctx = Server /\ evs[i].type # "DISCONNECTED"
                                    \/ evs[i].ctx \in Clients /\ Secure(evs[i].ctx)'
      BY <2>1, <2>2, <2>3 DEF Batch, EventsSecure
    <3>2. evs' = evs
      BY <2>1
    <3> QED BY <3>1, <3>2 DEF Batch, EventsSecure
  <2> QED BY <2>1, <2>4 DEF Batch, SnapSecure, EraseSecure
<1>7. ASSUME NEW t \in Threads, ThreadQuiet(t) PROVE Batch'
  <2>1. /\ UNCHANGED <<active, pending, serverFd, fd, snap, evs, cur>> /\ DropsKept
        /\ mpc' = mpc \/ (mpc = "exited" /\ mpc' = "none")
    BY <1>7, QuietThread
  <2>2. FdOf' = FdOf /\ \A c : Secure(c) => Secure(c)'
    BY <2>1, SecureKept DEF FdOf
  <2> QED BY <2>1, <2>2, BatchFrame
<1>8. ASSUME NEW t \in Threads, OpenStart(t) \/ CloseClear(t) PROVE Batch'
  <2>1. mpc = "none" /\ evs' = evs /\ mpc' \in {"none", "top"}
    BY <1>8 DEF OpenStart, CloseClear, OpenOnce, LifeInv, JoinedFirst
  <2>2. evs' = <<>>
    BY <2>1 DEF BatchLocal
  <2> QED BY <1>0, <2>1, <2>2
<1>9. ASSUME NEW t \in Threads, DropSwap(t) \/ DropRemove(t) \/ DropHandoff(t) PROVE Batch'
  <2>1. UNCHANGED <<serverFd, fd, mpc, snap, evs, cur>>
    BY <1>9 DEF DropSwap, DropRemove, DropHandoff
  <2>2. \A c : Secure(c) => Secure(c)'
    <3>1. CASE DropSwap(t)
      <4>1. /\ pc[t] = "idle" /\ pc'[t] = "remove" /\ mine'[t] = active /\ pending' = pending
            /\ \A u \in Threads : pc[u] = "remove" => pc'[u] = "remove" /\ mine'[u] = mine[u]
        BY <3>1 DEF DropSwap, TypeOK
      <4> QED BY <4>1 DEF Secure
    <3>2. CASE DropRemove(t)
      <4>1. UNCHANGED <<active, pending, pc, mine>>
        BY <3>2 DEF DropRemove
      <4> QED BY <4>1 DEF Secure
    <3>3. CASE DropHandoff(t)
      <4>1. /\ UNCHANGED <<active, mine>> /\ pending' = pending \cup mine[t]
            /\ \A u \in Threads : u # t => pc'[u] = pc[u]
        BY <3>3 DEF DropHandoff, TypeOK
      <4> QED BY <4>1 DEF Secure
    <3> QED BY <1>9, <3>1, <3>2, <3>3
  <2>3. FdOf' = FdOf
    BY <2>1 DEF FdOf
  <2> QED BY <2>1, <2>2, <2>3, BatchFrame
<1>10. CASE (\E c \in Clients : PeerConnect(c) \/ PeerHangup(c)) \/ UNCHANGED vars
  <2>1. UNCHANGED <<active, pending, pc, mine, serverFd, fd, mpc, snap, evs, cur>>
    BY <1>10 DEF PeerConnect, PeerHangup, vars
  <2>2. FdOf' = FdOf /\ \A c : Secure(c) => Secure(c)'
    BY <2>1 DEF FdOf, Secure
  <2> QED BY <2>1, <2>2, BatchFrame
<1> QED BY <1>1, <1>2, <1>3, <1>4, <1>5, <1>6, <1>7, <1>8, <1>9, <1>10, StepKinds, BatchPoll, BatchRemove

\* The inductive invariant behind the monitor's pointers.
THEOREM PointerInvariant ==
  ASSUME ~ReopensClosed
  PROVE  Spec => []PointerInv
<1>1. Init => SockIsFd /\ DropsOwn /\ BatchLocal /\ OpenOnce /\ Polling /\ Batch
  <2>1. SUFFICES ASSUME Init PROVE SockIsFd /\ DropsOwn /\ BatchLocal /\ OpenOnce /\ Polling /\ Batch
    OBVIOUS
  <2>2. SockIsFd /\ DropsOwn /\ BatchLocal
    BY <2>1 DEF Init, SockIsFd, DropsOwn, BatchLocal
  <2>3. OpenOnce
    BY <2>1 DEF Init, OpenOnce, NewListener
  <2>4. Polling /\ Batch
    BY <2>1 DEF Init, Polling, Batch, SnapSecure, EventsSecure, EraseSecure
  <2> QED BY <2>2, <2>3, <2>4
<1>2. PointerInv /\ [Next]_vars => (SockIsFd /\ DropsOwn /\ BatchLocal /\ OpenOnce /\ Polling /\ Batch)'
  BY SockIsFdStep, DropsOwnStep, BatchLocalStep, OpenOnceStep, PollingStep, BatchStep
     DEF PointerInv, LifeInv, Ownership
<1>3. LifeInv /\ SockIsFd /\ DropsOwn /\ BatchLocal /\ OpenOnce /\ Polling /\ Batch <=> PointerInv
  BY DEF PointerInv
<1>4. (LifeInv /\ SockIsFd /\ DropsOwn /\ BatchLocal /\ OpenOnce /\ Polling /\ Batch)' <=> PointerInv'
  BY DEF PointerInv
<1> QED BY <1>1, <1>2, <1>3, <1>4, LifeInvariant, PTL DEF Spec

\* No context the monitor reads in its copies of the listener's vectors, in the
\* event list or in its cursor has been freed, whatever dropAll() does on other
\* threads between two steps of the monitor, as long as the object is not opened
\* again after close().
THEOREM PointersAreLive ==
  ASSUME ~ReopensClosed
  PROVE  Spec => []MonitorPointersLive
<1>1. PointerInv => MonitorPointersLive
  <2>1. SUFFICES ASSUME PointerInv PROVE MonitorPointersLive
    OBVIOUS
  <2>2. TypeOK /\ BatchLocal /\ SnapSecure /\ EventsSecure /\ EraseSecure
    BY <2>1 DEF PointerInv, LifeInv, TypeInv, Batch
  <2>3. \A c : Secure(c) => Alive(c)
    BY DEF Secure, Alive
  <2>4. ASSUME NEW i \in DOMAIN snap.contexts PROVE snap.contexts[i] = Server \/ Alive(snap.contexts[i])
    <3>1. i \in 1..Len(snap.contexts)
      BY <2>2, <2>4 DEF TypeOK
    <3>2. mpc = "poll"
      <4>1. CASE snap = NoSnap
        BY <3>1, <4>1 DEF NoSnap
      <4> QED BY <2>2, <4>1 DEF BatchLocal
    <3> QED BY <2>2, <2>3, <3>1, <3>2 DEF SnapSecure
  <2>5. ASSUME NEW i \in DOMAIN evs
        PROVE  /\ evs[i].type \notin {"NONE", "DISCONNECTED"} => evs[i].ctx = Server \/ Alive(evs[i].ctx)
               /\ evs[i].type = "DISCONNECTED" => Alive(evs[i].ctx)
    <3>1. i \in 1..Len(evs)
      BY <2>2, <2>5 DEF TypeOK
    <3> QED BY <2>2, <2>3, <3>1 DEF EventsSecure
  <2>6. mpc = "erase" => Alive(cur)
    BY <2>2, <2>3 DEF EraseSecure
  <2> QED BY <2>4, <2>5, <2>6, Zenon DEF MonitorPointersLive
<1> QED BY <1>1, PointerInvariant, PTL

------------------------------------------------------------------------------
(* The clients the monitor polls *)

\* The application never calls dropAll().
NeverDrops == \A t \in Threads : <<t, "dropAll">> \notin Calls

\* Then no thread is in its first loop, and nothing waits for destruction.
NoDrops == pending = {} /\ \A t \in Threads : pc[t] # "remove"

\* The listener has both the descriptor and the context of c.
Polled(c) ==
  /\ \E i \in 1..Len(listener.handle) : listener.handle[i].fd = fd[c]
  /\ \E i \in 1..Len(listener.contexts) : listener.contexts[i] = c

\* A client that is listed, or about to be, is polled until the monitor takes
\* it out to disconnect it.
ActivePolled ==
  \A c \in Clients :
    c \in active \/ (mpc = "push" /\ cur = c) => (mpc = "erase" /\ cur = c) \/ Polled(c)

\* dropAll() begins with a call of it.
LEMMA NoDropsStep ==
  ASSUME NeverDrops, TypeOK, NoDrops, [Next]_vars
  PROVE  NoDrops'
<1> USE DEF objVars, monVars, apiVars, cliVars, kernVars, histVars
<1>1. CASE MonitorQuiet \/ \E t \in Threads : ThreadQuiet(t)
  <2>1. pending' = pending /\ NoNewDrops
    BY <1>1, QuietMonitor, QuietThread
  <2> QED BY <2>1 DEF NoDrops, NoNewDrops
<1>2. CASE \/ MonitorClear \/ MonitorSnapshot \/ MonitorPoll \/ MonitorAccept
           \/ MonitorPush \/ MonitorRemove \/ MonitorErase
           \/ (\E c \in Clients : PeerConnect(c) \/ PeerHangup(c)) \/ UNCHANGED vars
  <2>1. pc' = pc /\ (pending' = pending \/ pending' = {})
    BY <1>2 DEF MonitorClear, MonitorSnapshot, MonitorPoll, MonitorAccept, MonitorPush, MonitorRemove,
       MonitorErase, PeerConnect, PeerHangup, vars
  <2> QED BY <2>1 DEF NoDrops
<1>3. ASSUME NEW t \in Threads, OpenStart(t) \/ CloseClear(t) PROVE NoDrops'
  <2>1. (pending' = pending \/ pending' = {}) /\ \E x \in {"idle", "shut"} : pc' = [pc EXCEPT ![t] = x]
    BY <1>3 DEF OpenStart, CloseClear
  <2> QED BY <2>1 DEF NoDrops, TypeOK
<1>4. ASSUME NEW t \in Threads, DropSwap(t) \/ DropRemove(t) \/ DropHandoff(t) PROVE FALSE
  BY <1>4 DEF DropSwap, DropRemove, DropHandoff, NeverDrops, NoDrops
<1> QED BY <1>1, <1>2, <1>3, <1>4, StepKinds

\* A step that leaves the listener alone and lists nobody.
LEMMA ActivePolledFrame ==
  ASSUME ActivePolled, UNCHANGED <<listener, fd>>, active' \subseteq active,
         mpc' = "push" => mpc = "push" /\ cur' = cur,
         mpc = "erase" => (mpc' = "erase" /\ cur' = cur) \/ cur \notin active'
  PROVE  ActivePolled'
  BY DEF ActivePolled, Polled

\* What is polled stays so when addEvent appends another client.
LEMMA PolledAppended ==
  ASSUME TypeOK, NEW c \in Clients, Polled(c), fd'[c] = fd[c], NEW h, NEW x,
         listener'.handle = Append(listener.handle, h), listener'.contexts = Append(listener.contexts, x)
  PROVE  Polled(c)'
<1>1. PICK hs, cs, r, q : hs = listener.handle /\ cs = listener.contexts /\ r = listener'.handle /\ q = listener'.contexts
  OBVIOUS
<1>2. /\ Len(r) = Len(hs) + 1 /\ \A i \in 1..Len(hs) : r[i] = hs[i]
      /\ Len(q) = Len(cs) + 1 /\ \A j \in 1..Len(cs) : q[j] = cs[j]
      /\ Len(hs) \in Nat /\ Len(cs) \in Nat
  BY <1>1, VectorTypes DEF HandleType
<1>3. /\ \A i \in 1..Len(hs) : i \in 1..Len(r)
      /\ \A j \in 1..Len(cs) : j \in 1..Len(q)
  BY <1>2
<1>4. (\E i \in 1..Len(r) : r[i].fd = fd[c]) /\ \E j \in 1..Len(q) : q[j] = c
  BY <1>1, <1>2, <1>3 DEF Polled
<1> QED BY <1>1, <1>4 DEF Polled

\* The accepted client is polled before it is listed.
LEMMA ActivePolledAccept ==
  ASSUME PointerInv, ActivePolled, MonitorAccept
  PROVE  ActivePolled'
<1> USE DEF objVars, monVars, apiVars, cliVars, kernVars, histVars
<1> TypeOK
  BY DEF PointerInv, LifeInv, TypeInv
<1>1. PICK c \in Queued, f \in FreeFds :
        fd' = [fd EXCEPT ![c] = f] /\ listener' = AddEvent(listener, c, f, "READ") /\ cur' = c
  BY DEF MonitorAccept, AcceptClient
<1>2. c \in Clients /\ fd[c] = None /\ active' = active /\ mpc = "dispatch" /\ mpc' = "push"
  BY DEF MonitorAccept, Dispatching, Queued
<1>3. PICK h : /\ h.fd = f /\ listener'.handle = Append(listener.handle, h)
               /\ listener'.contexts = Append(listener.contexts, c)
  BY <1>1 DEF AddEvent
<1>4. ASSUME NEW x \in Clients, x \in active, x # c PROVE Polled(x)'
  <2>1. Polled(x) /\ fd'[x] = fd[x]
    BY <1>1, <1>2, <1>4 DEF ActivePolled, TypeOK
  <2> QED BY <1>3, <2>1, PolledAppended
<1>5. Polled(c)'
  <2>1. PICK hs, cs, r, q : hs = listener.handle /\ cs = listener.contexts /\ r = listener'.handle /\ q = listener'.contexts
    OBVIOUS
  <2>2. /\ Len(hs) \in Nat /\ Len(cs) \in Nat /\ Len(r) = Len(hs) + 1 /\ Len(q) = Len(cs) + 1
        /\ r[Len(hs) + 1] = h /\ q[Len(cs) + 1] = c
    BY <1>3, <2>1, VectorTypes DEF HandleType
  <2>3. Len(hs) + 1 \in 1..Len(r) /\ Len(cs) + 1 \in 1..Len(q)
    BY <2>2
  <2>4. fd'[c] = f
    BY <1>1, <1>2 DEF TypeOK
  <2>5. (\E i \in 1..Len(r) : r[i].fd = fd'[c]) /\ \E j \in 1..Len(q) : q[j] = c
    BY <1>3, <2>2, <2>3, <2>4
  <2> QED BY <2>1, <2>5 DEF Polled
<1> QED BY <1>1, <1>2, <1>4, <1>5 DEF ActivePolled

\* removeEvent of the disconnected client leaves the pollfds of the others: the
\* client is still open, so that its descriptor is nobody else's.
LEMMA ActivePolledRemove ==
  ASSUME PointerInv, NoDrops, ActivePolled, MonitorRemove
  PROVE  ActivePolled'
<1> USE DEF objVars, monVars, apiVars, cliVars, kernVars, histVars
<1> TypeOK /\ LifeInv /\ SockIsFd /\ DropsOwn
  BY DEF PointerInv, LifeInv, TypeInv
<1>1. PICK c \in Clients : c = evs[1].ctx /\ listener' = RemoveEvent(listener, c, fd[c]) /\ cur' = c
  BY DEF MonitorRemove, TypeOK, Dispatching
<1>2. /\ UNCHANGED <<active, serverFd, fd>> /\ mpc = "dispatch" /\ mpc' = "erase"
      /\ 1 \in 1..Len(evs) /\ evs[1].type = "DISCONNECTED"
  BY DEF MonitorRemove, Dispatching, TypeOK
<1>3. c \in active
  <2>1. Secure(c)
    BY <1>1, <1>2, NullAssumption DEF PointerInv, Batch, EventsSecure
  <2> QED BY <2>1 DEF Secure, NoDrops
<1>4. /\ ErasedOnce(listener'.contexts, listener.contexts, c)
      /\ ErasedFd(listener'.handle, listener.handle, fd[c])
  <2>1. Listed(listener.handle, listener.contexts, FdOf)
    BY <1>2 DEF PointerInv, Polling
  <2> QED BY <1>1, <1>2, <2>1, ListenerRemoved
<1>5. ASSUME NEW x \in Clients, x \in active, x # c PROVE Polled(x)'
  <2>1. Polled(x)
    BY <1>2, <1>5 DEF ActivePolled
  <2>2. fd[x] # fd[c]
    <3>1. Registered(x) /\ Registered(c)
      BY <1>3, <1>5 DEF Registered
    <3>2. owner[fd[x]] = x /\ owner[fd[c]] = c
      BY <3>1, RegisteredOpen
    <3> QED BY <1>5, <3>2
  <2>3. PICK k \in 1..Len(listener.handle) : listener.handle[k].fd = fd[x]
    BY <2>1 DEF Polled
  <2>4. PICK m \in 1..Len(listener.contexts) : listener.contexts[m] = x
    BY <2>1 DEF Polled
  <2>5. \E i \in 1..Len(listener'.handle) : listener'.handle[i] = listener.handle[k]
    BY <1>4, <2>2, <2>3 DEF ErasedFd
  <2>6. \E i \in 1..Len(listener'.contexts) : listener'.contexts[i] = listener.contexts[m]
    BY <1>4, <1>5, <2>4 DEF ErasedOnce
  <2> QED BY <1>2, <2>3, <2>4, <2>5, <2>6 DEF Polled
<1> QED BY <1>1, <1>2, <1>5 DEF ActivePolled

\* Without dropAll() every step preserves ActivePolled.
LEMMA ActivePolledStep ==
  ASSUME NeverDrops, PointerInv, NoDrops, ActivePolled, [Next]_vars
  PROVE  ActivePolled'
<1> USE DEF objVars, monVars, apiVars, cliVars, kernVars, histVars
<1> TypeOK /\ LifeInv
  BY DEF PointerInv, LifeInv, TypeInv
<1>1. CASE MonitorQuiet
  <2>1. mpc # "erase"
    BY <1>1 DEF MonitorQuiet, MonitorCheck, MonitorPollFails, MonitorAcceptFails, MonitorAnnounce,
       MonitorFinish, MonitorSkip, MonitorEndBatch, Dispatching
  <2>2. UNCHANGED <<active, listener, fd>> /\ mpc' # "push"
    BY <1>1, QuietMonitor
  <2> QED BY <2>1, <2>2, ActivePolledFrame
<1>2. CASE MonitorClear \/ MonitorSnapshot \/ MonitorPoll
  <2>1. UNCHANGED <<active, listener, fd>> /\ mpc # "erase" /\ mpc' # "push"
    BY <1>2 DEF MonitorClear, MonitorSnapshot, MonitorPoll
  <2> QED BY <2>1, ActivePolledFrame
<1>3. CASE MonitorPush
  <2>1. UNCHANGED <<listener, fd>> /\ mpc = "push" /\ mpc' = "announce" /\ active' = active \cup {cur}
    BY <1>3 DEF MonitorPush
  <2> QED BY <2>1 DEF ActivePolled, Polled
<1>4. CASE MonitorErase
  <2>1. UNCHANGED <<listener, fd>> /\ mpc' = "finish" /\ active' = active \ {cur}
    BY <1>4 DEF MonitorErase
  <2> QED BY <2>1, ActivePolledFrame
<1>5. ASSUME NEW t \in Threads, ThreadQuiet(t) PROVE ActivePolled'
  <2>1. UNCHANGED <<active, listener, fd, cur>> /\ (mpc' = mpc \/ (mpc = "exited" /\ mpc' = "none"))
    BY <1>5, QuietThread
  <2> QED BY <2>1, ActivePolledFrame
<1>6. ASSUME NEW t \in Threads, OpenStart(t) PROVE ActivePolled'
  <2>1. UNCHANGED <<active, fd>> /\ mpc = "none" /\ mpc' \in {"none", "top"}
    BY <1>6 DEF OpenStart, PointerInv, OpenOnce
  <2>2. PICK h : listener'.handle = Append(listener.handle, h) /\ listener'.contexts = Append(listener.contexts, Server)
    BY <1>6 DEF OpenStart, AddEvent
  <2>3. \A c \in Clients : Polled(c) => Polled(c)'
    BY <2>1, <2>2, PolledAppended
  <2> QED BY <2>1, <2>3 DEF ActivePolled
<1>7. ASSUME NEW t \in Threads, CloseClear(t) PROVE ActivePolled'
  <2>1. active' = {} /\ mpc' = "none"
    BY <1>7 DEF CloseClear, LifeInv, JoinedFirst
  <2> QED BY <2>1 DEF ActivePolled
<1>8. ASSUME NEW t \in Threads, DropSwap(t) \/ DropRemove(t) \/ DropHandoff(t) PROVE FALSE
  BY <1>8 DEF DropSwap, DropRemove, DropHandoff, NeverDrops, NoDrops
<1>9. CASE (\E c \in Clients : PeerConnect(c) \/ PeerHangup(c)) \/ UNCHANGED vars
  <2>1. UNCHANGED <<active, listener, fd, mpc, cur>>
    BY <1>9 DEF PeerConnect, PeerHangup, vars
  <2> QED BY <2>1, ActivePolledFrame
<1> QED BY <1>1, <1>2, <1>3, <1>4, <1>5, <1>6, <1>7, <1>8, <1>9, StepKinds, ActivePolledAccept, ActivePolledRemove

\* When the application does not call dropAll() and opens the server once, every
\* client in _active_clients has its pollfd and its context in the listener until
\* the monitor takes them out to disconnect it: nobody's removeEvent erases the
\* pollfd of another client.
THEOREM ActiveArePolled ==
  ASSUME ~ReopensClosed, NeverDrops
  PROVE  Spec => []EveryActivePolled
<1>1. Init => NoDrops /\ ActivePolled
  BY DEF Init, NoDrops, ActivePolled
<1>2. PointerInv /\ NoDrops /\ ActivePolled /\ [Next]_vars => NoDrops' /\ ActivePolled'
  <2>1. PointerInv => TypeOK
    BY DEF PointerInv, LifeInv, TypeInv
  <2> QED BY <2>1, NoDropsStep, ActivePolledStep
<1>3. PointerInv /\ ActivePolled => EveryActivePolled
  <2>1. SUFFICES ASSUME PointerInv, ActivePolled PROVE EveryActivePolled
    OBVIOUS
  <2>2. TypeOK
    BY <2>1 DEF PointerInv, LifeInv, TypeInv
  <2>3. active \subseteq Clients
    BY <2>2 DEF TypeOK
  <2>4. DOMAIN listener.handle = 1..Len(listener.handle) /\ DOMAIN listener.contexts = 1..Len(listener.contexts)
    BY <2>2, VectorTypes DEF HandleType
  <2> QED BY <2>1, <2>3, <2>4 DEF EveryActivePolled, ActivePolled, Polled
<1> QED BY <1>1, <1>2, <1>3, PointerInvariant, PTL DEF Spec
==============================================================================
