-------------------- MODULE BroadcastNotifications_proofs ---------------------
(* What BroadcastServer tells the application, for every set of clients,   *)
(* descriptors, threads and calls: the two callbacks come in pairs, and a  *)
(* waiter does not sleep through a change of the client list.              *)
EXTENDS BroadcastServer_proofs

------------------------------------------------------------------------------
(* The callbacks *)

\* A client that was accepted has been announced, or will be by the next step
\* of the monitor that is not a step of the list.
Announced(c) == c \in connected \/ (mpc \in {"push", "announce"} /\ cur = c)

\* With a handler: a server without one announces nobody.
AcceptedAnnounced == \A c \in Clients : fd[c] # None => Announced(c) \/ ~handler

\* The handler of a server that is opened once is there before its clients.
OpenedEmpty ==
  opens = 0 \/ (\E t \in Threads : pc[t] = "opened") => \A c \in Clients : fd[c] = None

CallbackInv == PointerInv /\ OpenedEmpty /\ AcceptedAnnounced /\ DisconnectPaired

\* Steps that neither accept, announce or report a client nor set the handler.
MonitorMute ==
  \/ MonitorCheck \/ MonitorClear \/ MonitorSnapshot \/ MonitorPoll \/ MonitorPollFails
  \/ MonitorAcceptFails \/ MonitorPush \/ MonitorRemove \/ MonitorErase
  \/ MonitorSkip \/ MonitorEndBatch
ThreadMute(t) ==
  \/ CloseBegin(t) \/ CloseNotify(t) \/ CloseJoin(t) \/ CloseClear(t)
  \/ DropSwap(t) \/ DropRemove(t) \/ DropHandoff(t) \/ DropNotify(t) \/ DropReturn(t)
  \/ WaitSleep(t) \/ AwaitRecheck(t) \/ WaitExpire(t) \/ WaitWake(t)
  \/ \E o \in {"await", "awaitClose"} : WaitCall(t, o)
Mute ==
  \/ MonitorMute \/ (\E t \in Threads : OpenSocket(t) \/ ThreadMute(t))
  \/ (\E c \in Clients : PeerConnect(c) \/ PeerHangup(c)) \/ UNCHANGED vars

\* What they leave alone; a client about to be announced stays so.
LEMMA MuteSteps ==
  ASSUME TypeInv, Mute
  PROVE  /\ UNCHANGED <<fd, connected, disconnected, handler>>
         /\ mpc \in {"push", "announce"} => mpc' \in {"push", "announce"} /\ cur' = cur
         /\ mpc \in {"none", "announce"} => mpc' = mpc
<1> USE DEF objVars, monVars, apiVars, cliVars, kernVars, histVars
<1>1. CASE MonitorMute
  BY <1>1 DEF MonitorMute, MonitorCheck, MonitorClear, MonitorSnapshot, MonitorPoll, MonitorPollFails,
     MonitorAcceptFails, MonitorPush, MonitorRemove, MonitorErase, MonitorSkip,
     MonitorEndBatch, Dispatching
<1>2. ASSUME NEW t \in Threads, OpenSocket(t) \/ ThreadMute(t)
      PROVE  UNCHANGED <<fd, connected, disconnected, handler, cur>> /\ (mpc' = mpc \/ mpc = "exited")
  BY <1>2 DEF ThreadMute, OpenSocket, CreatePassive, CloseBegin, CloseNotify, CloseJoin, CloseClear,
     DropSwap, DropRemove, DropHandoff, DropNotify, DropReturn, WaitSleep, AwaitRecheck, WaitExpire,
     WaitCall, WaitWake, WaitEvaluate
<1>3. CASE (\E c \in Clients : PeerConnect(c) \/ PeerHangup(c)) \/ UNCHANGED vars
  BY <1>3 DEF PeerConnect, PeerHangup, vars
<1> QED BY <1>1, <1>2, <1>3 DEF Mute

\* The steps, sorted by what they do to the callbacks.
LEMMA MuteOrNot ==
  ASSUME [Next]_vars
  PROVE  \/ Mute \/ MonitorAccept \/ MonitorAnnounce \/ MonitorFinish
         \/ \E t \in Threads : OpenStart(t) \/ CloseShut(t) \/ DropClose(t)
  BY DEF Next, MonitorStep, ApiStep, ApiCall, Mute, MonitorMute, ThreadMute

\* Every step preserves OpenedEmpty.
LEMMA OpenedEmptyStep ==
  ASSUME ~ReopensClosed, PointerInv, OpenedEmpty, [Next]_vars
  PROVE  OpenedEmpty'
<1> USE DEF objVars, monVars, apiVars, cliVars, kernVars, histVars
<1> TypeOK /\ TypeInv /\ OpenOnce
  BY DEF PointerInv, LifeInv, TypeInv
<1> DEFINE Opened == \E t \in Threads : pc[t] = "opened"
<1>f. ASSUME UNCHANGED <<fd, opens>>, Opened' => Opened PROVE OpenedEmpty'
  BY <1>f DEF OpenedEmpty
<1>1. CASE MonitorAccept
  <2>1. mpc = "dispatch" /\ UNCHANGED <<pc, opens>>
    BY <1>1 DEF MonitorAccept, Dispatching
  <2>2. opens # 0 /\ ~Opened
    BY <2>1 DEF OpenOnce
  <2> QED BY <2>1, <2>2 DEF OpenedEmpty
<1>2. ASSUME NEW t \in Threads, OpenSocket(t) PROVE OpenedEmpty'
  <2>1. fd' = fd /\ opens' = opens + 1 /\ (opens > 0 => isMonitoring)
    BY <1>2 DEF OpenSocket
  <2>2. opens' # 0 /\ (opens = 0 \/ isMonitoring)
    BY <2>1 DEF TypeOK
  <2>3. CASE opens = 0
    BY <2>1, <2>3 DEF OpenedEmpty
  <2>4. CASE isMonitoring
    <3>1. mpc # "none" /\ serverFd \in listening
      BY <2>4 DEF OpenOnce
    <3>2. pc' = pc
      BY <1>2, <3>1 DEF OpenSocket, BindSucceeds
    <3> QED BY <2>1, <2>2, <3>2 DEF OpenedEmpty
  <2> QED BY <2>2, <2>3, <2>4
<1>3. CASE MonitorAnnounce \/ MonitorFinish
  BY <1>3, <1>f DEF MonitorAnnounce, MonitorFinish, Woken
<1>4. CASE MonitorMute \/ (\E c \in Clients : PeerConnect(c) \/ PeerHangup(c)) \/ UNCHANGED vars
  <2>1. UNCHANGED <<fd, opens, pc>>
    BY <1>4 DEF MonitorMute, MonitorCheck, MonitorClear, MonitorSnapshot, MonitorPoll, MonitorPollFails,
       MonitorAcceptFails, MonitorPush, MonitorRemove, MonitorErase, MonitorSkip,
       MonitorEndBatch, PeerConnect, PeerHangup, vars
  <2> QED BY <2>1, <1>f
<1>5. ASSUME NEW t \in Threads, OpenStart(t) \/ CloseShut(t) \/ DropClose(t) \/ ThreadMute(t)
      PROVE  OpenedEmpty'
  <2>1. UNCHANGED <<fd, opens>>
    BY <1>5 DEF ThreadMute, OpenStart, CloseShut, DropClose, CloseBegin, CloseNotify, CloseJoin,
       CloseClear, DropSwap, DropRemove, DropHandoff, DropNotify, DropReturn, WaitSleep, AwaitRecheck,
       WaitExpire, WaitCall, WaitWake, WaitEvaluate
  <2>2. \A u \in Threads : pc'[u] = "opened" => pc[u] = "opened"
    <3>1. CASE CloseNotify(t) \/ DropNotify(t)
      BY <3>1 DEF CloseNotify, DropNotify, Woken
    <3>2. CASE WaitWake(t) \/ \E o \in {"await", "awaitClose"} : WaitCall(t, o)
      <4>1. PICK o : WaitEvaluate(t, o)
        BY <3>2, WaitStarts
      <4> QED BY <4>1, WaitOutcomes DEF TypeOK
    <3>3. CASE OpenStart(t) \/ CloseShut(t) \/ DropClose(t) \/ CloseBegin(t) \/ CloseJoin(t) \/ CloseClear(t)
      BY <3>3 DEF OpenStart, CloseShut, DropClose, CloseBegin, CloseJoin, CloseClear, TypeOK
    <3>4. CASE DropSwap(t) \/ DropRemove(t) \/ DropHandoff(t) \/ DropReturn(t)
               \/ WaitSleep(t) \/ AwaitRecheck(t) \/ WaitExpire(t)
      BY <3>4 DEF DropSwap, DropRemove, DropHandoff, DropReturn, WaitSleep, AwaitRecheck, WaitExpire, TypeOK
    <3> QED BY <1>5, <3>1, <3>2, <3>3, <3>4 DEF ThreadMute
  <2> QED BY <2>1, <2>2, <1>f
<1> QED BY <1>1, <1>2, <1>3, <1>4, <1>5, MuteOrNot DEF Mute

\* An accepted client is announced afterwards, unless it was not before either or
\* there is no handler.
LEMMA AcceptedSteps ==
  ASSUME TypeInv, MonitorAccept \/ MonitorAnnounce, NEW c \in Clients, fd'[c] # None
  PROVE  Announced(c)' \/ (fd[c] # None /\ (Announced(c) => ~handler))
<1> USE DEF objVars, monVars, apiVars, cliVars, kernVars, histVars
<1> TypeOK
  BY DEF TypeInv
<1>1. CASE MonitorAccept
  <2>1. PICK d \in Clients, f \in Fds : fd' = [fd EXCEPT ![d] = f] /\ cur' = d
    BY <1>1 DEF MonitorAccept, Queued, FreeFds
  <2>2. connected' = connected /\ mpc = "dispatch" /\ mpc' = "push"
    BY <1>1 DEF MonitorAccept, Dispatching
  <2> QED BY <2>1, <2>2 DEF Announced, TypeOK
<1>2. CASE MonitorAnnounce
  <2>1. fd' = fd /\ mpc = "announce" /\ connected' = IF handler THEN connected \cup {cur} ELSE connected
    BY <1>2 DEF MonitorAnnounce, OnConnected
  <2> QED BY <2>1 DEF Announced
<1> QED BY <1>1, <1>2

\* Every step preserves AcceptedAnnounced.
LEMMA AcceptedStep ==
  ASSUME PointerInv, OpenedEmpty, AcceptedAnnounced, [Next]_vars
  PROVE  AcceptedAnnounced'
<1> USE DEF objVars, monVars, apiVars, cliVars, kernVars, histVars
<1> TypeOK /\ TypeInv
  BY DEF PointerInv, LifeInv, TypeInv
<1>1. CASE MonitorAccept \/ MonitorAnnounce
  <2>1. handler' = handler
    BY <1>1 DEF MonitorAccept, MonitorAnnounce
  <2> QED BY <1>1, <2>1, AcceptedSteps DEF AcceptedAnnounced
<1>2. CASE Mute
  BY <1>2, MuteSteps DEF AcceptedAnnounced, Announced
<1>3. CASE MonitorFinish
  <2>1. UNCHANGED <<fd, connected, handler>> /\ mpc = "finish"
    BY <1>3 DEF MonitorFinish
  <2> QED BY <2>1 DEF AcceptedAnnounced, Announced
<1>4. ASSUME NEW t \in Threads, OpenStart(t) PROVE AcceptedAnnounced'
  <2>1. pc[t] = "opened" /\ fd' = fd
    BY <1>4 DEF OpenStart
  <2> QED BY <2>1 DEF OpenedEmpty, AcceptedAnnounced
<1>5. ASSUME NEW t \in Threads, CloseShut(t) PROVE AcceptedAnnounced'
  BY <1>5 DEF CloseShut, AcceptedAnnounced
<1>6. ASSUME NEW t \in Threads, DropClose(t) PROVE AcceptedAnnounced'
  <2>1. UNCHANGED <<fd, connected, handler, mpc, cur>>
    BY <1>6 DEF DropClose
  <2> QED BY <2>1 DEF AcceptedAnnounced, Announced
<1> QED BY <1>1, <1>2, <1>3, <1>4, <1>5, <1>6, MuteOrNot

\* Every step preserves DisconnectPaired.
LEMMA PairedStep ==
  ASSUME PointerInv, AcceptedAnnounced, DisconnectPaired, [Next]_vars
  PROVE  DisconnectPaired'
<1> USE DEF objVars, monVars, apiVars, cliVars, kernVars, histVars
<1> TypeOK /\ TypeInv /\ OpenOnce /\ JoinedFirst /\ Ownership
  BY DEF PointerInv, LifeInv, TypeInv
<1>1. CASE MonitorAccept \/ MonitorAnnounce
  <2>1. /\ disconnected' = disconnected /\ connected \subseteq connected'
        /\ mpc = "announce" /\ handler => cur \in connected'
    BY <1>1 DEF MonitorAccept, MonitorAnnounce, OnConnected, Dispatching
  <2> QED BY <2>1 DEF DisconnectPaired
<1>2. CASE Mute
  BY <1>2, MuteSteps DEF DisconnectPaired
<1>3. ASSUME NEW t \in Threads, OpenStart(t) \/ CloseShut(t) PROVE DisconnectPaired'
  <2>1. pc[t] \in {"opened", "shut"} /\ UNCHANGED <<disconnected, connected>>
    BY <1>3 DEF OpenStart, CloseShut
  <2>2. mpc = "none"
    BY <2>1 DEF OpenOnce, JoinedFirst
  <2> QED BY <2>1, <2>2 DEF DisconnectPaired
<1>r. ASSUME NEW d \in Clients, sock[d] # None, ~(mpc = "push" /\ cur = d), OnDisconnected(d),
             UNCHANGED <<connected, handler>>, mpc = "announce" => mpc' = "announce" /\ cur' = cur
      PROVE  DisconnectPaired'
  <2>1. fd[d] # None
    BY <1>r DEF Ownership, Descriptors
  <2>2. handler => d \in connected \/ (mpc = "announce" /\ cur = d)
    BY <1>r, <2>1 DEF AcceptedAnnounced, Announced
  <2>3. \A c \in Clients : disconnected'[c] > 0 => disconnected[c] > 0 \/ (c = d /\ handler)
    BY <1>r DEF OnDisconnected, TypeOK
  <2> QED BY <1>r, <2>2, <2>3 DEF DisconnectPaired
<1>4. CASE MonitorFinish
  <2>1. UNCHANGED <<connected, handler>> /\ mpc = "finish"
    BY <1>4 DEF MonitorFinish
  <2>2. CASE owned
    <3>1. PICK d \in Clients : d = cur
      BY <2>1 DEF TypeInv, HasCursor
    <3>2. sock[d] # None
      BY <2>2, <3>1 DEF Ownership, Closers, HasCloser
    <3>3. OnDisconnected(d)
      BY <1>4, <2>2, <3>1 DEF MonitorFinish
    <3> QED BY <2>1, <3>2, <3>3, <1>r
  <2>3. CASE ~owned
    <3>1. disconnected' = disconnected
      BY <1>4, <2>3 DEF MonitorFinish
    <3> QED BY <2>1, <3>1 DEF DisconnectPaired
  <2> QED BY <2>2, <2>3
<1>5. ASSUME NEW t \in Threads, DropClose(t) PROVE DisconnectPaired'
  <2>1. UNCHANGED <<connected, handler, mpc, cur>> /\ pc[t] = "dropclose"
    BY <1>5 DEF DropClose
  <2>2. PICK d \in todo[t] : OnDisconnected(d)
    BY <1>5 DEF DropClose
  <2>3. d \in Clients /\ d \in Holding(t)
    BY <2>1, <2>2 DEF Holding, TypeOK
  <2>4. sock[d] # None /\ ~(mpc = "push" /\ cur = d)
    BY <2>3 DEF Ownership, Closers, HasCloser, OneCloser, MonitorLocal
  <2> QED BY <2>1, <2>2, <2>3, <2>4, <1>r
<1> QED BY <1>1, <1>2, <1>3, <1>4, <1>5, MuteOrNot

\* The invariant behind the pairing of the callbacks of a server that is opened
\* once, with a handler or with nullptr: under a handler every accepted client is
\* announced or about to be, whoever then disconnects it.
THEOREM CallbackInvariant ==
  ASSUME ~ReopensClosed
  PROVE  Spec => []CallbackInv
<1>1. Init => OpenedEmpty /\ AcceptedAnnounced /\ DisconnectPaired
  BY DEF Init, OpenedEmpty, AcceptedAnnounced, DisconnectPaired
<1>2. PointerInv /\ OpenedEmpty /\ AcceptedAnnounced /\ DisconnectPaired /\ [Next]_vars
        => (OpenedEmpty /\ AcceptedAnnounced /\ DisconnectPaired)'
  BY OpenedEmptyStep, AcceptedStep, PairedStep
<1> QED BY <1>1, <1>2, PointerInvariant, PTL DEF Spec, CallbackInv

\* Whatever threads disconnect a client, one reported as gone was reported as
\* connected, or the monitor's next step reports it to the same handler.
THEOREM CallbacksPaired ==
  ASSUME ~ReopensClosed
  PROVE  Spec => []DisconnectPaired
<1>1. CallbackInv => DisconnectPaired
  BY DEF CallbackInv
<1> QED BY <1>1, CallbackInvariant, PTL

\* A server whose open() is always given a handler: the monitor has one as long as
\* it runs, and every accepted client is announced, however often it is reopened.
AlwaysHandled == mpc # "none" => handler
AllAnnounced == \A c \in Clients : fd[c] # None => Announced(c)

\* Every step preserves both.
LEMMA HandledStep ==
  ASSUME FALSE \notin Handlers, LifeInv, AlwaysHandled, AllAnnounced, [Next]_vars
  PROVE  (AlwaysHandled /\ AllAnnounced)'
<1> USE DEF objVars, monVars, apiVars, cliVars, kernVars, histVars
<1> TypeOK /\ TypeInv /\ JoinedFirst /\ MonitorLocal
  BY DEF LifeInv, TypeInv, Ownership
<1>1. CASE MonitorAccept \/ MonitorAnnounce
  <2>1. handler' = handler /\ mpc # "none"
    BY <1>1 DEF MonitorAccept, MonitorAnnounce, Dispatching
  <2> QED BY <1>1, <2>1, AcceptedSteps DEF AlwaysHandled, AllAnnounced
<1>2. CASE Mute
  BY <1>2, MuteSteps DEF AlwaysHandled, AllAnnounced, Announced
<1>3. CASE MonitorFinish
  <2>1. UNCHANGED <<fd, connected, handler>> /\ mpc = "finish"
    BY <1>3 DEF MonitorFinish
  <2> QED BY <2>1 DEF AlwaysHandled, AllAnnounced, Announced
<1>4. ASSUME NEW t \in Threads, OpenStart(t) PROVE (AlwaysHandled /\ AllAnnounced)'
  <2>1. handler' = TRUE
    BY <1>4, SwitchAssumption DEF OpenStart
  <2>2. isMonitoring \/ mpc = "none"
    <3>1. IsOwner(t) /\ pc[t] = "opened"
      BY <1>4 DEF OpenStart, TypeInv, OwnerOnly, OwnerStates
    <3>2. \A u \in Threads : pc[u] \notin {"notify", "join"}
      BY <3>1, OneOwner DEF OwnerStates
    <3> QED BY <3>2 DEF MonitorLocal
  <2>3. UNCHANGED <<fd, connected, cur>> /\ (mpc' = mpc \/ mpc = "none")
    BY <1>4, <2>2 DEF OpenStart
  <2> QED BY <2>1, <2>3 DEF AlwaysHandled, AllAnnounced, Announced
<1>5. ASSUME NEW t \in Threads, CloseShut(t) PROVE (AlwaysHandled /\ AllAnnounced)'
  <2>1. pc[t] = "shut" /\ UNCHANGED <<fd, connected, mpc, cur>>
    BY <1>5 DEF CloseShut
  <2> QED BY <2>1 DEF JoinedFirst, AlwaysHandled, AllAnnounced, Announced
<1>6. ASSUME NEW t \in Threads, DropClose(t) PROVE (AlwaysHandled /\ AllAnnounced)'
  <2>1. UNCHANGED <<fd, connected, handler, mpc, cur>>
    BY <1>6 DEF DropClose
  <2> QED BY <2>1 DEF AlwaysHandled, AllAnnounced, Announced
<1> QED BY <1>1, <1>2, <1>3, <1>4, <1>5, <1>6, MuteOrNot

\* The callbacks are paired even when the server is closed and opened again,
\* provided every open() is given a handler: a dropAll() that is still running
\* reports its clients to the handler of the new open(), which may not have heard
\* of those a server without handler accepted.
THEOREM CallbacksPairedReopened ==
  ASSUME FALSE \notin Handlers
  PROVE  Spec => []DisconnectPaired
<1>1. Init => AlwaysHandled /\ AllAnnounced
  BY DEF Init, AlwaysHandled, AllAnnounced
<1>2. LifeInv /\ AlwaysHandled /\ AllAnnounced /\ [Next]_vars => (AlwaysHandled /\ AllAnnounced)'
  BY HandledStep
<1>3. LifeInv /\ AlwaysHandled /\ AllAnnounced => DisconnectPaired
  <2> SUFFICES ASSUME LifeInv, AlwaysHandled, AllAnnounced, NEW c \in Clients, disconnected[c] > 0
               PROVE  c \in connected \/ (mpc = "announce" /\ cur = c /\ handler)
    BY DEF DisconnectPaired
  <2>1. sock[c] = None /\ fd[c] # None
    BY DEF LifeInv, Ownership, Reports
  <2>2. ~(mpc = "push" /\ cur = c)
    BY <2>1 DEF LifeInv, Ownership, MonitorLocal, Closers, HasCloser
  <2> QED BY <2>1, <2>2 DEF AllAnnounced, Announced, AlwaysHandled
<1> QED BY <1>1, <1>2, <1>3, LifeInvariant, PTL DEF Spec

------------------------------------------------------------------------------
(* The waiters *)

\* Whoever holds _clients_mtx between two steps is a dropAll() in its first loop
\* or a waiter that has evaluated its predicate and is not asleep yet.
MutexHeld == \A t \in Threads : mtx = t <=> pc[t] \in {"remove", "blocking"}

\* Nobody waits on a server that was never opened: await() returns at once.
Waiting(t) == pc[t] \in {"blocking", "asleep"}
FirstOpen ==
  /\ opens = 0 => /\ ~isMonitoring
                  /\ \A t \in Threads : ~Waiting(t) /\ pc[t] # "opened"
  /\ ~isMonitoring /\ (\E t \in Threads : pc[t] = "opened") => \A t \in Threads : ~Waiting(t)

\* Somebody has changed the list and has yet to call notify_all().
Notifying ==
  \/ mpc \in {"announce", "finish"}
  \/ \E u \in Threads : pc[u] \in {"remove", "dropnotify"}

\* A waiter that holds the mutex has just seen its predicate false; one that
\* sleeps may have it true only while a notification is due.
WaitersInformed ==
  \A t \in Threads :
    /\ pc[t] = "blocking" /\ isMonitoring => ~Reached(op[t])
    /\ pc[t] = "asleep" /\ isMonitoring /\ Reached(op[t]) => Notifying

WaiterInv == TypeInv /\ Ownership /\ MutexHeld /\ ClosingStopped /\ FirstOpen /\ WaitersInformed

\* Every step preserves MutexHeld.
LEMMA MutexStep ==
  ASSUME TypeInv, MutexHeld, [Next]_vars
  PROVE  MutexHeld'
<1> USE NullAssumption DEF objVars, monVars, apiVars, cliVars, kernVars, histVars
<1> TypeOK
  BY DEF TypeInv
<1> DEFINE Outside == ThreadStates \ {"remove", "blocking"}
<1>1. CASE MonitorStep \/ MonitorPollFails \/ (\E c \in Clients : PeerConnect(c) \/ PeerHangup(c))
           \/ UNCHANGED vars
  BY <1>1, OutsideSteps DEF MutexHeld
<1>2. ASSUME NEW t \in Threads, WaitWake(t) \/ \E o \in {"await", "awaitClose"} : WaitCall(t, o)
      PROVE  MutexHeld'
  <2>1. PICK o : WaitEvaluate(t, o)
    BY <1>2, WaitStarts
  <2>2. pc[t] \in {"idle", "notified", "expired"}
    BY <1>2, WaitStarts
  <2> QED BY <2>1, <2>2, WaitOutcomes DEF MutexHeld, TypeOK
<1>3. ASSUME NEW t \in Threads, DropSwap(t) PROVE MutexHeld'
  BY <1>3 DEF DropSwap, MutexHeld, TypeOK
<1>4. ASSUME NEW t \in Threads, DropHandoff(t) \/ WaitSleep(t) PROVE MutexHeld'
  <2>1. mtx = t /\ mtx' = None
    BY <1>4 DEF DropHandoff, WaitSleep, MutexHeld
  <2>2. \E x \in {"dropnotify", "asleep"} : pc' = [pc EXCEPT ![t] = x]
    BY <1>4 DEF DropHandoff, WaitSleep
  <2>3. \A u \in Threads : mtx' # u /\ pc'[u] \notin {"remove", "blocking"}
    BY <2>1, <2>2 DEF MutexHeld, TypeOK
  <2> QED BY <2>3 DEF MutexHeld
<1>5. ASSUME NEW t \in Threads,
             \/ OpenSocket(t) \/ OpenStart(t) \/ CloseBegin(t) \/ CloseNotify(t) \/ CloseJoin(t)
             \/ CloseClear(t) \/ CloseShut(t) \/ DropRemove(t) \/ DropNotify(t) \/ DropClose(t)
             \/ DropReturn(t) \/ AwaitRecheck(t) \/ WaitExpire(t)
      PROVE  MutexHeld'
  <2>1. mtx' = mtx
    BY <1>5 DEF OpenSocket, CreatePassive, OpenStart, CloseBegin, CloseNotify, CloseJoin,
       CloseClear, CloseShut, DropRemove, DropNotify, DropClose, DropReturn, AwaitRecheck,
       WaitExpire
  <2>2. \A u \in Threads : pc'[u] = pc[u] \/ (pc[u] \in Outside /\ pc'[u] \in Outside)
    <3>1. CASE CloseNotify(t) \/ DropNotify(t)
      <4>1. /\ pc[t] \in {"notify", "dropnotify"}
            /\ \E x \in {"join", "dropclose"} : pc' = [Woken EXCEPT ![t] = x]
        BY <3>1 DEF CloseNotify, DropNotify
      <4>2. pc'[t] \in {"join", "dropclose"}
        BY <4>1 DEF Woken
      <4>3. \A u \in Threads : u # t => pc'[u] = pc[u] \/ (pc[u] = "asleep" /\ pc'[u] = "notified")
        BY <4>1 DEF Woken
      <4> QED BY <4>1, <4>2, <4>3 DEF ThreadStates
    <3>2. CASE OpenSocket(t) \/ OpenStart(t) \/ CloseBegin(t) \/ CloseJoin(t)
      BY <3>2 DEF OpenSocket, CreatePassive, OpenStart, CloseBegin, CloseJoin, TypeOK, ThreadStates
    <3>3. CASE CloseClear(t) \/ CloseShut(t) \/ DropRemove(t) \/ DropClose(t) \/ DropReturn(t)
               \/ AwaitRecheck(t) \/ WaitExpire(t)
      BY <3>3 DEF CloseClear, CloseShut, DropRemove, DropClose, DropReturn, AwaitRecheck,
         WaitExpire, TypeOK, ThreadStates
    <3> QED BY <1>5, <3>1, <3>2, <3>3
  <2> QED BY <2>1, <2>2 DEF MutexHeld
<1> QED BY <1>1, <1>2, <1>3, <1>4, <1>5 DEF Next, ApiStep, ApiCall

\* A step of another thread's operation in which nobody begins to wait.
LEMMA NobodyStartsToWait ==
  ASSUME TypeInv, NEW t \in Threads,
         \/ OpenSocket(t) \/ OpenStart(t) \/ CloseBegin(t) \/ CloseNotify(t) \/ CloseJoin(t)
         \/ CloseClear(t) \/ CloseShut(t) \/ DropSwap(t) \/ DropRemove(t) \/ DropHandoff(t)
         \/ DropNotify(t) \/ DropClose(t) \/ DropReturn(t) \/ AwaitRecheck(t) \/ WaitExpire(t)
  PROVE  /\ op' = op
         /\ \A u \in Threads : pc'[u] \in {"blocking", "asleep"} => pc'[u] = pc[u]
<1> USE DEF histVars
<1> TypeOK
  BY DEF TypeInv
<1>1. op' = op
  BY DEF OpenSocket, CreatePassive, OpenStart, CloseBegin, CloseNotify, CloseJoin,
     CloseClear, CloseShut, DropSwap, DropRemove, DropHandoff, DropNotify, DropClose,
     DropReturn, AwaitRecheck, WaitExpire
<1>2. CASE CloseNotify(t) \/ DropNotify(t)
  BY <1>1, <1>2 DEF CloseNotify, DropNotify, Woken
<1>3. CASE OpenSocket(t) \/ OpenStart(t) \/ CloseBegin(t) \/ CloseJoin(t) \/ CloseClear(t)
           \/ CloseShut(t)
  BY <1>1, <1>3 DEF OpenSocket, CreatePassive, OpenStart, CloseBegin, CloseJoin, CloseClear,
     CloseShut, TypeOK
<1>4. CASE DropSwap(t) \/ DropRemove(t) \/ DropHandoff(t) \/ DropClose(t) \/ DropReturn(t)
           \/ AwaitRecheck(t) \/ WaitExpire(t)
  BY <1>1, <1>4 DEF DropSwap, DropRemove, DropHandoff, DropClose, DropReturn, AwaitRecheck,
     WaitExpire, TypeOK
<1> QED BY <1>2, <1>3, <1>4

\* The owner opens the server for the first time, or while it runs: every step
\* preserves FirstOpen.
LEMMA FirstOpenStep ==
  ASSUME ~ReopensClosed, TypeInv, FirstOpen, [Next]_vars
  PROVE  FirstOpen'
<1> USE BoundsAssumption DEF objVars, monVars, apiVars, cliVars, kernVars, histVars
<1> TypeOK
  BY DEF TypeInv
<1>1. CASE MonitorStep \/ MonitorPollFails \/ (\E c \in Clients : PeerConnect(c) \/ PeerHangup(c))
           \/ UNCHANGED vars
  BY <1>1, OutsideSteps DEF FirstOpen, Waiting
<1>2. ASSUME NEW t \in Threads, WaitWake(t) \/ \E o \in {"await", "awaitClose"} : WaitCall(t, o)
      PROVE  FirstOpen'
  <2>1. PICK o : WaitEvaluate(t, o)
    BY <1>2, WaitStarts
  <2>2. UNCHANGED <<isMonitoring, opens>>
    BY <2>1 DEF WaitEvaluate
  <2>3. \A u \in Threads : /\ Waiting(u)' => Waiting(u) \/ isMonitoring
                           /\ pc'[u] = "opened" => pc[u] = "opened"
    BY <2>1, WaitOutcomes DEF Waiting, TypeOK
  <2> QED BY <2>2, <2>3 DEF FirstOpen
<1>3. ASSUME NEW t \in Threads, WaitSleep(t) PROVE FirstOpen'
  BY <1>3 DEF WaitSleep, FirstOpen, Waiting, TypeOK
<1>4. ASSUME NEW t \in Threads, OpenSocket(t) PROVE FirstOpen'
  <2>1. /\ opens' = opens + 1 /\ isMonitoring' = isMonitoring
        /\ opens = 0 \/ isMonitoring
    BY <1>4 DEF OpenSocket, TypeOK
  <2>2. \A u \in Threads : Waiting(u)' => Waiting(u)
    BY <1>4, NobodyStartsToWait DEF Waiting
  <2> QED BY <2>1, <2>2 DEF FirstOpen, TypeOK
<1>5. ASSUME NEW t \in Threads, OpenStart(t) PROVE FirstOpen'
  <2>1. pc[t] = "opened" /\ isMonitoring' = TRUE /\ opens' = opens
    BY <1>5 DEF OpenStart
  <2> QED BY <2>1 DEF FirstOpen
<1>6. ASSUME NEW t \in Threads, CloseBegin(t) PROVE FirstOpen'
  <2>1. IsOwner(t) /\ pc[t] = "idle" /\ isMonitoring' = FALSE /\ opens' = opens
    BY <1>6, Zenon DEF CloseBegin, IsOwner
  <2>2. \A u \in Threads : pc[u] # "opened"
    BY <2>1, OneOwner DEF OwnerStates
  <2>3. \A u \in Threads : pc'[u] # "opened" /\ (Waiting(u)' => Waiting(u))
    BY <1>6, <2>2 DEF CloseBegin, Waiting, TypeOK
  <2> QED BY <2>1, <2>3 DEF FirstOpen
<1>7. ASSUME NEW t \in Threads,
             \/ CloseNotify(t) \/ CloseJoin(t) \/ CloseClear(t) \/ CloseShut(t)
             \/ DropSwap(t) \/ DropRemove(t) \/ DropHandoff(t) \/ DropNotify(t) \/ DropClose(t)
             \/ DropReturn(t) \/ AwaitRecheck(t) \/ WaitExpire(t)
      PROVE  FirstOpen'
  <2>1. UNCHANGED <<isMonitoring, opens>>
    BY <1>7 DEF CloseNotify, CloseJoin, CloseClear, CloseShut, DropSwap, DropRemove, DropHandoff,
       DropNotify, DropClose, DropReturn, AwaitRecheck, WaitExpire
  <2>2. \A u \in Threads : Waiting(u)' => Waiting(u)
    BY <1>7, NobodyStartsToWait DEF Waiting
  <2>3. \A u \in Threads : pc'[u] = "opened" => pc[u] = "opened"
    BY <1>7 DEF CloseNotify, CloseJoin, CloseClear, CloseShut, DropSwap, DropRemove, DropHandoff,
       DropNotify, DropClose, DropReturn, AwaitRecheck, WaitExpire, Woken, TypeOK
  <2> QED BY <2>1, <2>2, <2>3 DEF FirstOpen
<1> QED BY <1>1, <1>2, <1>3, <1>4, <1>5, <1>6, <1>7 DEF Next, ApiStep, ApiCall

\* A step that neither changes the list nor the flag, nor ends a notification,
\* nor lets anybody begin to wait.
LEMMA InformedFrame ==
  ASSUME WaitersInformed, UNCHANGED <<active, isMonitoring, op>>,
         \A t \in Threads : pc'[t] \in {"blocking", "asleep"} => pc'[t] = pc[t],
         Notifying => Notifying'
  PROVE  WaitersInformed'
  BY DEF WaitersInformed, Reached

\* Every step preserves WaitersInformed.
LEMMA InformedStep ==
  ASSUME WaiterInv, [Next]_vars
  PROVE  WaitersInformed'
<1> USE DEF objVars, monVars, apiVars, cliVars, kernVars, histVars
<1> TypeOK /\ TypeInv /\ MutexHeld /\ WaitersInformed
  BY DEF WaiterInv, TypeInv
<1>m. mtx = None => \A t \in Threads : pc[t] # "blocking"
  BY NullAssumption DEF MutexHeld
<1>c. ASSUME mtx = None, isMonitoring' = isMonitoring, Notifying',
             \A t \in Threads : pc'[t] = "blocking" => pc[t] = "blocking"
      PROVE  WaitersInformed'
  BY <1>c, <1>m DEF WaitersInformed
<1>w. ASSUME UNCHANGED <<active, isMonitoring, op>>,
             \A t \in Threads : pc'[t] # "asleep" /\ (pc'[t] = "blocking" => pc[t] = "blocking")
      PROVE  WaitersInformed'
  BY <1>w DEF WaitersInformed, Reached
<1>1. CASE MonitorPush \/ MonitorErase
  BY <1>1, <1>c DEF MonitorPush, MonitorErase, Notifying
<1>2. CASE MonitorAnnounce \/ MonitorFinish
  <2>1. UNCHANGED <<active, isMonitoring, op>> /\ pc' = Woken
    BY <1>2 DEF MonitorAnnounce, MonitorFinish
  <2> QED BY <2>1, <1>w DEF Woken
<1>3. CASE MonitorCheck \/ MonitorClear \/ MonitorSnapshot \/ MonitorPoll \/ MonitorPollFails
           \/ MonitorAccept \/ MonitorAcceptFails \/ MonitorRemove
           \/ MonitorSkip \/ MonitorEndBatch
  <2>1. UNCHANGED <<active, isMonitoring, op, pc>> /\ mpc \notin {"announce", "finish"}
    BY <1>3 DEF MonitorCheck, MonitorClear, MonitorSnapshot, MonitorPoll, MonitorPollFails,
       MonitorAccept, MonitorAcceptFails, MonitorRemove, MonitorSkip, MonitorEndBatch, Dispatching
  <2> QED BY <2>1, InformedFrame DEF Notifying
<1>4. ASSUME NEW t \in Threads, DropSwap(t) PROVE WaitersInformed'
  <2>1. mtx = None /\ isMonitoring' = isMonitoring /\ pc' = [pc EXCEPT ![t] = "remove"]
    BY <1>4 DEF DropSwap
  <2> QED BY <2>1, <1>c DEF Notifying, TypeOK
<1>5. ASSUME NEW t \in Threads, DropNotify(t) PROVE WaitersInformed'
  <2>1. UNCHANGED <<active, isMonitoring, op>> /\ pc' = [Woken EXCEPT ![t] = "dropclose"]
    BY <1>5 DEF DropNotify
  <2> QED BY <2>1, <1>w DEF Woken
<1>6. ASSUME NEW t \in Threads, CloseNotify(t) PROVE WaitersInformed'
  <2>1. UNCHANGED <<active, isMonitoring, op>> /\ pc' = [Woken EXCEPT ![t] = "join"]
    BY <1>6 DEF CloseNotify
  <2> QED BY <2>1, <1>w DEF Woken
<1>7. ASSUME NEW t \in Threads, CloseBegin(t) PROVE WaitersInformed'
  BY <1>7 DEF CloseBegin, WaitersInformed
<1>8. ASSUME NEW t \in Threads, CloseClear(t) PROVE WaitersInformed'
  <2>1. ~isMonitoring /\ isMonitoring' = isMonitoring
    BY <1>8 DEF CloseClear, WaiterInv, ClosingStopped
  <2> QED BY <2>1 DEF WaitersInformed
<1>9. ASSUME NEW t \in Threads, OpenStart(t) PROVE WaitersInformed'
  <2>1. CASE isMonitoring
    <3>1. UNCHANGED <<active, isMonitoring, op, mpc>> /\ pc[t] = "opened"
          /\ pc' = [pc EXCEPT ![t] = "idle"]
      BY <1>9, <2>1 DEF OpenStart
    <3> QED BY <3>1, InformedFrame DEF Notifying, TypeOK
  <2>2. CASE ~isMonitoring
    <3>1. \A u \in Threads : pc[u] \notin {"blocking", "asleep"}
      BY <1>9, <2>2 DEF OpenStart, WaiterInv, FirstOpen, Waiting
    <3>2. \A u \in Threads : pc'[u] \notin {"blocking", "asleep"}
      BY <1>9, <3>1 DEF OpenStart, TypeOK
    <3> QED BY <3>2 DEF WaitersInformed
  <2> QED BY <2>1, <2>2
<1>10. ASSUME NEW t \in Threads, WaitWake(t) \/ \E o \in {"await", "awaitClose"} : WaitCall(t, o)
       PROVE  WaitersInformed'
  <2>1. PICK o : WaitEvaluate(t, o)
    BY <1>10, WaitStarts
  <2>2. UNCHANGED <<active, isMonitoring, mpc>> /\ pc[t] \in {"idle", "notified", "expired"}
    BY <1>10, <2>1, WaitStarts DEF WaitEvaluate
  <2>3. Notifying => Notifying'
    BY <2>1, <2>2, WaitOutcomes DEF Notifying, TypeOK
  <2>4. ASSUME NEW u \in Threads, u # t PROVE pc'[u] = pc[u] /\ op'[u] = op[u]
    BY <2>1, <2>4, WaitOutcomes DEF TypeOK
  <2>5. pc'[t] # "asleep" /\ (pc'[t] = "blocking" => ~Reached(o) /\ op'[t] = o)
    BY <2>1, WaitOutcomes DEF TypeOK
  <2>6. ASSUME NEW u \in Threads
        PROVE  /\ pc'[u] = "blocking" /\ isMonitoring' => ~Reached(op[u])'
               /\ pc'[u] = "asleep" /\ isMonitoring' /\ Reached(op[u])' => Notifying'
    <3>1. CASE u = t
      BY <2>2, <2>5, <3>1 DEF Reached
    <3>2. CASE u # t
      BY <2>2, <2>3, <2>4, <3>2 DEF Reached, WaitersInformed
    <3> QED BY <3>1, <3>2
  <2> QED BY <2>6 DEF WaitersInformed
<1>11. ASSUME NEW t \in Threads, WaitSleep(t) PROVE WaitersInformed'
  <2>1. /\ UNCHANGED <<active, isMonitoring, op, mpc>> /\ pc[t] = "blocking"
        /\ pc' = [pc EXCEPT ![t] = "asleep"]
    BY <1>11 DEF WaitSleep
  <2>2. Notifying => Notifying'
    BY <2>1 DEF Notifying, TypeOK
  <2> QED BY <2>1, <2>2 DEF WaitersInformed, Reached, TypeOK
<1>12. ASSUME NEW t \in Threads,
              \/ OpenSocket(t) \/ CloseJoin(t) \/ CloseShut(t) \/ DropRemove(t) \/ DropHandoff(t)
              \/ DropClose(t) \/ DropReturn(t) \/ AwaitRecheck(t) \/ WaitExpire(t)
       PROVE  WaitersInformed'
  <2>1. /\ UNCHANGED <<active, isMonitoring>>
        /\ mpc' = mpc \/ mpc = "exited"
    BY <1>12 DEF OpenSocket, CreatePassive, CloseJoin, CloseShut, DropRemove, DropHandoff,
       DropClose, DropReturn, AwaitRecheck, WaitExpire, ClosePassive
  <2>2. \A u \in Threads : pc[u] \in {"remove", "dropnotify"} => pc'[u] \in {"remove", "dropnotify"}
    BY <1>12 DEF OpenSocket, CreatePassive, CloseJoin, CloseShut, DropRemove, DropHandoff,
       DropClose, DropReturn, AwaitRecheck, WaitExpire, ClosePassive, TypeOK
  <2>3. Notifying => Notifying'
    BY <2>1, <2>2 DEF Notifying
  <2> QED BY <1>12, <2>1, <2>3, NobodyStartsToWait, InformedFrame
<1>13. CASE (\E c \in Clients : PeerConnect(c) \/ PeerHangup(c)) \/ UNCHANGED vars
  BY <1>13, InformedFrame DEF PeerConnect, PeerHangup, vars, Notifying
<1> QED BY <1>1, <1>2, <1>3, <1>4, <1>5, <1>6, <1>7, <1>8, <1>9, <1>10, <1>11, <1>12, <1>13
        DEF Next, MonitorStep, ApiStep, ApiCall

\* The invariant of the waiters, when the owner does not open a server again that
\* it has closed.
THEOREM WaiterInvariant ==
  ASSUME ~ReopensClosed
  PROVE  Spec => []WaiterInv
<1>1. Init => MutexHeld /\ ClosingStopped /\ FirstOpen /\ WaitersInformed
  BY NullAssumption DEF Init, MutexHeld, ClosingStopped, FirstOpen, Waiting, WaitersInformed
<1>2. WaiterInv /\ [Next]_vars => (MutexHeld /\ ClosingStopped /\ FirstOpen /\ WaitersInformed)'
  BY MutexStep, ClosingStep, FirstOpenStep, InformedStep DEF WaiterInv
<1> QED BY <1>1, <1>2, OwnershipInvariant, PTL DEF Spec, WaiterInv

\* As long as the server runs no waiter of await() or awaitClose() sleeps through
\* the change it waits for, whichever of the monitor and dropAll() makes it.
\* (After a reopening over TCP it can: a waiter that missed close()'s notification still
\* sleeps when the flag is set again.)
THEOREM ListChangesNotified ==
  ASSUME ~ReopensClosed
  PROVE  Spec => []NoMissedListChange
<1>1. WaiterInv => NoMissedListChange
  BY DEF WaiterInv, WaitersInformed, Notifying, NoMissedListChange
<1> QED BY <1>1, WaiterInvariant, PTL
==============================================================================
