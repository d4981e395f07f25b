---------------------- MODULE BroadcastRefinement_proofs ----------------------
(* BroadcastServer implements ClientRegistry, for every set of clients,    *)
(* descriptors, threads and calls.  The ownership invariant says who has a *)
(* client at each moment; what the callbacks add is stated here.           *)
EXTENDS BroadcastServer_proofs

\* Only accepted clients have been announced, and the one the monitor has just
\* accepted has not.
Announced ==
  /\ \A c \in connected : fd[c] # None
  /\ mpc \in {"push", "announce"} => fd[cur] # None /\ cur \notin connected

RegistryInv == TypeInv /\ Ownership /\ Announced

------------------------------------------------------------------------------
(* Announced is inductive *)

\* A step that accepts nobody and announces nobody.
LEMMA AnnouncedFrame ==
  ASSUME Announced, UNCHANGED <<fd, connected>>,
         mpc' \in {"push", "announce"} => mpc \in {"push", "announce"} /\ cur' = cur
  PROVE  Announced'
  BY DEF Announced

\* Every step preserves Announced.
LEMMA AnnouncedStep ==
  ASSUME TypeInv, Announced, [Next]_vars
  PROVE  Announced'
<1> USE DEF objVars, monVars, apiVars, cliVars, kernVars, histVars
<1> TypeOK
  BY DEF TypeInv
<1>1. CASE MonitorAccept
  <2>1. PICK c \in Queued, f \in FreeFds : fd' = [fd EXCEPT ![c] = f] /\ cur' = c
    BY <1>1 DEF MonitorAccept
  <2>2. c \in Clients /\ fd[c] = None /\ f \in Fds /\ f # None /\ connected' = connected
    BY <1>1, NullAssumption DEF Queued, FreeFds, MonitorAccept
  <2> QED BY <2>1, <2>2 DEF Announced, TypeOK
<1>2. CASE MonitorAnnounce
  <2>1. cur \in Clients /\ fd[cur] # None /\ fd' = fd /\ connected' \subseteq connected \cup {cur}
        /\ mpc' = "dispatch"
    BY <1>2 DEF MonitorAnnounce, OnConnected, TypeInv, HasCursor, Announced
  <2> QED BY <2>1 DEF Announced
<1>3. CASE MonitorCheck \/ MonitorClear \/ MonitorSnapshot \/ MonitorPoll \/ MonitorPollFails
           \/ MonitorAcceptFails \/ MonitorPush \/ MonitorRemove \/ MonitorErase \/ MonitorFinish
           \/ MonitorSkip \/ MonitorEndBatch
  <2>1. /\ UNCHANGED <<fd, connected>>
        /\ mpc' \in {"push", "announce"} => mpc = "push" /\ cur' = cur
    BY <1>3 DEF MonitorCheck, MonitorClear, MonitorSnapshot, MonitorPoll, MonitorPollFails,
       MonitorAcceptFails, MonitorPush, MonitorRemove, MonitorErase, MonitorFinish, MonitorSkip,
       MonitorEndBatch, Dispatching
  <2> QED BY <2>1, AnnouncedFrame
<1>4. ASSUME NEW t \in Threads, ApiCall(t) \/ ApiStep(t) \/ WaitExpire(t) PROVE Announced'
  <2>1. /\ UNCHANGED <<fd, connected, cur>>
        /\ mpc' = mpc \/ mpc' \in {"top", "none"}
    BY <1>4 DEF ApiCall, ApiStep, OpenSocket, CreatePassive, OpenStart, CloseBegin, CloseNotify,
       CloseJoin, CloseClear, CloseSockets, CloseShut, ClosePassive, DropSwap, DropRemove,
       DropHandoff, DropNotify, DropClose, DropReturn, WaitSleep, AwaitRecheck, WaitExpire,
       WaitCall, WaitWake, WaitEvaluate
  <2> QED BY <2>1, AnnouncedFrame
<1>5. CASE (\E c \in Clients : PeerConnect(c) \/ PeerHangup(c)) \/ UNCHANGED vars
  BY <1>5, AnnouncedFrame DEF PeerConnect, PeerHangup, vars
<1> QED BY <1>1, <1>2, <1>3, <1>4, <1>5 DEF Next, MonitorStep

\* The invariant the refinement rests on.
THEOREM RegistryInvariant == Spec => []RegistryInv
<1>1. Init => Announced
  BY DEF Init, Announced
<1>2. TypeInv /\ Announced /\ [Next]_vars => Announced'
  BY AnnouncedStep
<1> QED BY <1>1, <1>2, OwnershipInvariant, PTL DEF Spec, RegistryInv

------------------------------------------------------------------------------
(* The phases *)

\* The five phases, from the variables they are defined by.
LEMMA PhaseIs ==
  ASSUME NEW c \in Clients
  PROVE  /\ fd[c] = None => Phase(c) = "absent"
         /\ fd[c] # None /\ c \in active => Phase(c) = "active"
         /\ fd[c] # None /\ c \notin active /\ sock[c] = None => Phase(c) = "closed"
         /\ fd[c] # None /\ c \notin active /\ sock[c] # None =>
              Phase(c) = IF mpc = "push" /\ cur = c THEN "arriving" ELSE "leaving"
  BY DEF Phase

\* A client whose variables do not change stays in its phase.
LEMMA PhaseKept ==
  ASSUME NEW c \in Clients, fd'[c] = fd[c], sock'[c] = sock[c], c \in active' <=> c \in active,
         mpc' = "push" /\ cur' = c <=> mpc = "push" /\ cur = c
  PROVE  Phase(c)' = Phase(c)
  BY DEF Phase

\* A step in which exactly the clients of S change their phase, to p.
LEMMA Moves ==
  ASSUME NEW S, NEW p, \A c \in Clients : Phase(c)' = IF c \in S THEN p ELSE Phase(c)
  PROVE  Registry!Move(S, p)
  BY DEF Registry!Move

\* The clients in a phase.
LEMMA InPhase ==
  ASSUME NEW p
  PROVE  Registry!In(p) = {c \in Clients : Phase(c) = p}
  BY DEF Registry!In

\* A step that moves nobody is a stutter of the registry, or an announcement.
LEMMA RegistryStutter ==
  ASSUME UNCHANGED <<fd, sock, active, connected, disconnected>>,
         \A c \in Clients : mpc' = "push" /\ cur' = c <=> mpc = "push" /\ cur = c
  PROVE  UNCHANGED Registry!regVars
<1>1. \A c \in Clients : Phase(c)' = Phase(c)
  BY PhaseKept
<1> QED BY <1>1 DEF Registry!regVars

------------------------------------------------------------------------------
(* One lemma per step of the registry *)

\* accept() brings a client that was not there before.
LEMMA AcceptRefines ==
  ASSUME RegistryInv, MonitorAccept
  PROVE  \E c \in Clients : Registry!Accept(c)
<1> USE DEF objVars, histVars
<1> TypeOK /\ Ownership
  BY DEF RegistryInv, TypeInv
<1>1. PICK c \in Queued, f \in FreeFds : /\ fd' = [fd EXCEPT ![c] = f]
                                         /\ sock' = [sock EXCEPT ![c] = f]
                                         /\ cur' = c
  BY DEF MonitorAccept, AcceptClient
<1>2. /\ c \in Clients /\ fd[c] = None /\ f \in Fds /\ f # None
      /\ UNCHANGED <<active, connected, disconnected>> /\ mpc = "dispatch" /\ mpc' = "push"
  BY NullAssumption DEF Queued, FreeFds, MonitorAccept, Dispatching
<1>3. sock[c] = None /\ c \notin active
  BY <1>2 DEF Ownership, Descriptors, Closers, HasCloser
<1>4. Phase(c)' = "arriving"
  <2>1. fd'[c] # None /\ c \notin active' /\ sock'[c] # None /\ mpc' = "push" /\ cur' = c
    BY <1>1, <1>2, <1>3 DEF TypeOK
  <2> QED BY <2>1, Zenon DEF Phase
<1>5. ASSUME NEW d \in Clients, d # c PROVE Phase(d)' = Phase(d)
  BY <1>1, <1>2, <1>5, PhaseKept DEF TypeOK
<1>6. Registry!Move({c}, "arriving")
  BY <1>4, <1>5, Moves
<1>7. Phase(c) = "absent"
  BY <1>2, PhaseIs
<1> QED BY <1>2, <1>6, <1>7 DEF Registry!Accept

\* push_back puts the accepted client on the list.
LEMMA PushRefines ==
  ASSUME RegistryInv, MonitorPush
  PROVE  \E c \in Clients : Registry!Join(c)
<1> USE DEF cliVars, histVars
<1> TypeOK /\ Ownership
  BY DEF RegistryInv, TypeInv
<1>1. /\ cur \in Clients /\ fd[cur] # None /\ owned
      /\ mpc = "push" /\ mpc' = "announce" /\ active' = active \cup {cur}
      /\ UNCHANGED <<fd, sock, connected, disconnected>>
  BY DEF MonitorPush, RegistryInv, TypeInv, HasCursor, Announced, Ownership, MonitorLocal
<1>2. cur \notin active /\ sock[cur] # None
  BY <1>1 DEF Ownership, OneCloser, Closers, HasCloser
<1>3. PICK c \in Clients : c = cur
  BY <1>1
<1>4. Phase(c) = "arriving"
  BY <1>1, <1>2, <1>3, PhaseIs
<1>5. Phase(c)' = "active"
  <2>1. fd'[c] # None /\ c \in active'
    BY <1>1, <1>3
  <2> QED BY <2>1, Zenon DEF Phase
<1>6. ASSUME NEW d \in Clients, d # c PROVE Phase(d)' = Phase(d)
  BY <1>1, <1>3, <1>6, PhaseKept
<1>7. Registry!Move({c}, "active")
  BY <1>5, <1>6, Moves
<1> QED BY <1>1, <1>4, <1>7 DEF Registry!Join

\* onClientConnected runs for a client that has been on the list, once; with a
\* null handler nothing happens.
LEMMA AnnounceRefines ==
  ASSUME RegistryInv, MonitorAnnounce
  PROVE  (\E c \in Clients : Registry!Announce(c)) \/ UNCHANGED Registry!regVars
<1> USE DEF objVars, cliVars
<1> TypeOK
  BY DEF RegistryInv, TypeInv
<1>1. /\ cur \in Clients /\ fd[cur] # None /\ cur \notin connected
      /\ mpc = "announce" /\ mpc' = "dispatch"
      /\ UNCHANGED <<fd, sock, active, disconnected>>
      /\ connected' = connected \/ connected' = connected \cup {cur}
  BY DEF MonitorAnnounce, OnConnected, RegistryInv, TypeInv, HasCursor, Announced
<1>2. \A c \in Clients : Phase(c)' = Phase(c)
  BY <1>1, PhaseKept
<1>3. Phase(cur) \in {"active", "leaving", "closed"}
  BY <1>1, PhaseIs
<1>4. CASE connected' = connected
  BY <1>1, <1>2, <1>4 DEF Registry!regVars
<1>5. CASE connected' = connected \cup {cur}
  <2>1. Registry!Announce(cur)
    BY <1>1, <1>2, <1>3, <1>5 DEF Registry!Announce
  <2> QED BY <1>1, <2>1
<1> QED BY <1>1, <1>4, <1>5

\* An active client is in phase "active", and nobody else is.
LEMMA ActivePhase ==
  ASSUME RegistryInv
  PROVE  Registry!In("active") = active /\ \A c \in active : fd[c] # None /\ sock[c] # None
<1> TypeOK /\ Ownership
  BY DEF RegistryInv, TypeInv
<1>1. \A c \in active : c \in Clients /\ fd[c] # None /\ sock[c] # None
  BY DEF TypeOK, Ownership, Closers, HasCloser, Descriptors
<1>2. \A c \in Clients : Phase(c) = "active" <=> c \in active
  BY <1>1, PhaseIs
<1> QED BY <1>1, <1>2, InPhase DEF TypeOK

\* A client on the list is not the one the monitor is about to put there.
LEMMA ArrivingNotActive ==
  ASSUME RegistryInv, NEW c \in active
  PROVE  ~(mpc = "push" /\ cur = c)
  BY DEF RegistryInv, Ownership, MonitorLocal, OneCloser

\* The clients of S leave the list and nothing else happens to them.
LEMMA LeaveRefines ==
  ASSUME RegistryInv, NEW S \in SUBSET Clients, S \subseteq active, active' = active \ S,
         UNCHANGED <<fd, sock, connected, disconnected>>,
         \A c \in Clients : mpc' = "push" /\ cur' = c <=> mpc = "push" /\ cur = c
  PROVE  (\E T \in SUBSET Clients : Registry!Leave(T)) \/ UNCHANGED Registry!regVars
<1>1. CASE S = {}
  BY <1>1, RegistryStutter
<1>2. CASE S # {}
  <2>1. \A c \in S : fd[c] # None /\ sock[c] # None
    BY ActivePhase
  <2>2. ASSUME NEW c \in S PROVE Phase(c)' = "leaving"
    <3>1. /\ fd'[c] # None /\ c \notin active' /\ sock'[c] # None
          /\ ~(mpc' = "push" /\ cur' = c)
      BY <2>1, <2>2, ArrivingNotActive
    <3> QED BY <3>1, Zenon DEF Phase
  <2>3. ASSUME NEW c \in Clients, c \notin S PROVE Phase(c)' = Phase(c)
    BY <2>3, PhaseKept
  <2>4. Registry!Move(S, "leaving")
    BY <2>2, <2>3, Moves
  <2>5. Registry!Leave(S)
    BY <1>2, <2>4, ActivePhase DEF Registry!Leave
  <2> QED BY <2>5
<1> QED BY <1>1, <1>2

\* Whoever holds a client that has left the list closes it and reports it.
LEMMA CloseRefines ==
  ASSUME RegistryInv, NEW c \in Clients, c \notin active, sock[c] # None,
         ~(mpc = "push" /\ cur = c), CloseSockets({c}), OnDisconnected(c),
         UNCHANGED <<fd, active, connected>>,
         \A d \in Clients : mpc' = "push" /\ cur' = d <=> mpc = "push" /\ cur = d
  PROVE  Registry!Close(c)
<1> TypeOK /\ Ownership
  BY DEF RegistryInv, TypeInv
<1>1. fd[c] # None /\ disconnected[c] = 0
  BY DEF Ownership, Descriptors, Reports
<1>2. Phase(c) = "leaving"
  BY <1>1, PhaseIs
<1>3. sock' = [d \in Clients |-> IF d = c THEN None ELSE sock[d]]
  BY DEF CloseSockets
<1>4. Phase(c)' = "closed"
  <2>1. fd'[c] # None /\ c \notin active' /\ sock'[c] = None
    BY <1>1, <1>3
  <2> QED BY <2>1, Zenon DEF Phase
<1>5. ASSUME NEW d \in Clients, d # c PROVE Phase(d)' = Phase(d)
  BY <1>3, <1>5, PhaseKept
<1>6. Registry!Move({c}, "closed")
  BY <1>4, <1>5, Moves
<1>7. disconnected' \in {disconnected, [disconnected EXCEPT ![c] = 1]}
  BY <1>1 DEF OnDisconnected, TypeOK
<1> QED BY <1>1, <1>2, <1>6, <1>7 DEF Registry!Close

\* close() closes the listed clients.
LEMMA ShutdownRefines ==
  ASSUME RegistryInv, NEW t \in Threads, CloseClear(t)
  PROVE  Registry!Shutdown \/ UNCHANGED Registry!regVars
<1> USE DEF monVars, histVars
<1> TypeOK
  BY DEF RegistryInv, TypeInv
<1>1. /\ active' = {} /\ UNCHANGED <<fd, mpc, cur, connected, disconnected>>
      /\ sock' = [c \in Clients |-> IF c \in active THEN None ELSE sock[c]]
  BY DEF CloseClear, CloseSockets
<1>2. CASE active = {}
  <2>1. sock' = sock
    BY <1>1, <1>2 DEF TypeOK
  <2> QED BY <1>1, <1>2, <2>1, RegistryStutter
<1>3. CASE active # {}
  <2>1. PICK S \in SUBSET Clients : S = active
    BY DEF TypeOK
  <2>2. ASSUME NEW c \in S PROVE Phase(c)' = "closed"
    <3>1. fd'[c] # None /\ c \notin active' /\ sock'[c] = None
      BY <1>1, <2>1, <2>2, ActivePhase
    <3> QED BY <3>1, Zenon DEF Phase
  <2>3. ASSUME NEW c \in Clients, c \notin S PROVE Phase(c)' = Phase(c)
    BY <1>1, <2>1, <2>3, PhaseKept
  <2>4. Registry!Move(S, "closed")
    BY <2>2, <2>3, Moves
  <2> QED BY <1>1, <1>3, <2>1, <2>4, ActivePhase DEF Registry!Shutdown
<1> QED BY <1>2, <1>3

------------------------------------------------------------------------------
(* The refinement *)

\* Every step of the server is a step of the registry or leaves it alone.
LEMMA RegistryStep ==
  ASSUME RegistryInv, [Next]_vars
  PROVE  [Registry!Next]_(Registry!regVars)
<1> USE DEF objVars, monVars, apiVars, cliVars, kernVars, histVars
<1> TypeOK /\ Ownership
  BY DEF RegistryInv, TypeInv
<1>1. CASE MonitorAccept
  BY <1>1, AcceptRefines DEF Registry!Next
<1>2. CASE MonitorPush
  BY <1>2, PushRefines DEF Registry!Next
<1>3. CASE MonitorAnnounce
  BY <1>3, AnnounceRefines DEF Registry!Next
<1>4. CASE MonitorErase
  <2>1. PICK S \in SUBSET Clients : S = active \cap {cur}
    BY DEF TypeOK
  <2>2. /\ active' = active \ S /\ UNCHANGED <<fd, sock, connected, disconnected>>
        /\ mpc # "push" /\ mpc' # "push"
    BY <1>4, <2>1 DEF MonitorErase
  <2> QED BY <2>1, <2>2, LeaveRefines DEF Registry!Next
<1>5. ASSUME NEW t \in Threads, DropSwap(t) PROVE [Registry!Next]_(Registry!regVars)
  <2>1. PICK S \in SUBSET Clients : S = active
    BY DEF TypeOK
  <2>2. active' = active \ S /\ UNCHANGED <<fd, sock, connected, disconnected, mpc, cur>>
    BY <1>5, <2>1 DEF DropSwap
  <2> QED BY <2>1, <2>2, LeaveRefines DEF Registry!Next
<1>6. CASE MonitorFinish
  <2>1. CASE owned
    <3>1. PICK c \in Clients : c = cur
      BY <1>6 DEF MonitorFinish, RegistryInv, TypeInv, HasCursor
    <3>2. /\ CloseSockets({c}) /\ OnDisconnected(c) /\ mpc # "push" /\ mpc' # "push"
          /\ UNCHANGED <<fd, active, connected>>
      BY <1>6, <2>1, <3>1 DEF MonitorFinish
    <3>3. c \notin active /\ sock[c] # None
      BY <2>1, <3>1 DEF Ownership, OneCloser, Closers, HasCloser
    <3> QED BY <3>2, <3>3, CloseRefines DEF Registry!Next
  <2>2. CASE ~owned
    BY <1>6, <2>2, RegistryStutter DEF MonitorFinish
  <2> QED BY <2>1, <2>2
<1>7. ASSUME NEW t \in Threads, DropClose(t) PROVE [Registry!Next]_(Registry!regVars)
  <2>1. PICK c \in todo[t] : CloseSockets({c}) /\ OnDisconnected(c)
    BY <1>7 DEF DropClose
  <2>2. c \in Clients /\ c \in Holding(t) /\ UNCHANGED <<fd, active, connected, mpc, cur>>
    BY <1>7 DEF DropClose, Holding, TypeOK
  <2>3. c \notin active /\ sock[c] # None /\ ~(mpc = "push" /\ cur = c)
    BY <2>2 DEF Ownership, OneCloser, Closers, HasCloser, MonitorLocal
  <2> QED BY <2>1, <2>2, <2>3, CloseRefines DEF Registry!Next
<1>8. ASSUME NEW t \in Threads, CloseClear(t) PROVE [Registry!Next]_(Registry!regVars)
  BY <1>8, ShutdownRefines DEF Registry!Next
<1>9. CASE MonitorCheck \/ MonitorClear \/ MonitorSnapshot \/ MonitorPoll \/ MonitorPollFails
           \/ MonitorAcceptFails \/ MonitorRemove \/ MonitorSkip \/ MonitorEndBatch
  <2>1. UNCHANGED <<fd, sock, active, connected, disconnected>> /\ mpc # "push" /\ mpc' # "push"
    BY <1>9 DEF MonitorCheck, MonitorClear, MonitorSnapshot, MonitorPoll, MonitorPollFails,
       MonitorAcceptFails, MonitorRemove, MonitorSkip, MonitorEndBatch, Dispatching
  <2> QED BY <2>1, RegistryStutter
<1>10. ASSUME NEW t \in Threads, OpenStart(t) PROVE UNCHANGED Registry!regVars
  <2>1. isMonitoring \/ mpc = "none"
    <3>1. \A u \in Threads : pc[u] \in {"notify", "join", "opened"} => IsOwner(u)
      BY DEF RegistryInv, TypeInv, OwnerOnly, OwnerStates
    <3> QED BY <1>10, <3>1, OwnerAssumption DEF OpenStart, Ownership, MonitorLocal
  <2>2. /\ UNCHANGED <<fd, sock, active, connected, disconnected, cur>>
        /\ mpc' = mpc \/ (mpc = "none" /\ mpc' = "top")
    BY <1>10, <2>1 DEF OpenStart
  <2> QED BY <2>2, RegistryStutter
<1>11. ASSUME NEW t \in Threads,
              \/ OpenSocket(t) \/ CloseBegin(t) \/ CloseNotify(t) \/ CloseJoin(t) \/ CloseShut(t)
              \/ DropRemove(t) \/ DropHandoff(t) \/ DropNotify(t) \/ DropReturn(t)
              \/ WaitSleep(t) \/ WaitWake(t) \/ WaitExpire(t) \/ AwaitRecheck(t)
              \/ \E o \in {"await", "awaitClose"} : WaitCall(t, o)
       PROVE  UNCHANGED Registry!regVars
  <2>1. /\ UNCHANGED <<fd, sock, active, connected, disconnected, cur>>
        /\ mpc' = mpc \/ (mpc # "push" /\ mpc' # "push")
    BY <1>11 DEF OpenSocket, CreatePassive, CloseBegin, CloseNotify, CloseJoin, CloseShut,
       ClosePassive, DropRemove, DropHandoff, DropNotify, DropReturn, WaitSleep, WaitWake,
       WaitExpire, AwaitRecheck, WaitCall, WaitEvaluate
  <2> QED BY <2>1, RegistryStutter
<1>12. CASE (\E c \in Clients : PeerConnect(c) \/ PeerHangup(c)) \/ UNCHANGED vars
  BY <1>12, RegistryStutter DEF PeerConnect, PeerHangup, vars
<1> QED BY <1>1, <1>2, <1>3, <1>4, <1>5, <1>6, <1>7, <1>8, <1>9, <1>10, <1>11, <1>12
        DEF Next, MonitorStep, ApiStep, ApiCall

\* The server with all its threads implements the registry: every client is
\* accepted, listed, removed and closed once, in this order, whoever does it,
\* and its callbacks run at most once.
THEOREM ServerImplementsRegistry == Spec => RefinesRegistry
<1>1. Init => Registry!Init
  <2> SUFFICES ASSUME Init PROVE Registry!Init
    OBVIOUS
  <2>1. \A c \in Clients : Phase(c) = "absent"
    BY PhaseIs DEF Init
  <2> QED BY <2>1 DEF Init, Registry!Init
<1>2. RegistryInv /\ [Next]_vars => [Registry!Next]_(Registry!regVars)
  BY RegistryStep
<1> QED BY <1>1, <1>2, RegistryInvariant, PTL DEF Spec, RefinesRegistry, Registry!Spec
==============================================================================
