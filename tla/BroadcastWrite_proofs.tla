------------------------ MODULE BroadcastWrite_proofs -------------------------
(* Theorems about write(), for every set of clients, descriptors and       *)
(* threads, every set of calls, every size and every number of retries.    *)
EXTENDS BroadcastWrite, BroadcastServer_proofs, FiniteSetTheorems

------------------------------------------------------------------------------
(* What the rest of the server may do between two steps of write() *)

\* A client that was accepted keeps its number in the context, its socket object
\* only ever loses its descriptor, and a descriptor that changes hands goes to
\* nobody, to the server, or to a client accepted now.
LEMMA MeanwhileSockets ==
  ASSUME TypeInv, [Next]_vars
  PROVE  /\ \A c \in Clients : fd[c] # None => fd'[c] = fd[c] /\ sock'[c] \in {sock[c], None}
         /\ \A f \in Fds : \/ owner'[f] = owner[f] \/ owner'[f] \in {None, Server}
                           \/ owner'[f] \in Clients /\ fd[owner'[f]] = None
<1> USE DEF objVars, monVars, apiVars, cliVars, kernVars, histVars
<1> TypeOK
  BY DEF TypeInv
<1>1. CASE MonitorAccept
  <2>1. PICK c \in Queued, f \in FreeFds : /\ fd' = [fd EXCEPT ![c] = f]
                                           /\ sock' = [sock EXCEPT ![c] = f]
                                           /\ owner' = [owner EXCEPT ![f] = c]
    BY <1>1 DEF MonitorAccept, AcceptClient
  <2>2. c \in Clients /\ fd[c] = None /\ f \in Fds
    BY DEF Queued, FreeFds
  <2> QED BY <2>1, <2>2 DEF TypeOK
<1>2. ASSUME NEW S \in SUBSET Clients, CloseSockets(S), fd' = fd
      PROVE  /\ \A c \in Clients : fd'[c] = fd[c] /\ sock'[c] \in {sock[c], None}
             /\ \A f \in Fds : owner'[f] = owner[f] \/ owner'[f] = None
  BY <1>2 DEF CloseSockets
<1>3. CASE MonitorFinish
  <2>1. CASE owned
    <3>1. CloseSockets({cur}) /\ fd' = fd /\ cur \in Clients
      BY <1>3, <2>1 DEF MonitorFinish, TypeInv, HasCursor
    <3> QED BY <3>1, <1>2
  <2>2. CASE ~owned
    BY <1>3, <2>2 DEF MonitorFinish
  <2> QED BY <2>1, <2>2
<1>4. ASSUME NEW t \in Threads, DropClose(t)
      PROVE  /\ \A c \in Clients : fd'[c] = fd[c] /\ sock'[c] \in {sock[c], None}
             /\ \A f \in Fds : owner'[f] = owner[f] \/ owner'[f] = None
  <2>1. PICK c \in todo[t] : CloseSockets({c})
    BY <1>4 DEF DropClose
  <2>2. {c} \in SUBSET Clients /\ fd' = fd
    BY <1>4 DEF DropClose, TypeOK
  <2> QED BY <2>1, <2>2, <1>2
<1>5. ASSUME NEW t \in Threads, CloseClear(t)
      PROVE  /\ \A c \in Clients : fd'[c] = fd[c] /\ sock'[c] \in {sock[c], None}
             /\ \A f \in Fds : owner'[f] = owner[f] \/ owner'[f] = None
  BY <1>5, <1>2 DEF CloseClear, TypeOK
<1>6. ASSUME NEW t \in Threads, OpenSocket(t)
      PROVE  UNCHANGED <<fd, sock>> /\ \A f \in Fds : owner'[f] = owner[f] \/ owner'[f] = Server
  <2>1. owner' = owner \/ \E f \in Fds : owner' = [owner EXCEPT ![f] = Server]
    BY <1>6, Zenon DEF OpenSocket, CreatePassive, FreeFds
  <2> QED BY <1>6, <2>1 DEF OpenSocket, TypeOK
<1>7. ASSUME NEW t \in Threads, CloseShut(t)
      PROVE  UNCHANGED <<fd, sock>> /\ \A f \in Fds : owner'[f] = owner[f] \/ owner'[f] = None
  BY <1>7 DEF CloseShut, ClosePassive
<1>8. CASE MonitorCheck \/ MonitorClear \/ MonitorSnapshot \/ MonitorPoll \/ MonitorPollFails
           \/ MonitorAcceptFails \/ MonitorPush \/ MonitorAnnounce \/ MonitorRemove \/ MonitorErase
           \/ MonitorSkip \/ MonitorEndBatch
  BY <1>8 DEF MonitorCheck, MonitorClear, MonitorSnapshot, MonitorPoll, MonitorPollFails,
     MonitorAcceptFails, MonitorPush, MonitorAnnounce, MonitorRemove, MonitorErase, MonitorSkip,
     MonitorEndBatch
<1>9. ASSUME NEW t \in Threads,
             \/ OpenStart(t) \/ CloseBegin(t) \/ CloseNotify(t) \/ CloseJoin(t)
             \/ DropSwap(t) \/ DropRemove(t) \/ DropHandoff(t) \/ DropNotify(t) \/ DropReturn(t)
             \/ WaitSleep(t) \/ AwaitRecheck(t) \/ WaitExpire(t) \/ WaitWake(t)
             \/ \E o \in {"await", "awaitClose"} : WaitCall(t, o)
      PROVE  UNCHANGED <<fd, sock, owner>>
  BY <1>9 DEF OpenStart, CloseBegin, CloseNotify, CloseJoin, DropSwap, DropRemove, DropHandoff,
     DropNotify, DropReturn, WaitSleep, AwaitRecheck, WaitExpire, WaitCall, WaitWake, WaitEvaluate
<1>10. CASE (\E c \in Clients : PeerConnect(c) \/ PeerHangup(c)) \/ UNCHANGED vars
  BY <1>10 DEF PeerConnect, PeerHangup, vars
<1> QED BY <1>1, <1>3, <1>4, <1>5, <1>6, <1>7, <1>8, <1>9, <1>10
        DEF Next, MonitorStep, ApiStep, ApiCall

\* The list stays finite, because clients are put on it one at a time.
LEMMA ActiveStaysFinite ==
  ASSUME IsFiniteSet(active), [Next]_vars
  PROVE  IsFiniteSet(active')
<1> USE DEF objVars, monVars, apiVars, cliVars, kernVars, histVars
<1>1. CASE MonitorPush
  BY <1>1, FS_AddElement DEF MonitorPush
<1>2. CASE MonitorErase
  BY <1>2, FS_Subset DEF MonitorErase
<1>3. ASSUME NEW t \in Threads, DropSwap(t) \/ CloseClear(t) PROVE active' = {}
  BY <1>3 DEF DropSwap, CloseClear
<1>4. CASE MonitorCheck \/ MonitorClear \/ MonitorSnapshot \/ MonitorPoll \/ MonitorPollFails
           \/ MonitorAccept \/ MonitorAcceptFails \/ MonitorAnnounce \/ MonitorRemove
           \/ MonitorFinish \/ MonitorSkip \/ MonitorEndBatch
  BY <1>4 DEF MonitorCheck, MonitorClear, MonitorSnapshot, MonitorPoll, MonitorPollFails,
     MonitorAccept, MonitorAcceptFails, MonitorAnnounce, MonitorRemove, MonitorFinish,
     MonitorSkip, MonitorEndBatch
<1>5. ASSUME NEW t \in Threads,
             \/ OpenSocket(t) \/ OpenStart(t) \/ CloseBegin(t) \/ CloseNotify(t) \/ CloseJoin(t)
             \/ CloseShut(t) \/ DropRemove(t) \/ DropHandoff(t) \/ DropNotify(t) \/ DropClose(t)
             \/ DropReturn(t) \/ WaitSleep(t) \/ AwaitRecheck(t) \/ WaitExpire(t) \/ WaitWake(t)
             \/ \E o \in {"await", "awaitClose"} : WaitCall(t, o)
      PROVE  active' = active
  BY <1>5 DEF OpenSocket, OpenStart, CloseBegin, CloseNotify, CloseJoin, CloseShut, DropRemove,
     DropHandoff, DropNotify, DropClose, DropReturn, WaitSleep, AwaitRecheck, WaitExpire, WaitCall,
     WaitWake, WaitEvaluate
<1>6. CASE (\E c \in Clients : PeerConnect(c) \/ PeerHangup(c)) \/ UNCHANGED vars
  BY <1>6 DEF PeerConnect, PeerHangup, vars
<1> QED BY <1>1, <1>2, <1>3, <1>4, <1>5, <1>6, FS_EmptySet DEF Next, MonitorStep, ApiStep, ApiCall

\* write() changes nothing of the server: with it running the server behaves as
\* BroadcastServer says, and every theorem about that still holds.
THEOREM WriteLeavesServer == WSpec => Spec
<1>1. WInit => Init
  BY DEF WInit
<1>2. [WNext]_wvars => [Next]_vars
  BY DEF WNext, WriteStep, WriteCall, WritePick, WriteWait, WriteLoad, WriteSend, WriteReturn, wvars
<1> QED BY <1>1, <1>2, PTL DEF WSpec, Spec

------------------------------------------------------------------------------
(* The inductive invariant of write() *)

InTurn == wpc \in {"wait", "load", "send"}

\* The turn is about a client of the snapshot that the loop will not meet again,
\* with bytes and retries left; outside send() no descriptor is loaded.
TurnShape ==
  /\ InTurn => client \in snapshot \ left /\ tries < MaxRetries /\ written < Size
  /\ sendFd # None => wpc = "send"
  /\ wpc = "idle" => snapshot = {}

\* Who is on the snapshot, or has received anything, was accepted before.
SeenAccepted ==
  /\ \A c \in snapshot : fd[c] # None
  /\ \A c \in Clients : got[c] # 0 => fd[c] # None

\* The loaded descriptor leads to the client of the turn, or to somebody outside
\* the snapshot who has received nothing yet; it is still the client's own if the
\* client is connected.
Aimed ==
  /\ sendFd # None => \/ owner[sendFd] = client
                      \/ /\ owner[sendFd] \notin snapshot
                         /\ owner[sendFd] \in Clients => got[owner[sendFd]] = 0
  /\ wpc = "send" /\ sock[client] # None => sendFd = sock[client]

\* Clients still to come have nothing, nobody has more than the message, and the
\* client of the turn has what written_size counts unless part of it went astray.
Amounts ==
  /\ \A c \in left : got[c] = 0
  /\ \A c \in Clients : got[c] <= Size
  /\ InTurn => got[client] <= written /\ (sock[client] # None => got[client] = written)

FiniteLists == IsFiniteSet(active) /\ IsFiniteSet(left)

WriteInv == WTypeOK /\ TurnShape /\ SeenAccepted /\ Aimed /\ Amounts /\ FiniteLists

\* The byte counts are numbers.
LEMMA GotNat ==
  ASSUME WTypeOK
  PROVE  \A c \in Clients : got[c] \in Nat
  BY WriteAssumption DEF WTypeOK

\* Connections that come and go between two steps of write() do not disturb it.
LEMMA MeanwhileKeeps ==
  ASSUME TypeInv, Ownership, WriteInv, [Next]_vars, UNCHANGED writeVars
  PROVE  WriteInv'
<1> USE DEF writeVars, turnVars, WriteInv
<1>1. WTypeOK' /\ TurnShape'
  BY DEF WTypeOK, TurnShape, InTurn
<1>2. \A c \in Clients : fd[c] # None => fd'[c] = fd[c] /\ sock'[c] \in {sock[c], None}
  BY MeanwhileSockets
<1>3. snapshot \subseteq Clients
  BY DEF WTypeOK
<1>4. SeenAccepted'
  BY <1>2, <1>3 DEF SeenAccepted
<1>5. InTurn => client \in Clients /\ fd[client] # None
  BY <1>3 DEF TurnShape, SeenAccepted
<1>6. Aimed'
  <2>1. ASSUME sendFd # None
        PROVE  \/ owner'[sendFd] = client
               \/ /\ owner'[sendFd] \notin snapshot
                  /\ owner'[sendFd] \in Clients => got[owner'[sendFd]] = 0
    <3>1. sendFd \in Fds
      BY <2>1 DEF WTypeOK
    <3>2. CASE owner'[sendFd] = owner[sendFd]
      BY <2>1, <3>2 DEF Aimed
    <3>3. CASE owner'[sendFd] \in {None, Server}
      BY <1>3, <3>3, NullAssumption
    <3>4. CASE owner'[sendFd] \in Clients /\ fd[owner'[sendFd]] = None
      BY <3>4 DEF SeenAccepted
    <3> QED BY <3>1, <3>2, <3>3, <3>4, MeanwhileSockets
  <2>2. wpc = "send" /\ sock'[client] # None => sendFd = sock'[client]
    BY <1>2, <1>5 DEF InTurn, Aimed
  <2> QED BY <2>1, <2>2 DEF Aimed
<1>7. Amounts'
  BY <1>2, <1>5 DEF Amounts, InTurn
<1>8. FiniteLists'
  BY ActiveStaysFinite DEF FiniteLists
<1> QED BY <1>1, <1>4, <1>6, <1>7, <1>8

\* The call takes the snapshot.
LEMMA CallKeeps ==
  ASSUME TypeInv, Ownership, WriteInv, WriteCall
  PROVE  WriteInv'
<1> USE WriteAssumption DEF WriteInv, WriteCall, turnVars, vars, objVars, monVars, apiVars, cliVars, kernVars, histVars
<1>1. active \subseteq Clients /\ \A c \in active : fd[c] # None
  BY DEF TypeInv, TypeOK, Ownership, Closers, HasCloser, Descriptors
<1>2. sendFd = None
  BY DEF TurnShape
<1>3. WTypeOK'
  BY <1>1 DEF WTypeOK
<1>4. TurnShape'
  BY <1>2 DEF TurnShape, InTurn
<1>5. SeenAccepted'
  BY <1>1 DEF SeenAccepted
<1>6. Aimed' /\ FiniteLists'
  BY <1>2 DEF Aimed, FiniteLists
<1>7. Amounts'
  BY <1>1 DEF Amounts, InTurn
<1> QED BY <1>3, <1>4, <1>5, <1>6, <1>7

\* A turn begins.
LEMMA PickKeeps ==
  ASSUME TypeInv, WriteInv, WritePick
  PROVE  WriteInv'
<1> USE WriteAssumption DEF WriteInv, vars, objVars, monVars, apiVars, cliVars, kernVars, histVars
<1>1. PICK c \in left : client' = c /\ left' = left \ {c} /\ pollFd' = sock[c]
  BY DEF WritePick
<1>2. /\ tries' = 0 /\ written' = 0 /\ wpc = "pick" /\ wpc' = "wait"
      /\ UNCHANGED <<active, fd, sock, owner, snapshot, sendFd, result, writes, got>>
  BY DEF WritePick
<1>3. c \in Clients /\ c \in snapshot /\ sendFd = None /\ got[c] = 0
  BY <1>2 DEF WTypeOK, TurnShape, Amounts
<1>4. WTypeOK'
  BY <1>1, <1>2, <1>3 DEF WTypeOK, TypeInv, TypeOK
<1>5. TurnShape'
  BY <1>1, <1>2, <1>3 DEF TurnShape, InTurn
<1>6. SeenAccepted' /\ Aimed'
  BY <1>2, <1>3 DEF SeenAccepted, Aimed
<1>7. Amounts'
  BY <1>1, <1>2, <1>3 DEF Amounts, InTurn
<1>8. FiniteLists'
  BY <1>1, <1>2, FS_Subset DEF FiniteLists
<1> QED BY <1>4, <1>5, <1>6, <1>7, <1>8

\* The codes a wait for POLLOUT can bring.
LEMMA WaitOutCodes ==
  ASSUME NEW r \in WaitOut
  PROVE  r \in {"SUCCESS", "SOCKET_TIMEOUT", "SOCKET_CLOSED", "SOCKET_EVENT_ERROR", "UNKNOWN_ERROR"}
  BY Zenon DEF WaitOut

\* A wait moves on to send(), counts a retry or ends the turn.
LEMMA WaitAdvances ==
  ASSUME WriteWait
  PROVE  \/ wpc' = "load" /\ tries' = tries /\ result' = result
         \/ wpc' = "wait" /\ tries' = tries + 1 /\ tries + 1 < MaxRetries /\ result' = result
         \/ wpc' = "pick" /\ tries' \in {tries, tries + 1}
            /\ result' \in {"SUCCESS", "SOCKET_CLOSED", "SOCKET_EVENT_ERROR", "UNKNOWN_ERROR"}
<1>1. PICK r \in WaitOut :
        CASE r = "SUCCESS"        -> wpc' = "load" /\ UNCHANGED <<tries, result>>
          [] r = "SOCKET_TIMEOUT" -> /\ tries' = tries + 1
                                     /\ IF tries + 1 < MaxRetries THEN UNCHANGED <<wpc, result>>
                                                                  ELSE EndTurn("SUCCESS")
          [] OTHER                -> EndTurn(r) /\ UNCHANGED tries
  BY DEF WriteWait
<1>2. CASE r = "SUCCESS"
  BY <1>1, <1>2
<1>3. CASE r = "SOCKET_TIMEOUT"
  BY <1>1, <1>3 DEF EndTurn, WriteWait
<1>4. CASE r \in {"SOCKET_CLOSED", "SOCKET_EVENT_ERROR", "UNKNOWN_ERROR"}
  BY <1>1, <1>4 DEF EndTurn
<1> QED BY <1>2, <1>3, <1>4, WaitOutCodes

\* The invariant is kept by a wait.
LEMMA WaitKeeps ==
  ASSUME WriteInv, WriteWait
  PROVE  WriteInv'
<1> USE WriteAssumption DEF WriteInv, vars, objVars, monVars, apiVars, cliVars, kernVars, histVars
<1>1. /\ wpc = "wait"
      /\ UNCHANGED <<active, fd, sock, owner>>
      /\ UNCHANGED <<snapshot, left, client, pollFd, sendFd, written, writes, got>>
  BY DEF WriteWait
<1>2. \/ wpc' = "load" /\ tries' = tries /\ result' = result
      \/ wpc' = "wait" /\ tries' = tries + 1 /\ tries + 1 < MaxRetries /\ result' = result
      \/ wpc' = "pick" /\ tries' \in {tries, tries + 1}
         /\ result' \in {"SUCCESS", "SOCKET_CLOSED", "SOCKET_EVENT_ERROR", "UNKNOWN_ERROR"}
  BY WaitAdvances
<1>3. tries < MaxRetries /\ sendFd = None
  BY <1>1 DEF TurnShape, InTurn
<1>4. WTypeOK'
  BY <1>1, <1>2, <1>3 DEF WTypeOK
<1>5. TurnShape'
  BY <1>1, <1>2, <1>3 DEF TurnShape, InTurn
<1>6. SeenAccepted' /\ Aimed' /\ FiniteLists'
  BY <1>1, <1>2, <1>3 DEF SeenAccepted, Aimed, FiniteLists
<1>7. Amounts'
  BY <1>1, <1>2 DEF Amounts, InTurn
<1> QED BY <1>4, <1>5, <1>6, <1>7

\* The descriptor is loaded from the client's own socket object.
LEMMA LoadKeeps ==
  ASSUME TypeInv, Ownership, WriteInv, WriteLoad
  PROVE  WriteInv'
<1> USE WriteAssumption DEF WriteInv, vars, objVars, monVars, apiVars, cliVars, kernVars, histVars
<1>1. /\ wpc = "load" /\ wpc' = "send" /\ sendFd' = sock[client]
      /\ UNCHANGED <<active, fd, sock, owner>>
      /\ UNCHANGED <<snapshot, left, client, pollFd, tries, written, result, writes, got>>
  BY DEF WriteLoad
<1>2. client \in Clients
  BY <1>1 DEF TurnShape, InTurn, WTypeOK
<1>3. sock[client] # None => owner[sock[client]] = client
  BY <1>2 DEF Ownership, Descriptors
<1>4. WTypeOK'
  BY <1>1, <1>2 DEF WTypeOK, TypeInv, TypeOK
<1>5. TurnShape' /\ SeenAccepted' /\ FiniteLists'
  BY <1>1 DEF TurnShape, InTurn, SeenAccepted, FiniteLists
<1>6. Aimed' /\ Amounts'
  BY <1>1, <1>3 DEF Aimed, Amounts, InTurn
<1> QED BY <1>4, <1>5, <1>6

\* The references go.
LEMMA ReturnKeeps ==
  ASSUME WriteInv, WriteReturn
  PROVE  WriteInv'
<1> USE WriteAssumption DEF WriteInv, WriteReturn, vars, objVars, monVars, apiVars, cliVars, kernVars, histVars
<1>1. WTypeOK' /\ TurnShape'
  BY DEF WTypeOK, TurnShape, InTurn
<1>2. SeenAccepted' /\ FiniteLists' /\ Amounts'
  BY DEF SeenAccepted, FiniteLists, Amounts, InTurn
<1>3. Aimed'
  BY DEF Aimed, TurnShape
<1> QED BY <1>1, <1>2, <1>3

\* What send() may do: pass bytes on to one connection and go on or end the turn,
\* or end the turn with nothing sent.
LEMMA SendOutcomes ==
  ASSUME WriteSend
  PROVE  \/ /\ Target \in Clients /\ sendFd # None
            /\ \E n \in 1..Size - written :
                 /\ got' = [got EXCEPT ![Target] = @ + n]
                 /\ written' = written + n
                 /\ \/ written + n >= Size /\ wpc' = "pick" /\ result' = "SUCCESS"
                    \/ ~(written + n >= Size) /\ wpc' = "wait" /\ result' = result
         \/ /\ wpc' = "pick" /\ UNCHANGED <<written, got>>
            /\ result' \in {"SOCKET_CONNECTION_NEED_TO_BE_BLOCKED",
                            "SOCKET_CONNECTION_BAD_DESCRIPTOR", "UNKNOWN_ERROR"}
<1>1. CASE Sendable /\ \E n \in 1..Size - written :
             /\ got' = [got EXCEPT ![Target] = @ + n]
             /\ written' = written + n
             /\ IF written + n >= Size THEN EndTurn("SUCCESS")
                                       ELSE wpc' = "wait" /\ result' = result
  <2>1. Target \in Clients /\ sendFd # None
    BY <1>1, NullAssumption DEF Sendable, Target
  <2>2. PICK n \in 1..Size - written :
             /\ got' = [got EXCEPT ![Target] = @ + n]
             /\ written' = written + n
             /\ IF written + n >= Size THEN EndTurn("SUCCESS")
                                       ELSE wpc' = "wait" /\ result' = result
    BY <1>1
  <2>3. \/ written + n >= Size /\ wpc' = "pick" /\ result' = "SUCCESS"
        \/ ~(written + n >= Size) /\ wpc' = "wait" /\ result' = result
    BY <2>2, Zenon DEF EndTurn
  <2> QED BY <2>1, <2>2, <2>3, Zenon
<1>2. CASE /\ UNCHANGED <<written, got>>
           /\ \/ EndTurn("SOCKET_CONNECTION_NEED_TO_BE_BLOCKED")
              \/ EndTurn(IF Target = None THEN "SOCKET_CONNECTION_BAD_DESCRIPTOR"
                                          ELSE "UNKNOWN_ERROR")
  BY <1>2 DEF EndTurn
<1> QED BY <1>1, <1>2, Zenon DEF WriteSend

\* The bytes of one send() arrive at one connection, and the books stay right
\* wherever they arrive.
LEMMA SendKeeps ==
  ASSUME TypeInv, Ownership, WriteInv, WriteSend
  PROVE  WriteInv'
<1> USE WriteAssumption DEF WriteInv, vars, objVars, monVars, apiVars, cliVars, kernVars, histVars
<1>1. /\ wpc = "send" /\ sendFd' = None
      /\ UNCHANGED <<active, fd, sock, owner>>
      /\ UNCHANGED <<snapshot, left, client, pollFd, tries, writes>>
  BY DEF WriteSend
<1>2. /\ client \in Clients /\ client \in snapshot /\ client \notin left
      /\ written < Size /\ tries < MaxRetries /\ left \subseteq snapshot /\ snapshot \subseteq Clients
      /\ written \in Nat /\ Size \in Nat
  BY <1>1 DEF TurnShape, InTurn, WTypeOK
<1>3. FiniteLists' /\ (wpc' # "send" => Aimed')
  BY <1>1 DEF FiniteLists, Aimed
<1>4. CASE /\ wpc' = "pick" /\ UNCHANGED <<written, got>>
           /\ result' \in {"SOCKET_CONNECTION_NEED_TO_BE_BLOCKED",
                           "SOCKET_CONNECTION_BAD_DESCRIPTOR", "UNKNOWN_ERROR"}
  <2>1. WTypeOK'
    BY <1>1, <1>4 DEF WTypeOK
  <2>2. TurnShape' /\ SeenAccepted' /\ Amounts'
    BY <1>1, <1>4 DEF TurnShape, InTurn, SeenAccepted, Amounts
  <2> QED BY <1>3, <1>4, <2>1, <2>2
<1>5. ASSUME Target \in Clients, sendFd # None, NEW n \in 1..Size - written,
             got' = [got EXCEPT ![Target] = @ + n], written' = written + n,
             \/ written + n >= Size /\ wpc' = "pick" /\ result' = "SUCCESS"
             \/ ~(written + n >= Size) /\ wpc' = "wait" /\ result' = result
      PROVE  WriteInv'
  <2>1. PICK d \in Clients : d = Target
    BY <1>5
  <2>2. d = owner[sendFd] /\ sendFd \in Fds
    BY <1>5, <2>1 DEF Target, WTypeOK
  <2>3. fd[d] # None /\ sock[d] = sendFd
    BY <1>5, <2>1, <2>2 DEF Ownership, Descriptors
  <2>4. d = client \/ (d \notin snapshot /\ got[d] = 0)
    BY <1>5, <2>1, <2>2 DEF Aimed
  <2>5. \A c \in Clients : got[c] \in Nat /\ got[c] <= Size
    BY GotNat DEF Amounts
  <2>6. n \in Nat /\ n >= 1 /\ written + n <= Size
    BY <1>2, <1>5
  <2>7. got[client] <= written /\ (sock[client] # None => got[client] = written)
    BY <1>1 DEF Amounts, InTurn
  <2>8. got' = [got EXCEPT ![d] = got[d] + n]
    BY <1>5, <2>1
  <2>9. got \in [Clients -> Nat]
    BY <2>5 DEF WTypeOK
  <2>10. \A c \in Clients : got'[c] = IF c = d THEN got[d] + n ELSE got[c]
    BY <2>8, <2>9
  <2>11. got[d] + n \in Nat /\ got[d] + n <= Size
    BY <1>2, <2>4, <2>5, <2>6, <2>7
  <2>12. got' \in [Clients -> 0..2 * Size]
    <3>1. got[d] + n \in 0..2 * Size
      BY <1>2, <2>11
    <3> QED BY <2>8, <3>1 DEF WTypeOK
  <2>13. WTypeOK'
    BY <1>1, <1>2, <1>5, <2>6, <2>12 DEF WTypeOK
  <2>14. TurnShape'
    BY <1>1, <1>2, <1>5, <2>6 DEF TurnShape, InTurn
  <2>15. SeenAccepted'
    BY <1>1, <2>3, <2>10 DEF SeenAccepted
  <2>16. Amounts'
    <3>1. \A c \in left : got'[c] = 0
      BY <1>2, <2>4, <2>10 DEF Amounts
    <3>2. \A c \in Clients : got'[c] <= Size
      BY <2>5, <2>10, <2>11
    <3>3. got'[client] <= written'
      BY <1>2, <1>5, <2>4, <2>5, <2>6, <2>7, <2>10
    <3>4. sock[client] # None => got'[client] = written'
      <4>1. sock[client] # None => d = client
        BY <1>1, <1>2, <2>2 DEF Aimed, Ownership, Descriptors
      <4> QED BY <1>2, <1>5, <2>7, <2>10, <4>1
    <3> QED BY <1>1, <3>1, <3>2, <3>3, <3>4 DEF Amounts
  <2> QED BY <1>3, <1>5, <2>13, <2>14, <2>15, <2>16
<1> QED BY <1>4, <1>5, SendOutcomes

------------------------------------------------------------------------------
(* The theorems *)

\* Every step of the server and of write() preserves the invariant of write().
LEMMA WriteInvStep ==
  ASSUME TypeInv, Ownership, WriteInv, [WNext]_wvars
  PROVE  WriteInv'
<1>1. CASE Next /\ UNCHANGED writeVars
  BY <1>1, MeanwhileKeeps
<1>2. CASE UNCHANGED wvars
  BY <1>2, MeanwhileKeeps DEF wvars
<1>3. CASE WriteCall
  BY <1>3, CallKeeps
<1>4. CASE WriteStep
  BY <1>4, PickKeeps, WaitKeeps, LoadKeeps, SendKeeps, ReturnKeeps DEF WriteStep
<1> QED BY <1>1, <1>2, <1>3, <1>4 DEF WNext

\* The invariant of write() together with that of the server.
THEOREM WriteInvariant == WSpec => [](TypeInv /\ Ownership /\ WriteInv)
<1>1. WInit => WriteInv
  <2> SUFFICES ASSUME WInit PROVE WriteInv
    OBVIOUS
  <2> USE WriteAssumption DEF WInit, Init
  <2>1. WTypeOK /\ TurnShape
    BY DEF WTypeOK, TurnShape, InTurn
  <2>2. SeenAccepted /\ Aimed /\ Amounts
    BY DEF SeenAccepted, Aimed, Amounts, InTurn
  <2>3. FiniteLists
    BY FS_EmptySet DEF FiniteLists
  <2> QED BY <2>1, <2>2, <2>3 DEF WriteInv
<1>2. TypeInv /\ Ownership /\ WriteInv /\ [WNext]_wvars => WriteInv'
  BY WriteInvStep
<1>3. WSpec => [](TypeInv /\ Ownership)
  BY WriteLeavesServer, OwnershipInvariant, PTL
<1> QED BY <1>1, <1>2, <1>3, PTL DEF WSpec

\* write()'s variables keep their types; in particular the retry counter and
\* written_size stay within their bounds.
THEOREM WriteTypeCorrect == WSpec => []WTypeOK
<1>1. WriteInv => WTypeOK
  BY DEF WriteInv
<1> QED BY <1>1, WriteInvariant, PTL

\* While the client of the turn is connected it has received exactly what
\* written_size says, although descriptors are closed and reused meanwhile.
THEOREM WrittenIsReceived == WSpec => []WrittenReceived
<1>1. WriteInv => WrittenReceived
  BY DEF WriteInv, Amounts, InTurn, WrittenReceived
<1> QED BY <1>1, WriteInvariant, PTL

\* No client of the broadcast receives bytes in another client's turn.
THEOREM DeliveryInTurn == WSpec => DeliveredInTurn
<1> DEFINE Step == \A c \in snapshot : got'[c] # got[c] => wpc = "send" /\ c = client
<1>1. WriteInv /\ [WNext]_wvars => [Step]_wvars
  <2> SUFFICES ASSUME WriteInv, WNext, NEW c \in snapshot, got'[c] # got[c]
               PROVE  wpc = "send" /\ c = client
    OBVIOUS
  <2>1. c \in Clients /\ wpc # "idle"
    BY DEF WriteInv, WTypeOK, TurnShape
  <2>2. WriteSend
    BY <2>1 DEF WNext, WriteStep, WriteCall, WritePick, WriteWait, WriteLoad, WriteReturn,
       writeVars
  <2>3. Target \in Clients /\ sendFd # None /\ \E n : got' = [got EXCEPT ![Target] = @ + n]
    BY <2>2, SendOutcomes
  <2>4. c = Target
    BY <2>1, <2>3 DEF WriteInv, WTypeOK
  <2> QED BY <2>2, <2>3, <2>4 DEF WriteSend, WriteInv, Aimed, Target
<1> QED BY <1>1, WriteInvariant, PTL DEF WSpec, DeliveredInTurn

\* The work of a turn that has yet to begin, and the work write() has left by its
\* position in the loop.
TurnWork == 4 + 3 * (Size + MaxRetries)
Remaining == 3 * ((Size - written) + (MaxRetries - tries))
WorkByPosition ==
  /\ Cardinality(left) \in Nat
  /\ wpc \in {"idle", "pick"} => WorkLeft = Cardinality(left) * TurnWork
  /\ wpc = "wait" => WorkLeft = 3 + Remaining + Cardinality(left) * TurnWork
  /\ wpc = "load" => WorkLeft = 2 + Remaining + Cardinality(left) * TurnWork
  /\ wpc = "send" => WorkLeft = 1 + Remaining + Cardinality(left) * TurnWork

\* WorkLeft, spelled out.
LEMMA WorkIs == WriteInv => WorkByPosition
<1> SUFFICES ASSUME WriteInv PROVE WorkByPosition
  OBVIOUS
<1>1. TurnWork \in Nat
  BY WriteAssumption DEF TurnWork
<1>2. Cardinality(left) \in Nat
  BY FS_CardinalityType DEF WriteInv, FiniteLists
<1>3. Cardinality(left) * TurnWork \in Nat
  BY <1>1, <1>2
<1>4. ASSUME wpc \in {"idle", "pick"} PROVE WorkLeft = Cardinality(left) * TurnWork
  <2>1. WorkLeft = 0 + Cardinality(left) * TurnWork
    BY <1>4 DEF WorkLeft, TurnWork
  <2> QED BY <1>3, <2>1
<1>5. ASSUME wpc = "wait" PROVE WorkLeft = 3 + Remaining + Cardinality(left) * TurnWork
  BY <1>5 DEF WorkLeft, TurnWork, Remaining
<1>6. ASSUME wpc = "load" PROVE WorkLeft = 2 + Remaining + Cardinality(left) * TurnWork
  BY <1>6 DEF WorkLeft, TurnWork, Remaining
<1>7. ASSUME wpc = "send" PROVE WorkLeft = 1 + Remaining + Cardinality(left) * TurnWork
  BY <1>7 DEF WorkLeft, TurnWork, Remaining
<1> QED BY <1>2, <1>4, <1>5, <1>6, <1>7 DEF WorkByPosition

\* A step of write() that does not return leaves less to do.
LEMMA LessWork ==
  ASSUME WriteInv, WriteInv', WorkByPosition, WorkByPosition', WriteStep, wpc' # "idle"
  PROVE  WorkLeft' < WorkLeft
<1> USE WriteAssumption
<1>1. /\ TurnWork \in Nat /\ Cardinality(left) \in Nat /\ Cardinality(left)' \in Nat
      /\ Cardinality(left) * TurnWork \in Nat /\ Cardinality(left)' * TurnWork \in Nat
  BY DEF TurnWork, WorkByPosition
<1>2. /\ written \in Nat /\ tries \in Nat /\ written <= Size /\ tries <= MaxRetries
      /\ written' \in Nat /\ tries' \in Nat /\ written' <= Size /\ tries' <= MaxRetries
  BY DEF WriteInv, WTypeOK
<1>3. CASE WritePick
  <2>1. PICK c \in left : left' = left \ {c}
    BY <1>3 DEF WritePick
  <2>2. Cardinality(left') = Cardinality(left) - 1
    BY <2>1, FS_RemoveElement DEF WriteInv, FiniteLists
  <2>3. Cardinality(left)' * TurnWork = Cardinality(left) * TurnWork - TurnWork
    BY <1>1, <2>2
  <2>4. WorkLeft' = 3 + Remaining' + Cardinality(left)' * TurnWork
        /\ WorkLeft = Cardinality(left) * TurnWork
    BY <1>3 DEF WorkByPosition, WritePick, TurnWork
  <2>5. Remaining' = 3 * (Size + MaxRetries)
    BY <1>3 DEF WritePick, Remaining
  <2> QED BY <1>1, <2>3, <2>4, <2>5 DEF TurnWork
<1>4. ASSUME left' = left, WriteWait \/ WriteLoad \/ WriteSend PROVE WorkLeft' < WorkLeft
  <2> DEFINE L == Cardinality(left) * TurnWork
  <2>1. L \in Nat /\ Cardinality(left)' * TurnWork = L
    BY <1>1, <1>4
  <2>2. Remaining \in Nat /\ Remaining' \in Nat
    <3>1. \A m, n \in Nat : m <= n => n - m \in Nat
      OBVIOUS
    <3>2. Size \in Nat /\ MaxRetries \in Nat
      OBVIOUS
    <3>3. /\ Size - written \in Nat /\ MaxRetries - tries \in Nat
          /\ Size - written' \in Nat /\ MaxRetries - tries' \in Nat
      BY <1>2, <3>1, <3>2, Zenon
    <3> QED BY <3>3 DEF Remaining
  <2>3. /\ wpc' = "pick" => WorkLeft' = L
        /\ wpc' = "wait" => WorkLeft' = 3 + Remaining' + L
        /\ wpc' = "load" => WorkLeft' = 2 + Remaining' + L
        /\ wpc' = "send" => WorkLeft' = 1 + Remaining' + L
    BY <2>1 DEF WorkByPosition, TurnWork
  <2>4. /\ wpc = "wait" => WorkLeft = 3 + Remaining + L
        /\ wpc = "load" => WorkLeft = 2 + Remaining + L
        /\ wpc = "send" => WorkLeft = 1 + Remaining + L
    BY DEF WorkByPosition
  <2> HIDE DEF L
  <2>5. CASE WriteWait
    <3>1. /\ wpc = "wait" /\ written' = written
          /\ wpc' = "pick" \/ (wpc' = "load" /\ tries' = tries) \/ (wpc' = "wait" /\ tries' = tries + 1)
      BY <2>5, WaitAdvances DEF WriteWait
    <3> QED BY <1>2, <2>1, <2>2, <2>3, <2>4, <3>1 DEF Remaining
  <2>6. CASE WriteLoad
    BY <1>2, <2>1, <2>2, <2>3, <2>4, <2>6 DEF WriteLoad, Remaining
  <2>7. CASE WriteSend
    <3>1. wpc = "send" /\ tries' = tries
      BY <2>7 DEF WriteSend
    <3>2. wpc' = "pick" \/ (wpc' = "wait" /\ \E n \in 1..Size - written : written' = written + n)
      BY <2>7, SendOutcomes
    <3> QED BY <1>2, <2>1, <2>2, <2>3, <2>4, <3>1, <3>2 DEF Remaining
  <2> QED BY <1>4, <2>5, <2>6, <2>7
<1>5. WriteWait \/ WriteLoad \/ WriteSend => left' = left
  BY DEF WriteWait, WriteLoad, WriteSend
<1> QED BY <1>3, <1>4, <1>5 DEF WriteStep, WriteReturn

\* write() always returns after a bounded number of its own steps, whatever the
\* peers and the other threads do.
THEOREM WriteMakesProgress == WSpec => WriteProgress
<1> DEFINE Step == wpc # "idle" /\ writeVars' # writeVars => wpc' = "idle" \/ WorkLeft' < WorkLeft
<1>1. WriteInv /\ WriteInv' /\ WorkByPosition /\ WorkByPosition' /\ [WNext]_wvars => [Step]_wvars
  BY LessWork DEF WNext, WriteCall
<1> QED BY <1>1, WorkIs, WriteInvariant, PTL DEF WSpec, WriteProgress
==============================================================================
