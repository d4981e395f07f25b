---------------------------- MODULE BroadcastWrite ----------------------------
(***************************************************************************)
(* SocketBroadcastServerImpl::write (SocketBroadcastServer.cpp): a thread  *)
(* of the application sends a buffer to every active client while the      *)
(* monitor and the other threads of BroadcastServer accept, disconnect and *)
(* close.  write() copies the list under the mutex and then runs without   *)
(* any lock; it changes nothing of the server's state, so a step of the    *)
(* system is a step of BroadcastServer or a step of write().               *)
(*                                                                         *)
(* The descriptor is read from the socket object in one step and used by   *)
(* send() in the next: nothing keeps another thread from closing it, or    *)
(* the kernel from reusing it, in between.                                 *)
(***************************************************************************)
EXTENDS BroadcastServer, FiniteSets

CONSTANTS
  Size,          \* size argument of write()
  MaxRetries,    \* _configuration.max_retries()
  MaxWrites      \* bound on the calls of write()

ASSUME WriteAssumption == Size \in Nat \ {0} /\ MaxRetries \in Nat \ {0} /\ MaxWrites \in Nat

VARIABLES
  wpc,           \* position in write(), "idle" outside
  snapshot,      \* the copy of _active_clients
  left,          \* clients of the snapshot the loop has not reached
  client,        \* the client of the current turn
  pollFd,        \* the descriptor in its SocketEventListener
  sendFd,        \* the descriptor loaded for send()
  tries,         \* the retry counter i
  written,       \* written_size
  result,        \* the code of the last client's result
  writes,        \* number of write() calls
  got            \* bytes each connection received from the current write()

turnVars  == <<client, pollFd, sendFd, tries, written>>
writeVars == <<wpc, snapshot, left, turnVars, result, writes, got>>

WInit ==
  /\ Init
  /\ wpc = "idle" /\ snapshot = {} /\ left = {}
  /\ client = None /\ pollFd = None /\ sendFd = None /\ tries = 0 /\ written = 0
  /\ result = "SUCCESS" /\ writes = 0
  /\ got = [c \in Clients |-> 0]

------------------------------------------------------------------------------

\* The snapshot.  An empty one is a success.
WriteCall ==
  /\ wpc = "idle" /\ writes < MaxWrites /\ mtx = None
  /\ writes' = writes + 1
  /\ snapshot' = active /\ left' = active
  /\ result' = "SUCCESS"
  /\ got' = [c \in Clients |-> 0]
  /\ wpc' = IF active = {} THEN "idle" ELSE "pick"
  /\ UNCHANGED <<vars, turnVars>>

\* A turn of the loop begins: the listener copies the descriptor.
WritePick ==
  /\ wpc = "pick" /\ left # {}
  /\ \E c \in left :
       /\ client' = c
       /\ left' = left \ {c}
       /\ pollFd' = sock[c]
  /\ tries' = 0 /\ written' = 0
  /\ wpc' = "wait"
  /\ UNCHANGED <<vars, snapshot, sendFd, result, writes, got>>

\* A turn ends; its result replaces that of the turns before.
EndTurn(code) == wpc' = "pick" /\ result' = code

\* SocketEventListener::wait for POLLOUT on the copied descriptor, from what it
\* is NOW.  A negative one is never ready; one that was closed is POLLNVAL, which
\* wait() takes for success.  poll() itself may fail.
WaitOut ==
  (IF PollFails THEN {"SOCKET_EVENT_ERROR"} ELSE {}) \cup
  CASE pollFd = None          -> {"SOCKET_TIMEOUT"}
    [] pollFd # None /\ owner[pollFd] = None   -> {"SUCCESS"}
    [] pollFd # None /\ owner[pollFd] = Server ->
         {IF pollFd \in listening THEN "SOCKET_TIMEOUT" ELSE "SOCKET_CLOSED"}
    [] OTHER -> CASE peer[owner[pollFd]] = "reset" -> {"UNKNOWN_ERROR", "SOCKET_CLOSED"}
                  [] peer[owner[pollFd]] = "fin" /\ UnixDomain -> {"SOCKET_CLOSED"}
                  [] OTHER -> {"SUCCESS", "SOCKET_TIMEOUT"}

\* Mutant: the retry counter runs past its bound.
WriteWaitUnbounded ==
  /\ wpc = "wait"
  /\ \E r \in WaitOut :
       CASE r = "SUCCESS"        -> wpc' = "load" /\ UNCHANGED <<tries, result>>
         [] r = "SOCKET_TIMEOUT" -> /\ tries' = tries + 1
                                    /\ IF tries < MaxRetries THEN UNCHANGED <<wpc, result>>
                                                             ELSE EndTurn("SUCCESS")
         [] OTHER                -> EndTurn(r) /\ UNCHANGED tries
  /\ UNCHANGED <<vars, snapshot, left, client, pollFd, sendFd, written, writes, got>>

\* When the retries are used up the turn ends with its initial result, SUCCESS.
WriteWait ==
  /\ wpc = "wait"
  /\ \E r \in WaitOut :
       CASE r = "SUCCESS"        -> wpc' = "load" /\ UNCHANGED <<tries, result>>
         [] r = "SOCKET_TIMEOUT" -> /\ tries' = tries + 1
                                    /\ IF tries + 1 < MaxRetries THEN UNCHANGED <<wpc, result>>
                                                                 ELSE EndTurn("SUCCESS")
         [] OTHER                -> EndTurn(r) /\ UNCHANGED tries
  /\ UNCHANGED <<vars, snapshot, left, client, pollFd, sendFd, written, writes, got>>

\* Mutant: the socket of a different element of the snapshot.
WriteLoadOther ==
  /\ wpc = "load" /\ wpc' = "send"
  /\ \E c \in snapshot : sendFd' = sock[c]
  /\ UNCHANGED <<vars, snapshot, left, client, pollFd, tries, written, result, writes, got>>

\* ServerActiveSocket::write reads _socket ...
WriteLoad ==
  /\ wpc = "load" /\ wpc' = "send"
  /\ sendFd' = sock[client]
  /\ UNCHANGED <<vars, snapshot, left, client, pollFd, tries, written, result, writes, got>>

\* The connection behind the loaded descriptor, None if there is none.  A reset
\* one takes no bytes, nor does a unix-domain one whose peer has closed; TCP takes
\* them after a FIN.
Target == IF sendFd = None THEN None ELSE owner[sendFd]
Sendable ==
  /\ Target \in Clients
  /\ peer[Target] # "reset" /\ (UnixDomain => peer[Target] # "fin")

\* Mutant: the offset is not advanced after a partial send().
WriteSendAgain ==
  /\ wpc = "send"
  /\ sendFd' = None
  /\ \/ /\ Sendable
        /\ \E n \in 1..Size :
             /\ got' = [got EXCEPT ![Target] = @ + n]
             /\ written' = n
             /\ IF n >= Size THEN EndTurn("SUCCESS") ELSE wpc' = "wait" /\ result' = result
     \/ /\ ~Sendable
        /\ EndTurn("UNKNOWN_ERROR") /\ UNCHANGED <<written, got>>
  /\ UNCHANGED <<vars, snapshot, left, client, pollFd, tries, writes>>

\* Mutant: a full socket is tried again, uncounted.
WriteSendRetries ==
  /\ wpc = "send"
  /\ sendFd' = None
  /\ \/ /\ Sendable
        /\ \E n \in 1..Size - written :
             /\ got' = [got EXCEPT ![Target] = @ + n]
             /\ written' = written + n
             /\ IF written + n >= Size THEN EndTurn("SUCCESS")
                                       ELSE wpc' = "wait" /\ result' = result
     \/ /\ Sendable
        /\ wpc' = "wait" /\ UNCHANGED <<result, written, got>>
     \/ /\ ~Sendable
        /\ EndTurn("UNKNOWN_ERROR") /\ UNCHANGED <<written, got>>
  /\ UNCHANGED <<vars, snapshot, left, client, pollFd, tries, writes>>

\* ... and sends what is left to whatever the number means by then.  Part of it is
\* taken, the non-blocking socket is full, or the call fails (EBADF, EPIPE).
WriteSend ==
  /\ wpc = "send"
  /\ sendFd' = None
  /\ \/ /\ Sendable
        /\ \E n \in 1..Size - written :
             /\ got' = [got EXCEPT ![Target] = @ + n]
             /\ written' = written + n
             /\ IF written + n >= Size THEN EndTurn("SUCCESS")
                                       ELSE wpc' = "wait" /\ result' = result
     \/ /\ Sendable
        /\ EndTurn("SOCKET_CONNECTION_NEED_TO_BE_BLOCKED") /\ UNCHANGED <<written, got>>
     \/ /\ ~Sendable
        /\ EndTurn(IF Target = None THEN "SOCKET_CONNECTION_BAD_DESCRIPTOR" ELSE "UNKNOWN_ERROR")
        /\ UNCHANGED <<written, got>>
  /\ UNCHANGED <<vars, snapshot, left, client, pollFd, tries, writes>>

\* The loop is over: the references go, the last result is returned.
WriteReturn ==
  /\ wpc = "pick" /\ left = {}
  /\ wpc' = "idle" /\ snapshot' = {}
  /\ client' = None /\ pollFd' = None /\ tries' = 0 /\ written' = 0
  /\ UNCHANGED <<vars, left, sendFd, result, writes, got>>

WriteStep == WritePick \/ WriteWait \/ WriteLoad \/ WriteSend \/ WriteReturn

WNext == (Next /\ UNCHANGED writeVars) \/ WriteCall \/ WriteStep

wvars == <<vars, writeVars>>
WSpec == WInit /\ [][WNext]_wvars

------------------------------------------------------------------------------
(* Properties *)

\* The values of write()'s variables stay in their ranges.
WTypeOK ==
  /\ wpc \in {"idle", "pick", "wait", "load", "send"}
  /\ snapshot \subseteq Clients /\ left \subseteq snapshot /\ client \in Clients \cup {None}
  /\ pollFd \in Fds \cup {None} /\ sendFd \in Fds \cup {None}
  /\ tries \in 0..MaxRetries /\ written \in 0..Size /\ writes \in 0..MaxWrites
  /\ result \in {"SUCCESS", "SOCKET_CLOSED", "SOCKET_EVENT_ERROR", "UNKNOWN_ERROR",
                 "SOCKET_CONNECTION_BAD_DESCRIPTOR", "SOCKET_CONNECTION_NEED_TO_BE_BLOCKED"}
  /\ got \in [Clients -> 0..2 * Size]

\* A client of the broadcast receives bytes only in its own turn, whatever is
\* closed and accepted meanwhile: no other client's part ends up in its stream.
DeliveredInTurn ==
  [][\A c \in snapshot : got'[c] # got[c] => wpc = "send" /\ c = client]_wvars

\* As long as the client of the turn is connected, written_size is what it has
\* received: the next piece starts where the last one ended.
WrittenReceived ==
  wpc \in {"wait", "load", "send"} /\ sock[client] # None => written = got[client]

\* Only the clients of the snapshot receive anything ("Fix data race ... between
\* the accept-monitor thread and the broadcast caller"): a client that connects
\* during a broadcast does not get the rest of somebody else's message.
OnlySnapshotReceives ==
  wpc # "idle" => \A c \in Clients : got[c] > 0 => c \in snapshot

\* What write() has left to do: clients, and within a turn bytes, retries and the
\* steps of one attempt.
WorkLeft ==
  LET attempt == [wait |-> 3, load |-> 2, send |-> 1]
      turn == IF wpc \in DOMAIN attempt
              THEN attempt[wpc] + 3 * ((Size - written) + (MaxRetries - tries)) ELSE 0
  IN  turn + Cardinality(left) * (4 + 3 * (Size + MaxRetries))

\* write() returns, whatever the peers and the other threads do: every step it
\* takes leaves less to do, because a wait that brings nothing is counted, a
\* send makes progress or ends the turn, and the snapshot does not grow.
WriteProgress ==
  [][wpc # "idle" /\ writeVars' # writeVars => wpc' = "idle" \/ WorkLeft' < WorkLeft]_wvars
==============================================================================
