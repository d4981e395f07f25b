----------------------------- MODULE SocketClient -----------------------------
(***************************************************************************)
(* SocketClientImpl (SocketClient.cpp) over a plain or a TLS socket        *)
(* (ClientActiveSocket.cpp) and the one-descriptor SocketEventListener     *)
(* (SocketEvent_Linux.cpp): connect() with its three retry loops, read()   *)
(* and write() with theirs, and the result codes they return.              *)
(*                                                                         *)
(* One step is one system call, or one call of the TLS library, with the   *)
(* tests of its result.  The server, the network and the TLS library are   *)
(* external.  The handshake is a number of messages of the server; after   *)
(* the last of them the client is done, but with TLS 1.3 the server may    *)
(* still reject the client's certificate.  A data record is RecordSize     *)
(* bytes; a TLS library takes it off the socket whole, the kernel serves   *)
(* it byte by byte.                                                        *)
(***************************************************************************)
EXTENDS Integers, Sequences, FiniteSetsExt, TLSConfiguration

CONSTANTS
  Setups,        \* the clients and servers considered: see SetupsAssumption
  MaxRetries,    \* _configuration.max_retries()
  Flights,       \* messages of the server that complete the handshake
  Size,          \* size argument of write()
  ReadSize,      \* size argument of read()
  RecordSize,    \* bytes of one record of the server
  Word,          \* size_t arithmetic is modulo this
  SendBuffer,    \* bytes the kernel takes before the server reads some
  MaxBlocks,     \* bound on sends that return EWOULDBLOCK / SSL_ERROR_WANT_WRITE
  MaxRecords,    \* bound on the data records of the server
  MaxCalls       \* bound on the calls of read() and write() together

\* The configuration of the client; whether the library was built with TLS
\* (SECURITYSOCKET_TLS); whether the server's name resolves; the server.
ASSUME SetupsAssumption ==
  \A s \in Setups :
    /\ s.cfg \in ConfigurationType /\ {s.built, s.resolved} \subseteq BOOLEAN
    /\ s.server.versions \subseteq SocketTLSVersion
    /\ s.server.suites \subseteq Range(TLS12Suites) \cup Range(TLS13Suites)
    /\ s.server.cert \in {"valid", "invalid", "mismatch"}
ASSUME CountsAssumption ==
  /\ {MaxRetries, Flights, Size, ReadSize, RecordSize, SendBuffer} \subseteq Nat \ {0}
  /\ Word \in Nat /\ Size + 1 < Word /\ {MaxRecords, MaxCalls, MaxBlocks} \subseteq Nat

VARIABLES
  setup,         \* the client's configuration, the build and the server: constant
  \* SocketClientImpl
  cpc,           \* position in the operation, "idle" outside
  i,             \* the retry counter of the current loop
  code,          \* result.code()
  written,       \* written_size
  calls,         \* number of read() and write() calls
  \* the transport
  link,          \* the client's socket
  inq,           \* records that arrived and were not read
  held,          \* bytes of the front data record taken apart and not read
  inflight,      \* bytes sent and not read by the server
  seen,          \* handshake messages the TLS library has consumed
  \* the server
  answered,      \* handshake messages (and tickets) it has sent
  alert,         \* the fatal alert it has sent, or "none"
  records,       \* data records it has sent
  \* history
  refusal,       \* why the server sent the alert
  blocks,        \* number of sends that would have blocked
  sent           \* bytes the transport took in the current write()

cliVars  == <<cpc, i, code, written, calls>>
sockVars == <<link, inq, held, inflight, seen>>
srvVars  == <<answered, alert, records>>
histVars == <<refusal, blocks, sent>>
vars == <<setup, cliVars, sockVars, srvVars, histVars>>

cfg    == setup.cfg
server == setup.server

\* Is the socket a TLSClientActiveSocket?
tls == Valid(cfg)

version == NegotiatedVersion(cfg, server)

\* SSL_get_verify_result() is not X509_V_OK.  The name in the certificate counts
\* only if the constructor kept the host for SSL_set1_host().
VerifyFails == server.cert = "invalid" \/ (server.cert = "mismatch" /\ cfg.verifyHostname)

\* SSL_VERIFY_PEER is set and the server's certificate does not pass.
BadServer == cfg.verifyServer /\ VerifyFails

\* SSL_CTX_new() of a build without SECURITYSOCKET_TLS returns null.
HasTLSLibrary == setup.built

\* SocketAddress::SocketAddress filled in an address.
HasAddress == setup.resolved

Init ==
  /\ setup \in Setups
  /\ cpc = "idle" /\ i = 0 /\ code = "SUCCESS" /\ written = 0 /\ calls = 0
  /\ link = "null" /\ inq = <<>> /\ held = 0 /\ inflight = 0 /\ seen = 0
  /\ answered = 0 /\ alert = "none" /\ records = 0
  /\ refusal = "none" /\ blocks = 0 /\ sent = 0

------------------------------------------------------------------------------
(* Result codes (SocketResult.hpp) *)

Codes ==
  {"SUCCESS", "SOCKET_TIMEOUT", "SOCKET_CLOSED", "UNKNOWN_ERROR", "SOCKET_CANNOT_CREATED",
   "SOCKET_INVALID_ARGUMENT", "SOCKET_EVENT_ERROR", "TLS_SETFD_ERROR",
   "SOCKET_CONNECTION_IN_PROGRESS", "SOCKET_CONNECTION_UNREACHED", "SOCKET_ALREADY_CONNECTED",
   "SOCKET_CONNECTION_REFUSED", "SOCKET_CONNECTION_NEED_TO_BE_BLOCKED",
   "TLS_CONTEXT_INITIALIZATION_FAIL", "TLS_INITIALIZATION_FAIL",
   "TLS_VERSION_NOT_SUPPORTED", "TLS_CIPHER_SUITE_MISMATCH", "TLS_SERVER_CERT_INVALID",
   "TLS_CLIENT_CERT_REJECTED", "TLS_HOSTNAME_MISMATCH", "SSL_PROTOCOL_ERROR",
   "SSL_ERROR_CLOSED_BY_PEER"}

\* The codes that make connect() wait and try again.
Pending == {"SOCKET_CONNECTION_IN_PROGRESS", "SOCKET_CONNECTION_NEED_TO_BE_BLOCKED"}

\* createResultFromSocketError for the errors that occur here; the table has no
\* entry for ECONNRESET, ECONNABORTED and EPIPE.
SocketError(error) ==
  LET table == [EINVAL       |-> "SOCKET_INVALID_ARGUMENT",
                ECONNREFUSED |-> "SOCKET_CONNECTION_REFUSED",
                ENETUNREACH  |-> "SOCKET_CONNECTION_UNREACHED",
                EALREADY     |-> "SOCKET_ALREADY_CONNECTED",
                EINPROGRESS  |-> "SOCKET_CONNECTION_IN_PROGRESS",
                EWOULDBLOCK  |-> "SOCKET_CONNECTION_NEED_TO_BE_BLOCKED"]
  IN  IF error \in DOMAIN table THEN table[error] ELSE "UNKNOWN_ERROR"

\* The code for the reason on the error queue.  A handshake_failure means the
\* certificate once a cipher is agreed, that is after the first message.
AlertCode(n) ==
  CASE alert = "protocol_version"                       -> "TLS_VERSION_NOT_SUPPORTED"
    [] alert \in {"certificate_required", "unknown_ca"} -> "TLS_CLIENT_CERT_REJECTED"
    [] alert = "handshake_failure" /\ n > 0             -> "TLS_CLIENT_CERT_REJECTED"
    [] alert = "handshake_failure" /\ n = 0             -> "TLS_CIPHER_SUITE_MISMATCH"
    [] OTHER                                            -> "SSL_PROTOCOL_ERROR"

\* Mutant: the verification result counts although nobody asked for it.
CreateTLSResultBlind(error, n) ==
  LET bad == VerifyFails /\ n > 0
  IN  CASE error = "SSL" /\ bad /\ server.cert = "mismatch" -> "TLS_HOSTNAME_MISMATCH"
        [] error = "SSL" /\ bad /\ server.cert = "invalid"  -> "TLS_SERVER_CERT_INVALID"
        [] error = "SSL" /\ ~bad -> AlertCode(n)
        [] error = "WANT"        -> "SOCKET_CONNECTION_NEED_TO_BE_BLOCKED"
        [] error = "SYSCALL"     -> SocketError("ECONNRESET")
        [] error = "ZERO_RETURN" -> "SSL_ERROR_CLOSED_BY_PEER"

\* createTLSResult for a call that failed after n messages of the server: the
\* verification result first (known from the first message on), then the reason.
CreateTLSResult(error, n) ==
  LET bad == BadServer /\ n > 0
  IN  CASE error = "SSL" /\ bad /\ server.cert = "mismatch" -> "TLS_HOSTNAME_MISMATCH"
        [] error = "SSL" /\ bad /\ server.cert = "invalid"  -> "TLS_SERVER_CERT_INVALID"
        [] error = "SSL" /\ ~bad -> AlertCode(n)
        [] error = "WANT"        -> "SOCKET_CONNECTION_NEED_TO_BE_BLOCKED"
        [] error = "SYSCALL"     -> SocketError("ECONNRESET")
        [] error = "ZERO_RETURN" -> "SSL_ERROR_CLOSED_BY_PEER"

------------------------------------------------------------------------------
(* The socket: ClientActiveSocket, TLSClientActiveSocket and the listener.  *)
(* An operator with a parameter r is a call that returns the code r.        *)

Gone == {"fin", "reset", "hup"}

Front(kind) == inq # <<>> /\ Head(inq) = kind

\* The socket has bytes for recv(), or its end.  What the TLS library has taken
\* off the socket is not on the socket any more.
Readable == inq # <<>> \/ link = "fin" \/ (~tls /\ held > 0)

\* A pending error is reported once.
ErrorFetched ==
  link' = CASE link = "reset"   -> "hup"
            [] link = "refused" -> "aborted"
            [] OTHER            -> link

\* SocketEventListener::open
Interest(type) ==
  CASE type = "CONNECT" -> {"IN", "OUT"}
    [] type = "READ"    -> {"IN"}
    [] type = "WRITE"   -> {"OUT"}

\* poll() with the interest asked for has something to report.
Ready(type) ==
  \/ "IN" \in Interest(type) /\ Readable
  \/ "OUT" \in Interest(type) /\ inflight < SendBuffer

\* SocketEventListener::wait.  poll() itself may fail; POLLERR fetches SO_ERROR;
\* POLLHUP without it means closed; nothing within the time is a timeout.
Wait(type, r) ==
  \/ r = "SOCKET_EVENT_ERROR" /\ UNCHANGED link
  \/ /\ r = CASE link = "refused" -> SocketError("ECONNREFUSED")
              [] link = "reset"   -> SocketError("ECONNRESET")
              [] link = "hup"     -> "SOCKET_CLOSED"
              [] link \in {"up", "fin"} /\ Ready(type) -> "SUCCESS"
              [] OTHER            -> "SOCKET_TIMEOUT"
     /\ ErrorFetched

\* ::connect().  The first call starts the connection, which over a Unix-domain
\* socket is up at once; a call on one that is under way says EALREADY, on one
\* that has come up meanwhile 0, and on one that was refused or reset the pending
\* error, after which it can start again.  An address that was not found is
\* empty, which is an invalid argument.
SocketConnect(r) ==
  /\ \/ link = "new" /\ ~HasAddress /\ link' = "new" /\ r = SocketError("EINVAL")
     \/ link = "new" /\ HasAddress /\ link' = "connecting" /\ r = SocketError("EINPROGRESS")
     \/ link = "new" /\ HasAddress /\ link' = "up" /\ r = "SUCCESS"
     \/ link = "new" /\ HasAddress /\ link' = "new" /\ r = SocketError("ENETUNREACH")
     \/ link = "connecting" /\ link' = link /\ r = SocketError("EALREADY")
     \/ link = "refused" /\ link' = "new" /\ r = SocketError("ECONNREFUSED")
     \/ link = "aborted" /\ link' = "new" /\ r = SocketError("ECONNABORTED")
     \/ link \in {"reset", "hup"} /\ link' = "new" /\ r = SocketError("ECONNRESET")
     \/ link \in {"up", "fin"} /\ link' = link /\ r = "SUCCESS"
  /\ inq' = IF link' = "new" THEN <<>> ELSE inq

\* reconnect() of a plain socket has nothing to do.
PlainReconnect(r) == ~tls /\ r = "SUCCESS" /\ UNCHANGED <<link, inq, seen>>

\* reconnect(false).  SSL_set_fd() fails; or SSL_connect() takes the last
\* message, rejects the server's certificate, meets an alert or the end of the
\* connection, or waits for read_timeout in vain.
Reconnect(r) ==
  \/ PlainReconnect(r)
  \/ tls /\ r = "TLS_SETFD_ERROR" /\ UNCHANGED <<link, inq, seen>>
  \/ /\ tls /\ Front("msg") /\ (BadServer \/ seen + 1 = Flights)
     /\ r = IF BadServer THEN CreateTLSResult("SSL", seen + 1) ELSE "SUCCESS"
     /\ inq' = Tail(inq) /\ seen' = seen + 1 /\ UNCHANGED link
  \/ /\ tls /\ (Front("alert") \/ Front("close_notify"))
     /\ r = CreateTLSResult(IF Front("alert") THEN "SSL" ELSE "ZERO_RETURN", seen)
     /\ inq' = Tail(inq) /\ UNCHANGED <<link, seen>>
  \/ /\ tls /\ inq = <<>> /\ link = "up"
     /\ r = CreateTLSResult("WANT", seen)
     /\ UNCHANGED <<link, inq, seen>>
  \/ /\ tls /\ inq = <<>> /\ link \in Gone
     /\ r = CreateTLSResult("SYSCALL", seen) \/ (link = "fin" /\ r = CreateTLSResult("SSL", seen))
     /\ ErrorFetched /\ UNCHANGED <<inq, seen>>

\* postHandshakeProbe(): SSL_peek() takes a data record off the socket.  An error
\* that is not of the TLS library counts as success; whether the unannounced
\* end of the stream is one depends on the version of the library.
PostHandshakeProbe(r) ==
  \/ /\ Front("data") /\ r = "SUCCESS"
     /\ inq' = Tail(inq) /\ held' = RecordSize /\ UNCHANGED link
  \/ /\ Front("alert") \/ Front("close_notify")
     /\ r = CreateTLSResult(IF Front("alert") THEN "SSL" ELSE "ZERO_RETURN", seen)
     /\ inq' = Tail(inq) /\ UNCHANGED <<link, held>>
  \/ /\ inq = <<>> /\ link = "up"
     /\ r = "SOCKET_CONNECTION_NEED_TO_BE_BLOCKED"
     /\ UNCHANGED <<link, inq, held>>
  \/ /\ inq = <<>> /\ link \in Gone
     /\ r = "SUCCESS" \/ (link = "fin" /\ r = CreateTLSResult("SSL", seen))
     /\ ErrorFetched /\ UNCHANGED <<inq, held>>

\* recv() or SSL_read(): n bytes of the front record, the end of the stream, an
\* alert; or only a ticket, after which SSL_read() waits in vain.
SocketRead(r, n) ==
  LET data  == held > 0 \/ Front("data")
      front == IF held > 0 THEN held ELSE RecordSize
  IN  \/ /\ data /\ r = "SUCCESS" /\ n = Min({front, ReadSize})
         /\ held' = front - n
         /\ inq' = IF held > 0 THEN inq ELSE Tail(inq)
         /\ UNCHANGED link
      \/ /\ ~data /\ inq # <<>>
         /\ <<r, n>> = CASE Front("alert")        -> <<CreateTLSResult("SSL", seen), -1>>
                         [] Front("close_notify") -> <<CreateTLSResult("ZERO_RETURN", seen), 0>>
                         [] Front("msg")          -> <<CreateTLSResult("WANT", seen), -1>>
         /\ inq' = Tail(inq) /\ UNCHANGED <<link, held>>
      \/ /\ ~data /\ inq = <<>> /\ link = "fin"
         /\ \/ ~tls /\ <<r, n>> = <<"SOCKET_CLOSED", 0>>
            \/ tls /\ <<r, n>> = <<CreateTLSResult("SYSCALL", seen), 0>>
            \/ tls /\ <<r, n>> = <<CreateTLSResult("SSL", seen), -1>>
         /\ UNCHANGED <<link, inq, held>>
      \/ /\ ~data /\ inq = <<>> /\ link \in {"reset", "hup"}
         /\ <<r, n>> = IF link = "hup" THEN <<"SOCKET_CLOSED", 0>> ELSE <<"UNKNOWN_ERROR", -1>>
         /\ ErrorFetched /\ UNCHANGED <<inq, held>>

\* send() or SSL_write() of size bytes: some of it is taken, the call would
\* block and returns -1, or the connection is gone.
SocketWrite(size, r, n) ==
  \/ /\ link \in {"up", "fin"} /\ n \in 1..Min({size, SendBuffer - inflight})
     /\ r = "SUCCESS"
     /\ inflight' = inflight + n /\ UNCHANGED <<link, blocks>>
  \/ /\ link \in {"up", "fin"} /\ blocks < MaxBlocks
     /\ r = SocketError("EWOULDBLOCK") /\ n = -1
     /\ blocks' = blocks + 1 /\ UNCHANGED <<link, inflight>>
  \/ /\ link \in {"reset", "hup"}
     /\ r = SocketError("EPIPE") /\ n = -1
     /\ ErrorFetched /\ UNCHANGED <<inflight, blocks>>

------------------------------------------------------------------------------
(* open() and close() *)

Open ==
  /\ cpc = "idle" /\ link = "null" /\ (tls => HasTLSLibrary)
  /\ link' = "new" /\ code' = "SUCCESS"
  /\ UNCHANGED <<setup, cpc, i, written, calls, inq, held, inflight, seen, srvVars, histVars>>

\* socket(), SSL_CTX_new() or SSL_new() fails: the object is there, but invalid.
OpenFails ==
  /\ cpc = "idle" /\ link = "null"
  /\ link' = "invalid"
  /\ code' \in {"SOCKET_CANNOT_CREATED"} \cup
       (IF tls THEN {"TLS_CONTEXT_INITIALIZATION_FAIL"} ELSE {}) \cup
       (IF tls /\ HasTLSLibrary THEN {"TLS_INITIALIZATION_FAIL"} ELSE {})
  /\ UNCHANGED <<setup, cpc, i, written, calls, inq, held, inflight, seen, srvVars, histVars>>

\* disconnect() shuts both directions and frees the TLS stream with what it
\* holds; close() gives up the descriptor.  Nothing is read any more.
Disconnect == inq' = <<>> /\ held' = 0
CloseSocket == link' = "closed"

Close ==
  /\ cpc = "idle" /\ link \notin {"null", "closed"}
  /\ Disconnect /\ CloseSocket
  /\ UNCHANGED <<setup, cliVars, inflight, seen, srvVars, histVars>>

------------------------------------------------------------------------------
(* connect() *)

\* A loop of connect() ends: go on to phase p, or return the error.
Continue(result, p) ==
  /\ code' = result
  /\ cpc' = IF result = "SUCCESS" THEN p ELSE "idle"
  /\ i' = 0

Return(result) == Continue(result, "idle")

\* The application connects an open socket, and again if that failed early.  The
\* result of the SocketAddress is not looked at.
ConnectCall ==
  /\ cpc = "idle" /\ link \in {"new", "connecting", "refused", "aborted"}
  /\ cpc' = "tcp" /\ i' = 0 /\ code' = "SUCCESS"
  /\ UNCHANGED <<setup, written, calls, sockVars, srvVars, histVars>>

\* The loop is over when the counter reaches its bound.
TcpExhausted ==
  /\ cpc = "tcp" /\ i >= MaxRetries
  /\ Continue(code, "tls")
  /\ UNCHANGED <<setup, written, calls, sockVars, srvVars, histVars>>

\* Every error but those that mean "wait" counts as one attempt.
TcpConnect ==
  /\ cpc = "tcp" /\ i < MaxRetries
  /\ \E r \in Codes :
       /\ SocketConnect(r)
       /\ CASE r = "SUCCESS"  -> Continue(r, "tls")
            [] r \in Pending  -> code' = r /\ cpc' = "tcpwait" /\ i' = i
            [] OTHER          -> code' = r /\ cpc' = cpc /\ i' = i + 1
  /\ UNCHANGED <<setup, written, calls, held, inflight, seen, srvVars, histVars>>

\* A timeout counts twice: once in its branch and once in the loop header.
TcpWait ==
  /\ cpc = "tcpwait"
  /\ \E r \in Codes :
       /\ Wait("CONNECT", r)
       /\ IF r = "SOCKET_TIMEOUT" THEN code' = r /\ cpc' = "tcp" /\ i' = i + 2
                                  ELSE Continue(r, "tls")
  /\ UNCHANGED <<setup, written, calls, inq, held, inflight, seen, srvVars, histVars>>

\* Inside SSL_connect(): a message that is not the last.
HandshakeMessage ==
  /\ cpc = "tls" /\ tls /\ Front("msg") /\ ~BadServer /\ seen + 1 < Flights
  /\ inq' = Tail(inq) /\ seen' = seen + 1
  /\ UNCHANGED <<setup, cliVars, link, held, inflight, srvVars, histVars>>

Handshake ==
  /\ cpc = "tls"
  /\ \E r \in Codes :
       /\ Reconnect(r)
       /\ IF r \in Pending THEN code' = r /\ cpc' = "tlswait" /\ i' = i
                           ELSE Continue(r, "probe")
  /\ UNCHANGED <<setup, written, calls, held, inflight, srvVars, histVars>>

\* The listener of this phase was opened for CONNECT, that is for POLLIN and
\* POLLOUT.  Only a timeout counts.
HandshakeWait ==
  /\ cpc = "tlswait"
  /\ \E r \in Codes :
       LET n == IF r = "SOCKET_TIMEOUT" THEN i + 1 ELSE i
       IN  /\ Wait("CONNECT", r)
           /\ IF r \in {"SUCCESS", "SOCKET_TIMEOUT"} /\ n < MaxRetries
              THEN code' = r /\ cpc' = "tls" /\ i' = n
              ELSE Return(r)
  /\ UNCHANGED <<setup, written, calls, inq, held, inflight, seen, srvVars, histVars>>

\* Inside SSL_peek(): a ticket.
ProbeTicket ==
  /\ cpc = "probe" /\ version = TLS1_3_VERSION /\ Front("msg")
  /\ inq' = Tail(inq)
  /\ UNCHANGED <<setup, cliVars, link, held, inflight, seen, srvVars, histVars>>

\* Mutant: no probe, as if every version were TLS 1.2.
ProbeNever ==
  /\ cpc = "probe"
  /\ Return("SUCCESS")
  /\ UNCHANGED <<setup, written, calls, sockVars, srvVars, histVars>>

\* reconnect(true): only TLS 1.3 has something to probe.
Probe ==
  /\ cpc = "probe"
  /\ \/ /\ version # TLS1_3_VERSION
        /\ Return("SUCCESS") /\ UNCHANGED <<link, inq, held>>
     \/ /\ version = TLS1_3_VERSION
        /\ \E r \in Codes :
             /\ PostHandshakeProbe(r)
             /\ IF r \in Pending THEN code' = r /\ cpc' = "probewait" /\ i' = i
                                 ELSE Return(r)
  /\ UNCHANGED <<setup, written, calls, inflight, seen, srvVars, histVars>>

\* Waiting for POLLIN: silence means that the server accepted.
ProbeWait ==
  /\ cpc = "probewait"
  /\ \E r \in Codes :
       /\ Wait("READ", r)
       /\ CASE r = "SUCCESS"        -> code' = r /\ cpc' = "probe" /\ i' = i
            [] r = "SOCKET_TIMEOUT" -> Return("SUCCESS")
            [] OTHER                -> Return(r)
  /\ UNCHANGED <<setup, written, calls, inq, held, inflight, seen, srvVars, histVars>>

------------------------------------------------------------------------------
(* read() and isConnected() *)

\* The application reads and writes on a connection that was established.
Connected == link \in {"up"} \cup Gone /\ (~tls \/ (seen >= Flights /\ ~BadServer))

\* recv(MSG_PEEK) for one byte: an idle connection gives the same answer as a
\* closed one.
IsConnected ==
  /\ cpc = "idle" /\ Connected
  /\ code' = IF inq # <<>> \/ (~tls /\ held > 0) THEN "SUCCESS" ELSE "SOCKET_CLOSED"
  /\ UNCHANGED <<setup, cpc, i, written, calls, sockVars, srvVars, histVars>>

ReadCall ==
  /\ cpc = "idle" /\ Connected /\ calls < MaxCalls
  /\ cpc' = "readwait" /\ i' = 0 /\ code' = "SUCCESS" /\ calls' = calls + 1
  /\ UNCHANGED <<setup, written, sockVars, srvVars, histVars>>

\* A turn of the loop that brought nothing; the last one ends it.
Again(result, p) ==
  /\ code' = result
  /\ i' = IF i + 1 < MaxRetries THEN i + 1 ELSE 0
  /\ cpc' = IF i + 1 < MaxRetries THEN p ELSE "idle"

ReadWait ==
  /\ cpc = "readwait"
  /\ \E r \in Codes :
       /\ Wait("READ", r)
       /\ CASE r = "SUCCESS"        -> code' = r /\ cpc' = "read" /\ i' = i
            [] r = "SOCKET_TIMEOUT" -> Again(r, "readwait")
            [] OTHER                -> Return(r)
  /\ UNCHANGED <<setup, written, calls, inq, held, inflight, seen, srvVars, histVars>>

\* No bytes mean closed, whatever the code says.
Read ==
  /\ cpc = "read"
  /\ \E r \in Codes, n \in -1..RecordSize :
       /\ SocketRead(r, n)
       /\ CASE n = 0 -> Return("SOCKET_CLOSED")
            [] n # 0 /\ r = "SOCKET_CONNECTION_NEED_TO_BE_BLOCKED" -> Again(r, "readwait")
            [] OTHER -> Return(r)
  /\ UNCHANGED <<setup, written, calls, inflight, seen, srvVars, histVars>>

------------------------------------------------------------------------------
(* write() *)

WriteCall ==
  /\ cpc = "idle" /\ Connected /\ calls < MaxCalls
  /\ cpc' = "writewait" /\ i' = 0 /\ code' = "SUCCESS" /\ calls' = calls + 1
  /\ written' = 0 /\ sent' = 0
  /\ UNCHANGED <<setup, sockVars, srvVars, refusal, blocks>>

\* Mutant: a timeout is not counted (no i++).
WriteWaitUncounted ==
  /\ cpc = "writewait"
  /\ \E r \in Codes :
       /\ Wait("WRITE", r)
       /\ CASE r = "SUCCESS"        -> code' = r /\ cpc' = "write" /\ i' = i
            [] r = "SOCKET_TIMEOUT" -> code' = r /\ UNCHANGED <<cpc, i>>
            [] OTHER                -> Return(r)
  /\ UNCHANGED <<setup, written, calls, inq, held, inflight, seen, srvVars, histVars>>

WriteWait ==
  /\ cpc = "writewait"
  /\ \E r \in Codes :
       /\ Wait("WRITE", r)
       /\ CASE r = "SUCCESS"        -> code' = r /\ cpc' = "write" /\ i' = i
            [] r = "SOCKET_TIMEOUT" -> Again(r, "writewait")
            [] OTHER                -> Return(r)
  /\ UNCHANGED <<setup, written, calls, inq, held, inflight, seen, srvVars, histVars>>

\* Mutant: a partial send() counts as a complete one.
WriteOnce ==
  /\ cpc = "write"
  /\ \E r \in Codes, n \in -1..Size :
       /\ SocketWrite((Size - written) % Word, r, n)
       /\ sent' = IF n > 0 THEN sent + n ELSE sent
       /\ Return(r)
       /\ written' = IF n > 0 THEN written + n ELSE written
  /\ UNCHANGED <<setup, calls, inq, held, seen, srvVars, refusal>>

\* Mutant: the offset is not accumulated over the pieces.
WriteOverwrites ==
  /\ cpc = "write"
  /\ \E r \in Codes, n \in 1..Size :
       /\ SocketWrite((Size - written) % Word, r, n)
       /\ sent' = sent + n /\ written' = n
       /\ code' = r /\ i' = i
       /\ cpc' = IF written' = Size THEN "idle" ELSE "writewait"
  /\ UNCHANGED <<setup, calls, inq, held, seen, srvVars, refusal>>

\* Mutant: the result is added, as a signed number, before it is looked at.
WriteSigned ==
  /\ cpc = "write"
  /\ \E r \in Codes, n \in -1..Size :
       /\ SocketWrite(Size - written, r, n)
       /\ sent' = IF n > 0 THEN sent + n ELSE sent
       /\ written' = written + n
       /\ IF r \in {"SUCCESS", "SOCKET_CONNECTION_NEED_TO_BE_BLOCKED"}
          THEN code' = r /\ i' = i /\ cpc' = IF written' = Size THEN "idle" ELSE "writewait"
          ELSE Return(r)
  /\ UNCHANGED <<setup, calls, inq, held, seen, srvVars, refusal>>

\* What is left is offered; the number returned is added to written_size, the
\* -1 of a send that would block too.
Write ==
  /\ cpc = "write"
  /\ \E r \in Codes, n \in -1..Word :
       /\ SocketWrite((Size - written) % Word, r, n)
       /\ sent' = IF n > 0 THEN sent + n ELSE sent
       /\ IF r \in {"SUCCESS", "SOCKET_CONNECTION_NEED_TO_BE_BLOCKED"}
          THEN /\ written' = (written + n) % Word
               /\ code' = r /\ i' = i
               /\ cpc' = IF written' = Size THEN "idle" ELSE "writewait"
          ELSE /\ written' = written
               /\ Return(r)
  /\ UNCHANGED <<setup, calls, inq, held, seen, srvVars, refusal>>

------------------------------------------------------------------------------
(* The server and the network (external) *)

TcpAnswer ==
  /\ link = "connecting" /\ link' \in {"up", "refused"}
  /\ UNCHANGED <<setup, cliVars, inq, held, inflight, seen, srvVars, histVars>>

\* A handshake message, or a ticket after the handshake with TLS 1.3.
ServerAnswers ==
  /\ link = "up" /\ tls /\ alert = "none"
  /\ \/ /\ cpc \in {"tls", "tlswait"} /\ answered < Flights
        /\ version # 0 /\ SuiteShared(cfg, server)
     \/ version = TLS1_3_VERSION /\ answered = Flights /\ seen = Flights
  /\ inq' = Append(inq, "msg") /\ answered' = answered + 1
  /\ UNCHANGED <<setup, cliVars, link, held, inflight, seen, alert, records, histVars>>

\* Version and cipher are refused instead of the first message, when there is
\* nothing in common; the client's certificate when it has arrived, which is
\* before the last message with TLS 1.2 and after it, maybe behind a ticket or
\* data, with TLS 1.3.
ServerRejects ==
  /\ link = "up" /\ tls /\ alert = "none"
  /\ \/ /\ cpc \in {"tls", "tlswait"} /\ answered = 0
        /\ \/ version = 0 /\ refusal' = "version" /\ alert' = "protocol_version"
           \/ /\ version # 0 /\ ~SuiteShared(cfg, server)
              /\ refusal' = "cipher" /\ alert' = "handshake_failure"
     \/ /\ refusal' = "certificate"
        /\ \/ /\ version = TLS1_2_VERSION /\ seen > 0 /\ answered = seen /\ answered < Flights
              /\ alert' \in {"handshake_failure", "unknown_ca", "bad_certificate"}
           \/ /\ version = TLS1_3_VERSION /\ seen = Flights
              /\ alert' \in {"certificate_required", "handshake_failure", "unknown_ca",
                             "bad_certificate"}
  /\ inq' = Append(inq, "alert")
  /\ UNCHANGED <<setup, cliVars, link, held, inflight, seen, answered, records, blocks, sent>>

ServerSends ==
  /\ link = "up" /\ alert = "none" /\ records < MaxRecords
  /\ tls => seen >= Flights /\ ~BadServer
  /\ inq' = Append(inq, "data") /\ records' = records + 1
  /\ UNCHANGED <<setup, cliVars, link, held, inflight, seen, answered, alert, histVars>>

ServerReceives ==
  /\ link = "up" /\ inflight > 0 /\ inflight' = inflight - 1
  /\ UNCHANGED <<setup, cliVars, link, inq, held, seen, srvVars, histVars>>

\* The end of the stream, announced or not by the TLS library; over a
\* Unix-domain socket it raises POLLHUP at once; or a reset.
ServerHangup ==
  /\ \/ /\ link = "up" /\ link' = "fin"
        /\ inq' \in {inq} \cup (IF ~tls THEN {} ELSE {Append(inq, "close_notify")})
     \/ /\ link = "up" /\ ~tls /\ link' = "hup" /\ inq' = inq
     \/ /\ link \in {"up", "fin"} /\ link' = "reset" /\ inq' = inq
  /\ UNCHANGED <<setup, cliVars, held, inflight, seen, srvVars, histVars>>

------------------------------------------------------------------------------

ClientStep ==
  \/ TcpExhausted \/ TcpConnect \/ TcpWait
  \/ HandshakeMessage \/ Handshake \/ HandshakeWait
  \/ ProbeTicket \/ Probe \/ ProbeWait \/ ReadWait \/ Read \/ WriteWait \/ Write

ServerStep ==
  \/ TcpAnswer \/ ServerAnswers \/ ServerRejects \/ ServerSends
  \/ ServerReceives \/ ServerHangup

Next ==
  \/ Open \/ OpenFails \/ Close \/ ConnectCall
  \/ IsConnected \/ ReadCall \/ WriteCall
  \/ ClientStep \/ ServerStep

Spec == Init /\ [][Next]_vars

\* The calling thread runs.  The server owes nothing.
FairSpec == Spec /\ WF_vars(ClientStep)

------------------------------------------------------------------------------
(* Properties *)

\* Every variable stays in its range; size_t counts stay below Word.
TypeOK ==
  /\ setup \in Setups
  /\ cpc \in {"idle", "tcp", "tcpwait", "tls", "tlswait", "probe", "probewait",
              "readwait", "read", "writewait", "write"}
  /\ i \in 0..MaxRetries + 1 /\ written \in 0..Word - 1 /\ calls \in 0..MaxCalls
  /\ code \in Codes
  /\ link \in {"null", "invalid", "new", "connecting", "up", "refused", "aborted", "fin",
               "reset", "hup", "closed"}
  /\ inq \in Seq({"msg", "alert", "close_notify", "data"})
  /\ held \in 0..RecordSize /\ inflight \in 0..SendBuffer
  /\ seen \in 0..Flights /\ answered \in 0..Flights + 1
  /\ alert \in {"none", "protocol_version", "handshake_failure", "certificate_required",
                "unknown_ca", "bad_certificate"}
  /\ refusal \in {"none", "version", "cipher", "certificate"}
  /\ records \in 0..MaxRecords /\ sent \in Nat /\ blocks \in 0..MaxBlocks

\* A step with which connect() returns.
ConnectReturns ==
  /\ cpc \in {"tcp", "tcpwait", "tls", "tlswait", "probe", "probewait"}
  /\ cpc' = "idle"

\* The connection came up; with TLS its handshake is complete, in a version and
\* with a suite the application chose.  With verify_server the certificate is
\* valid, and with verify_hostname on top of it it is this server's; the code
\* does nothing for verify_hostname alone, and nothing is claimed for it.
\* An alert may be waiting, but only behind data of the server.
Established ==
  /\ link \in {"up"} \cup Gone
  /\ cfg.versions # {} =>
       /\ setup.built /\ seen' = Flights
       /\ version \in CommonVersions(cfg, server) /\ CommonSuite(cfg, server, version)
       /\ cfg.verifyServer => server.cert # "invalid"
       /\ cfg.verifyServer /\ cfg.verifyHostname => server.cert = "valid"
  /\ \A k \in DOMAIN inq : inq[k] = "alert" => \E j \in 1..k - 1 : inq[j] = "data"

\* connect() reports success only for a connection that came up, whose TLS
\* handshake is complete in what the configuration allows, and whose server's
\* certificate passed what verify_server, or verify_server with verify_hostname,
\* demands.  A refusal of the client's certificate that arrived in time is not
\* overlooked, a ticket in front of it notwithstanding; only application data in
\* front of it hide it from the probe.
ConnectVerdict == [][ConnectReturns /\ code' = "SUCCESS" => Established]_vars

\* The code connect() returns names the real reason: the two sides have no
\* version, or no suite of the version, in common although the application left
\* it a choice; the server refused the client's certificate; or the check of the
\* server's certificate that was asked for failed.  The server's
\* handshake_failure says none of this, and an unverified certificate leaves a
\* failed verification result behind.
RefusalNamed ==
  [][ConnectReturns =>
       LET common == CommonVersions(cfg, server) IN
       /\ code' = "TLS_VERSION_NOT_SUPPORTED" => common = {}
       /\ code' = "TLS_CIPHER_SUITE_MISMATCH" =>
            common # {} /\ ~CommonSuite(cfg, server, Max(common))
       /\ code' = "TLS_CLIENT_CERT_REJECTED"  => refusal = "certificate"
       /\ code' = "TLS_SERVER_CERT_INVALID" => cfg.verifyServer /\ server.cert = "invalid"
       /\ code' = "TLS_HOSTNAME_MISMATCH" =>
            cfg.verifyServer /\ cfg.verifyHostname /\ server.cert = "mismatch"]_vars

\* While write() runs, written_size is the number of bytes the transport has
\* taken: every attempt offers exactly what is left, so no byte of the buffer
\* is skipped, repeated or read from outside it.
WriteAccounting == cpc \in {"writewait", "write"} => written = sent

\* write() reports success only when the whole buffer was taken, and in any
\* case it returns the number of bytes that were.
WriteExact ==
  [][cpc' = "idle" /\ cpc \in {"writewait", "write"} =>
       written' = sent' /\ (code' = "SUCCESS" => sent' = Size)]_vars

\* A read() that times out leaves nothing behind that had arrived: whatever the
\* transport and the TLS library hold for the application is found by the wait.
ReadNotStarved ==
  [][cpc = "readwait" /\ cpc' = "idle" /\ code' = "SOCKET_TIMEOUT" => held = 0]_vars

------------------------------------------------------------------------------
(* How far a call is from its return *)

\* Neither a record nor the end of the connection is there to be found.
Quiet == inq = <<>> /\ link = "up"

Bit(b) == IF b THEN 1 ELSE 0

\* What the server can still do to a connection before it has come up for the
\* application, and what it has done that the client has not taken.
Events ==
  3 * ((Flights + 1 - answered) + (MaxRecords - records) + Bit(alert = "none") + Bit(link = "up"))
    + 2 * Len(inq)

\* connect() goes through three loops.
Stage ==
  CASE cpc \in {"tcp", "tcpwait"}     -> 3
    [] cpc \in {"tls", "tlswait"}     -> 2
    [] cpc \in {"probe", "probewait"} -> 1
    [] OTHER                          -> 0

\* The turns the loop of the current stage still has, weighed with what can
\* interrupt its waits and, in write(), with the bytes that are left.
ToGo ==
  CASE Stage = 3 -> 2 * (MaxRetries + 1 - i) + Bit(cpc = "tcp")
    [] Stage \in {1, 2} ->
         2 * (MaxRetries - i) + Events + Bit(cpc \in {"tls", "probe"} <=> Quiet)
    [] cpc \in {"readwait", "read"} -> 2 * (MaxRetries - i) + Bit(cpc = "readwait")
    [] cpc \in {"writewait", "write"} ->
         2 * (MaxRetries - i) + 2 * ((Size - written) % Word) + 4 * (MaxBlocks - blocks)
           + Bit(cpc = "writewait")
    [] OTHER -> 0

\* The call returns, enters its next loop, or has less to go.
Nearer == cpc' = "idle" \/ Stage' < Stage \/ (Stage' = Stage /\ ToGo' \in 0..ToGo - 1)

\* The turn of the handshake loop that nothing counts: poll() was asked for
\* POLLOUT too and reports it, although nothing has arrived.
Spins == cpc = "tlswait" /\ Quiet /\ cpc' = "tls" /\ i' = i

\* While a call runs, every step of its thread brings it nearer to its return,
\* and nothing the server does, or leaves undone, takes it back: max_retries,
\* the records that can arrive and the bytes that are left bound connect(),
\* read() and write().  The one exception is a handshake whose server is silent.
ClientProgress ==
  [][cpc # "idle" => Nearer \/ Spins \/ (ServerStep /\ ToGo' \in 0..ToGo)]_vars

\* Every call returns: max_retries bounds the waits of all loops, and an event
\* in the handshake means that there is a response of the server to process.
OperationReturns == cpc # "idle" ~> cpc = "idle"
==============================================================================
