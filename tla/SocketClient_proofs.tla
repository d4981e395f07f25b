-------------------------- MODULE SocketClient_proofs --------------------------
(***************************************************************************)
(* What SocketClient promises, for every client and server, every size and *)
(* every bound: the ranges of its variables, the verdict of connect(), the *)
(* count of write(), and that a call comes nearer to its return.           *)
(***************************************************************************)
EXTENDS SocketClient, SequenceTheorems, TLAPS

------------------------------------------------------------------------------
(* The configuration *)

\* min_proto_version and max_proto_version enclose exactly the versions the
\* application chose, and nothing when it chose none.
LEMMA RangeIsChoice ==
  ASSUME NEW c \in ConfigurationType
  PROVE  VersionRange(c) = c.versions
  <1> DEFINE has12 == TLS1_2_VERSION \in c.versions
             has13 == TLS1_3_VERSION \in c.versions
  <1>1. \A x \in c.versions : x = TLS1_2_VERSION \/ x = TLS1_3_VERSION
    BY DEF ConfigurationType, SocketTLSVersion
  <1>2. VersionRange(c) = (IF has12 THEN 771 ELSE 772) .. (IF has13 THEN 772 ELSE 771)
    BY Zenon DEF VersionRange, IsVersionSupported, TLS1_2_VERSION, TLS1_3_VERSION
  <1>3. \A x : x \in VersionRange(c) <=> (x = 771 /\ has12) \/ (x = 772 /\ has13)
    <2>1. CASE has12 /\ has13
      BY <1>2, <2>1
    <2>2. CASE has12 /\ ~has13
      BY <1>2, <2>2
    <2>3. CASE ~has12 /\ has13
      BY <1>2, <2>3
    <2>4. CASE ~has12 /\ ~has13
      BY <1>2, <2>4
    <2> QED BY <2>1, <2>2, <2>3, <2>4
  <1>4. \A x : x \in VersionRange(c) <=> x \in c.versions
    BY <1>1, <1>3 DEF TLS1_2_VERSION, TLS1_3_VERSION
  <1> QED BY <1>4, Zenon

\* The largest of some versions is one of them.
LEMMA MaxVersion ==
  ASSUME NEW S \in SUBSET SocketTLSVersion, S # {}
  PROVE  /\ Max(S) \in S
         /\ TLS1_3_VERSION \in S => Max(S) = TLS1_3_VERSION
  <1>1. \A x \in S : x = 771 \/ x = 772
    BY DEF SocketTLSVersion, TLS1_2_VERSION, TLS1_3_VERSION
  <1>2. \E x \in S : \A y \in S : x >= y
    <2>1. CASE 772 \in S
      <3>1. \A y \in S : 772 >= y
        BY <1>1
      <3> QED BY <2>1, <3>1
    <2>2. CASE 772 \notin S
      <3>1. \A y \in S : 771 >= y
        BY <1>1, <2>2
      <3>2. 771 \in S
        BY <1>1, <2>2
      <3> QED BY <3>1, <3>2
    <2> QED BY <2>1, <2>2
  <1>3. Max(S) \in S /\ \A y \in S : Max(S) >= y
    BY <1>2, Zenon DEF Max
  <1>4. 772 \in S => Max(S) >= 772 /\ (Max(S) = 771 \/ Max(S) = 772)
    BY <1>1, <1>3
  <1>5. 772 \in S => Max(S) = 772
    BY <1>4
  <1> QED BY <1>3, <1>5 DEF TLS1_3_VERSION

\* The library agrees on the highest version the application chose that the
\* server has, and on none if there is none.
LEMMA VersionAgreed ==
  ASSUME NEW c \in ConfigurationType, NEW s, s.versions \subseteq SocketTLSVersion
  PROVE  /\ CommonVersions(c, s) = {} => NegotiatedVersion(c, s) = 0
         /\ CommonVersions(c, s) # {} =>
              /\ NegotiatedVersion(c, s) = Max(CommonVersions(c, s))
              /\ NegotiatedVersion(c, s) \in CommonVersions(c, s)
         /\ NegotiatedVersion(c, s) # 0 <=> CommonVersions(c, s) # {}
         /\ NegotiatedVersion(c, s) \in {0, TLS1_2_VERSION, TLS1_3_VERSION}
         /\ NegotiatedVersion(c, s) # 0 => Valid(c)
  <1> DEFINE common == CommonVersions(c, s)
  <1>1. common = VersionRange(c) \cap s.versions
    BY RangeIsChoice DEF CommonVersions
  <1>2. common \in SUBSET SocketTLSVersion
    BY DEF CommonVersions
  <1>3. common # {} => Max(common) \in common
    BY <1>2, MaxVersion
  <1>4. NegotiatedVersion(c, s) = IF common = {} THEN 0 ELSE Max(common)
    BY <1>1, Zenon DEF NegotiatedVersion
  <1>5. common # {} => Valid(c)
    BY DEF CommonVersions, Valid
  <1> HIDE DEF common
  <1>6. common = {} => NegotiatedVersion(c, s) = 0
    BY <1>4, Zenon
  <1>7. common # {} => NegotiatedVersion(c, s) = Max(common)
    BY <1>4, Zenon
  <1>8. common # {} => NegotiatedVersion(c, s) \in {TLS1_2_VERSION, TLS1_3_VERSION}
    BY <1>2, <1>3, <1>7 DEF SocketTLSVersion
  <1>9. common # {} => NegotiatedVersion(c, s) # 0
    BY <1>8 DEF TLS1_2_VERSION, TLS1_3_VERSION
  <1> QED
    BY <1>3, <1>5, <1>6, <1>7, <1>8, <1>9, Zenon DEF common

\* The library finds a suite exactly if the server has one of those the
\* application chose for that version or, when it chose none, of the library's.
LEMMA SuiteAgreed ==
  ASSUME NEW c \in ConfigurationType, NEW s
  PROVE  SuiteShared(c, s) <=> CommonSuite(c, s, NegotiatedVersion(c, s))
  <1> DEFINE v == NegotiatedVersion(c, s)
             chosen == IF v = TLS1_3_VERSION THEN c.suites13 ELSE c.suites12
  <1>1. c.suites12 \subseteq Range(TLS12Suites) /\ c.suites13 \subseteq Range(TLS13Suites)
    BY DEF ConfigurationType
  <1>2. GenerateTLS12CipherSuites(c) = c.suites12 /\ GenerateTLS13CipherSuites(c) = c.suites13
    BY <1>1 DEF GenerateTLS12CipherSuites, GenerateTLS13CipherSuites
  <1>3. OfferedSuites(c, v) = IF chosen = {} THEN DefaultSuites(v) ELSE chosen
    BY <1>2, Zenon DEF OfferedSuites
  <1>4. CommonSuite(c, s, v) <=>
          \E x \in s.suites : x \in chosen \/ (chosen = {} /\ x \in DefaultSuites(v))
    BY Zenon DEF CommonSuite
  <1>5. SuiteShared(c, s) <=> OfferedSuites(c, v) \cap s.suites # {}
    BY DEF SuiteShared
  <1> HIDE DEF v, chosen
  <1> QED
    BY <1>3, <1>4, <1>5 DEF v

------------------------------------------------------------------------------
(* The records that arrived *)

Kinds == {"msg", "alert", "close_notify", "data"}

\* A record of this kind is in the queue q.
Holds(q, kind) == \E k \in DOMAIN q : q[k] = kind

\* What arrives joins the queue at its end.
LEMMA QueueAppend ==
  ASSUME NEW q \in Seq(Kinds), NEW x \in Kinds
  PROVE  /\ Append(q, x) \in Seq(Kinds)
         /\ Len(Append(q, x)) = Len(q) + 1
         /\ \A kind : Holds(Append(q, x), kind) => Holds(q, kind) \/ kind = x
  <1>1. ASSUME NEW k \in DOMAIN Append(q, x), Append(q, x)[k] # x
        PROVE  k \in DOMAIN q /\ q[k] = Append(q, x)[k]
    BY <1>1
  <1>2. \A kind : Holds(Append(q, x), kind) => Holds(q, kind) \/ kind = x
    BY <1>1, Zenon DEF Holds
  <1>3. Append(q, x) \in Seq(Kinds) /\ Len(Append(q, x)) = Len(q) + 1
    OBVIOUS
  <1> QED BY <1>2, <1>3, Zenon

\* What is read leaves it at its front.
LEMMA QueueTail ==
  ASSUME NEW q \in Seq(Kinds), q # <<>>
  PROVE  /\ Tail(q) \in Seq(Kinds) /\ Len(Tail(q)) = Len(q) - 1 /\ Len(q) > 0
         /\ \A kind : Holds(Tail(q), kind) => Holds(q, kind)
         /\ Holds(q, Head(q)) /\ Head(q) \in Kinds
  <1>1. ASSUME NEW k \in DOMAIN Tail(q)
        PROVE  k + 1 \in DOMAIN q /\ Tail(q)[k] = q[k + 1]
    BY <1>1
  <1>2. \A kind : Holds(Tail(q), kind) => Holds(q, kind)
    BY <1>1, Zenon DEF Holds
  <1>3. 1 \in DOMAIN q /\ Head(q) = q[1] /\ Len(q) > 0
    BY EmptySeq
  <1>4. Holds(q, Head(q))
    BY <1>3, Zenon DEF Holds
  <1>5. Tail(q) \in Seq(Kinds) /\ Len(Tail(q)) = Len(q) - 1 /\ Head(q) \in Kinds
    BY HeadTailProperties, Zenon
  <1> QED BY <1>2, <1>3, <1>4, <1>5, Zenon

\* An empty queue holds nothing.
LEMMA QueueEmpty ==
  /\ <<>> \in Seq(Kinds) /\ Len(<<>>) = 0
  /\ \A kind : ~Holds(<<>>, kind)
  /\ \A q \in Seq(Kinds) : Len(q) = 0 => q = <<>>
  BY EmptySeq DEF Holds

------------------------------------------------------------------------------
(* What the calls return *)

\* A pending error is fetched.
LEMMA Fetched ==
  ASSUME ErrorFetched
  PROVE  /\ link = "reset" => link' = "hup"
         /\ link = "refused" => link' = "aborted"
         /\ link \notin {"reset", "refused"} => link' = link
  BY Zenon DEF ErrorFetched

\* The listener: success means a connection that is up, and silence while it
\* waits for POLLIN means that nothing has arrived and nothing has ended.
LEMMA WaitResult ==
  ASSUME NEW type \in {"CONNECT", "READ", "WRITE"}, NEW r, Wait(type, r)
  PROVE  /\ ErrorFetched \/ link' = link
         /\ r \in {"SOCKET_CONNECTION_REFUSED", "UNKNOWN_ERROR", "SOCKET_CLOSED", "SUCCESS",
                   "SOCKET_TIMEOUT", "SOCKET_EVENT_ERROR"}
         /\ r = "SUCCESS" => link \in {"up", "fin"}
         /\ r = "SOCKET_TIMEOUT" => link \notin {"refused", "reset", "hup"}
         /\ r = "SOCKET_TIMEOUT" /\ type = "READ" /\ link \in {"up", "fin"} =>
              link = "up" /\ inq = <<>>
  <1>1. /\ SocketError("ECONNREFUSED") = "SOCKET_CONNECTION_REFUSED"
        /\ SocketError("ECONNRESET") = "UNKNOWN_ERROR"
    BY DEF SocketError
  <1>2. Interest("READ") = {"IN"}
    BY Zenon DEF Interest
  <1>3. CASE r = "SOCKET_EVENT_ERROR" /\ UNCHANGED link
    BY <1>3
  <1>4. CASE /\ r = CASE link = "refused" -> SocketError("ECONNREFUSED")
                      [] link = "reset"   -> SocketError("ECONNRESET")
                      [] link = "hup"     -> "SOCKET_CLOSED"
                      [] link \in {"up", "fin"} /\ Ready(type) -> "SUCCESS"
                      [] OTHER            -> "SOCKET_TIMEOUT"
             /\ ErrorFetched
    <2>1. CASE link = "refused" BY <1>1, <1>4, <2>1, Zenon
    <2>2. CASE link = "reset" BY <1>1, <1>4, <2>2, Zenon
    <2>3. CASE link = "hup" BY <1>4, <2>3, Zenon
    <2>4. CASE link \in {"up", "fin"}
      <3>1. r = IF Ready(type) THEN "SUCCESS" ELSE "SOCKET_TIMEOUT"
        BY <1>4, <2>4, Zenon
      <3>2. type = "READ" /\ ~Ready(type) => link = "up" /\ inq = <<>>
        BY <1>2, <2>4, Zenon DEF Ready, Readable
      <3> QED BY <1>4, <2>4, <3>1, <3>2, Zenon
    <2>5. CASE link \notin {"refused", "reset", "hup", "up", "fin"}
      BY <1>4, <2>5, Zenon
    <2> QED BY <2>1, <2>2, <2>3, <2>4, <2>5
  <1> QED BY <1>3, <1>4 DEF Wait

\* The reason on the error queue, and what it stands for.
LEMMA AlertNamed ==
  ASSUME NEW n \in Nat
  PROVE  /\ AlertCode(n) \in {"TLS_VERSION_NOT_SUPPORTED", "TLS_CIPHER_SUITE_MISMATCH",
                              "TLS_CLIENT_CERT_REJECTED", "SSL_PROTOCOL_ERROR"}
         /\ AlertCode(n) = "TLS_VERSION_NOT_SUPPORTED" => alert = "protocol_version"
         /\ AlertCode(n) = "TLS_CIPHER_SUITE_MISMATCH" => alert = "handshake_failure" /\ n = 0
         /\ AlertCode(n) = "TLS_CLIENT_CERT_REJECTED" =>
              \/ alert \in {"certificate_required", "unknown_ca"}
              \/ alert = "handshake_failure" /\ n > 0
  <1>1. n > 0 \/ n = 0
    OBVIOUS
  <1>2. ~(n > 0 /\ n = 0)
    OBVIOUS
  <1>3. CASE alert = "protocol_version" BY <1>3, Zenon DEF AlertCode
  <1>4. CASE alert \in {"certificate_required", "unknown_ca"} BY <1>4, Zenon DEF AlertCode
  <1>5. CASE alert = "handshake_failure" /\ n > 0 BY <1>2, <1>5, Zenon DEF AlertCode
  <1>6. CASE alert = "handshake_failure" /\ n = 0 BY <1>2, <1>6, Zenon DEF AlertCode
  <1>7. CASE alert \notin {"protocol_version", "certificate_required", "unknown_ca",
                          "handshake_failure"}
    BY <1>7, Zenon DEF AlertCode
  <1> QED BY <1>1, <1>3, <1>4, <1>5, <1>6, <1>7, Zenon

\* A failed call of the TLS library.  A certificate that does not pass is named
\* before any alert, and only when it was to be checked.
LEMMA TLSResult ==
  ASSUME server.cert \in {"valid", "invalid", "mismatch"}, NEW n \in Nat
  PROVE  /\ CreateTLSResult("WANT", n) = "SOCKET_CONNECTION_NEED_TO_BE_BLOCKED"
         /\ CreateTLSResult("SYSCALL", n) = "UNKNOWN_ERROR"
         /\ CreateTLSResult("ZERO_RETURN", n) = "SSL_ERROR_CLOSED_BY_PEER"
         /\ ~(BadServer /\ n > 0) => CreateTLSResult("SSL", n) = AlertCode(n)
         /\ BadServer /\ n > 0 =>
              \/ /\ CreateTLSResult("SSL", n) = "TLS_SERVER_CERT_INVALID"
                 /\ cfg.verifyServer /\ server.cert = "invalid"
              \/ /\ CreateTLSResult("SSL", n) = "TLS_HOSTNAME_MISMATCH"
                 /\ cfg.verifyServer /\ cfg.verifyHostname /\ server.cert = "mismatch"
  <1>1. SocketError("ECONNRESET") = "UNKNOWN_ERROR"
    BY DEF SocketError
  <1>2. CreateTLSResult("WANT", n) = "SOCKET_CONNECTION_NEED_TO_BE_BLOCKED"
    BY Zenon DEF CreateTLSResult
  <1>3. CreateTLSResult("SYSCALL", n) = "UNKNOWN_ERROR"
    BY <1>1, Zenon DEF CreateTLSResult
  <1>4. CreateTLSResult("ZERO_RETURN", n) = "SSL_ERROR_CLOSED_BY_PEER"
    BY Zenon DEF CreateTLSResult
  <1>5. ASSUME ~(BadServer /\ n > 0)
        PROVE  CreateTLSResult("SSL", n) = AlertCode(n)
    BY <1>5, Zenon DEF CreateTLSResult
  <1>6. ASSUME BadServer, n > 0, server.cert = "invalid"
        PROVE  CreateTLSResult("SSL", n) = "TLS_SERVER_CERT_INVALID" /\ cfg.verifyServer
    BY <1>6, Zenon DEF CreateTLSResult, BadServer
  <1>7. ASSUME BadServer, n > 0, server.cert = "mismatch"
        PROVE  /\ CreateTLSResult("SSL", n) = "TLS_HOSTNAME_MISMATCH"
               /\ cfg.verifyServer /\ cfg.verifyHostname
    BY <1>7, Zenon DEF CreateTLSResult, BadServer, VerifyFails
  <1>8. BadServer => server.cert \in {"invalid", "mismatch"}
    BY Zenon DEF BadServer, VerifyFails
  <1> QED BY <1>2, <1>3, <1>4, <1>5, <1>6, <1>7, <1>8, Zenon

------------------------------------------------------------------------------
(* The inductive invariant *)

\* The two sides have a version and a suite in common.
Agreed == version # 0 /\ SuiteShared(cfg, server)

\* The codes that name a reason of the TLS layer.
Reasons ==
  {"TLS_VERSION_NOT_SUPPORTED", "TLS_CIPHER_SUITE_MISMATCH", "TLS_CLIENT_CERT_REJECTED",
   "TLS_SERVER_CERT_INVALID", "TLS_HOSTNAME_MISMATCH"}

\* The retry counter is below its bound wherever a loop runs; only the first
\* loop of connect() runs over it, and then its code is the last failure's.
Counting ==
  /\ cpc \in {"tcpwait", "tls", "tlswait", "readwait", "read", "writewait", "write"} =>
       i < MaxRetries
  /\ cpc = "tcp" /\ i > 0 => code # "SUCCESS"
  /\ cpc \in {"tcp", "tcpwait"} => code \notin Reasons
  /\ cpc \in {"probe", "probewait"} => i = 0

\* What the position in an operation says about the connection.
Positions ==
  /\ cpc \in {"tcp", "tcpwait"} => seen = 0 /\ answered = 0
  /\ cpc \in {"tls", "tlswait"} => seen < Flights
  /\ cpc \notin {"idle", "tcp", "tcpwait"} => link \in {"up"} \cup Gone
  /\ cpc \notin {"idle", "tcp", "tcpwait", "tls", "tlswait"} /\ tls => seen = Flights /\ ~BadServer
  /\ tls /\ link \notin {"null", "invalid", "closed"} => HasTLSLibrary
  /\ cpc = "probewait" => tls

\* What is in the queue, and what it says about the server.
Queued ==
  /\ link \in {"null", "invalid", "new", "connecting", "refused", "aborted"} =>
       inq = <<>> /\ seen = 0 /\ answered = 0
  /\ Holds(inq, "msg") \/ seen > 0 => tls /\ Agreed
  /\ Holds(inq, "data") => records > 0
  /\ Holds(inq, "close_notify") => link \in Gone
  /\ Holds(inq, "alert") => alert # "none"
  /\ link = "up" /\ tls /\ alert = "none" /\ seen < Flights => Len(inq) = answered - seen

\* Why the server sent its alert, and what the client can still read before it.
Alerted ==
  /\ alert # "none" => tls
  /\ alert # "none" /\ version = TLS1_2_VERSION => seen < Flights /\ ~Holds(inq, "msg")
  /\ alert = "protocol_version" => version = 0
  /\ alert \in {"certificate_required", "unknown_ca"} => refusal = "certificate"
  /\ alert = "handshake_failure" =>
       \/ version # 0 /\ ~Agreed /\ seen = 0
       \/ refusal = "certificate" /\ seen > 0

ClientInv == TypeOK /\ Counting /\ Positions /\ Queued /\ Alerted

\* The configuration, the build and the server never change.
LEMMA SetupKept ==
  ASSUME setup' = setup
  PROVE  /\ tls' <=> tls
         /\ Agreed' <=> Agreed
         /\ version' = version
         /\ BadServer' <=> BadServer
         /\ HasTLSLibrary' <=> HasTLSLibrary
  BY Zenon DEF tls, Agreed, version, BadServer, VerifyFails, HasTLSLibrary, cfg, server

\* What the assumption on Setups says of the one at hand.
LEMMA SetupFacts ==
  ASSUME setup \in Setups
  PROVE  /\ cfg \in ConfigurationType
         /\ server.versions \subseteq SocketTLSVersion
         /\ server.cert \in {"valid", "invalid", "mismatch"}
         /\ version \in {0, TLS1_2_VERSION, TLS1_3_VERSION}
         /\ version # 0 => tls
         /\ tls <=> cfg.versions # {}
  <1>1. /\ cfg \in ConfigurationType
        /\ server.versions \subseteq SocketTLSVersion
        /\ server.cert \in {"valid", "invalid", "mismatch"}
    BY SetupsAssumption, Zenon DEF cfg, server
  <1>2. version \in {0, TLS1_2_VERSION, TLS1_3_VERSION} /\ (version # 0 => Valid(cfg))
    BY <1>1, VersionAgreed, Zenon DEF version
  <1> QED BY <1>1, <1>2, Zenon DEF tls, Valid

\* Counts in the form in which the steps use them.
LEMMA Counts ==
  /\ MaxRetries \in Nat /\ MaxRetries > 0
  /\ Flights \in Nat /\ Flights > 0
  /\ Size \in Nat /\ Size > 0
  /\ ReadSize \in Nat /\ ReadSize > 0
  /\ RecordSize \in Nat /\ RecordSize > 0
  /\ SendBuffer \in Nat /\ SendBuffer > 0
  /\ Word \in Nat /\ Size + 1 < Word
  /\ MaxRecords \in Nat /\ MaxCalls \in Nat /\ MaxBlocks \in Nat
  BY CountsAssumption

\* Opening and closing the socket.
LEMMA OpenStep ==
  ASSUME ClientInv, Open \/ OpenFails \/ Close
  PROVE  ClientInv'
  <1> USE Counts DEF ClientInv, cliVars, srvVars, histVars
  <1>0. setup' = setup
    BY DEF Open, OpenFails, Close
  <1>1. TypeOK'
    <2>1. code' \in Codes
      BY Zenon DEF Open, OpenFails, Close, TypeOK, Codes
    <2>2. link' \in {"new", "invalid", "closed"} /\ held' \in {held, 0}
      BY DEF Open, OpenFails, Close, Disconnect, CloseSocket
    <2>4. inq' \in Seq({"msg", "alert", "close_notify", "data"})
      BY QueueEmpty, Zenon DEF Open, OpenFails, Close, Disconnect, Kinds, TypeOK
    <2>3. UNCHANGED <<setup, cpc, i, written, calls, inflight, seen, answered, alert, records,
                      refusal, blocks, sent>>
      BY DEF Open, OpenFails, Close
    <2> QED BY <2>1, <2>2, <2>3, <2>4 DEF TypeOK
  <1>2. Counting'
    BY DEF Open, OpenFails, Close, Disconnect, CloseSocket, Counting
  <1>3. Positions'
    BY <1>0, SetupKept DEF Open, OpenFails, Close, Disconnect, CloseSocket, Positions
  <1>4. Queued'
    BY <1>0, SetupKept, QueueEmpty DEF Open, OpenFails, Close, Disconnect, CloseSocket, Queued
  <1>5. Alerted'
    BY <1>0, SetupKept, QueueEmpty DEF Open, OpenFails, Close, Disconnect, CloseSocket, Alerted
  <1> QED BY <1>1, <1>2, <1>3, <1>4, <1>5

\* The calls of the application.
LEMMA CallStep ==
  ASSUME ClientInv, ConnectCall \/ IsConnected \/ ReadCall \/ WriteCall
  PROVE  ClientInv'
  <1> USE Counts DEF ClientInv, cliVars, sockVars, srvVars, histVars,
                     ConnectCall, IsConnected, ReadCall, WriteCall
  <1>0. UNCHANGED <<setup, link, inq, held, inflight, seen, answered, alert, records, refusal, blocks>>
    OBVIOUS
  <1>1. TypeOK'
    <2>1. code' \in Codes
      BY Zenon DEF Codes
    <2>2. /\ cpc' \in {"tcp", "idle", "readwait", "writewait"} /\ i' \in {i, 0}
          /\ written' \in {written, 0} /\ sent' \in {sent, 0}
      BY DEF TypeOK
    <2>3. CASE ConnectCall \/ IsConnected
      BY <1>0, <2>1, <2>2, <2>3 DEF TypeOK
    <2>4. CASE ReadCall \/ WriteCall
      BY <1>0, <2>1, <2>2, <2>4 DEF TypeOK
    <2> QED BY <2>3, <2>4
  <1>2. Counting'
    BY DEF Counting, Reasons
  <1>3. Positions'
    BY <1>0, SetupKept DEF Positions, Queued, Connected, TypeOK, Gone
  <1>4. Queued'
    BY <1>0, SetupKept DEF Queued
  <1>5. Alerted'
    BY <1>0, SetupKept DEF Alerted
  <1> QED BY <1>1, <1>2, <1>3, <1>4, <1>5

\* A step of the client that at most fetches a pending error: what is known about
\* the queue and the server stays.
LEMMA FetchKeeps ==
  ASSUME ClientInv, ErrorFetched \/ link' = link,
         UNCHANGED <<setup, inq, seen, answered, alert, records, refusal>>
  PROVE  /\ Queued' /\ Alerted'
         /\ link' \in {"null", "invalid", "new", "connecting", "up", "refused", "aborted", "fin",
                       "reset", "hup", "closed"}
         /\ link \in {"up"} \cup Gone => link' \in {"up"} \cup Gone
         /\ tls' /\ link' \notin {"null", "invalid", "closed"} => HasTLSLibrary'
  <1>1. \/ link' = link
        \/ link = "reset" /\ link' = "hup"
        \/ link = "refused" /\ link' = "aborted"
    BY Fetched, Zenon
  <1>2. Queued'
    BY <1>1, SetupKept DEF ClientInv, Queued, Gone
  <1>3. Alerted'
    BY SetupKept DEF ClientInv, Alerted
  <1> QED BY <1>1, <1>2, <1>3, SetupKept DEF ClientInv, TypeOK, Positions, Gone

\* The first loop of connect().
LEMMA TcpWaitStep ==
  ASSUME ClientInv, TcpExhausted \/ TcpWait
  PROVE  ClientInv'
  <1> USE Counts DEF cliVars, sockVars, srvVars, histVars
  <1>0. UNCHANGED <<setup, written, calls, inq, held, inflight, seen, answered, alert, records,
                    refusal, blocks, sent>>
    BY DEF TcpExhausted, TcpWait
  <1>1. \/ link' = link /\ cpc' = "idle" /\ i' = 0 /\ code' = code
        \/ /\ ErrorFetched \/ link' = link
           /\ cpc' = "tcp" /\ cpc = "tcpwait" /\ i' = i + 2 /\ code' = "SOCKET_TIMEOUT"
        \/ (ErrorFetched \/ link' = link) /\ cpc' = "idle" /\ i' = 0 /\ code' \in Codes
        \/ /\ ErrorFetched \/ link' = link
           /\ cpc' = "tls" /\ cpc = "tcpwait" /\ i' = 0 /\ code' \in Codes
           /\ link \in {"up", "fin"}
    <2>1. CASE TcpExhausted
      <3>1. code # "SUCCESS"
        BY <2>1 DEF ClientInv, Counting, TypeOK, TcpExhausted
      <3> QED BY <2>1, <3>1, Zenon DEF TcpExhausted, Continue
    <2>2. CASE TcpWait
      <3>1. PICK r \in Codes :
              /\ Wait("CONNECT", r)
              /\ IF r = "SOCKET_TIMEOUT" THEN code' = r /\ cpc' = "tcp" /\ i' = i + 2
                                         ELSE Continue(r, "tls")
        BY <2>2, Zenon DEF TcpWait
      <3>2. cpc = "tcpwait"
        BY <2>2 DEF TcpWait
      <3> QED BY <3>1, <3>2, WaitResult, Zenon DEF Continue
    <2> QED BY <2>1, <2>2
  <1>2. /\ Queued' /\ Alerted'
        /\ link' \in {"null", "invalid", "new", "connecting", "up", "refused", "aborted", "fin",
                      "reset", "hup", "closed"}
        /\ link \in {"up"} \cup Gone => link' \in {"up"} \cup Gone
        /\ tls' /\ link' \notin {"null", "invalid", "closed"} => HasTLSLibrary'
    BY <1>0, <1>1, FetchKeeps, Zenon
  <1>3. TypeOK'
    BY <1>0, <1>1, <1>2 DEF ClientInv, TypeOK, Counting, Codes
  <1>4. Counting'
    BY <1>1 DEF ClientInv, Counting, TypeOK, Reasons
  <1>5. Positions'
    BY <1>0, <1>1, <1>2 DEF ClientInv, Positions, Gone
  <1> QED BY <1>2, <1>3, <1>4, <1>5, Zenon DEF ClientInv

\* ::connect() succeeds on a connection that is up, and otherwise leaves one that
\* has brought nothing.
LEMMA ConnectResult ==
  ASSUME NEW r, SocketConnect(r)
  PROVE  /\ r \in Codes \ Reasons
         /\ \/ r = "SUCCESS" /\ link \in {"up", "fin"} /\ link' = link /\ inq' = inq
            \/ r = "SUCCESS" /\ link = "new" /\ link' = "up" /\ inq' = inq
            \/ /\ r # "SUCCESS" /\ link \notin {"null", "invalid", "closed"}
               /\ link' = "new" /\ inq' = <<>>
            \/ /\ r # "SUCCESS" /\ link \in {"new", "connecting"}
               /\ link' = "connecting" /\ inq' = inq
  <1>1. /\ SocketError("EINVAL") = "SOCKET_INVALID_ARGUMENT"
        /\ SocketError("EINPROGRESS") = "SOCKET_CONNECTION_IN_PROGRESS"
        /\ SocketError("ENETUNREACH") = "SOCKET_CONNECTION_UNREACHED"
        /\ SocketError("EALREADY") = "SOCKET_ALREADY_CONNECTED"
        /\ SocketError("ECONNREFUSED") = "SOCKET_CONNECTION_REFUSED"
        /\ SocketError("ECONNABORTED") = "UNKNOWN_ERROR"
        /\ SocketError("ECONNRESET") = "UNKNOWN_ERROR"
    BY DEF SocketError
  <1> QED BY <1>1 DEF SocketConnect, Codes, Reasons

LEMMA TcpConnectStep ==
  ASSUME ClientInv, TcpConnect
  PROVE  ClientInv'
  <1> USE Counts DEF srvVars, histVars
  <1>0. /\ UNCHANGED <<setup, written, calls, held, inflight, seen, answered, alert, records,
                       refusal, blocks, sent>>
        /\ cpc = "tcp" /\ i < MaxRetries
    BY DEF TcpConnect
  <1>1. PICK r \in Codes :
          /\ SocketConnect(r)
          /\ CASE r = "SUCCESS"  -> Continue(r, "tls")
               [] r \in Pending  -> code' = r /\ cpc' = "tcpwait" /\ i' = i
               [] OTHER          -> code' = r /\ cpc' = cpc /\ i' = i + 1
    BY Zenon DEF TcpConnect
  <1>2. /\ code' \in Codes /\ code' = r /\ code' \notin Reasons
        /\ r = "SUCCESS" => cpc' = "tls" /\ i' = 0
        /\ r # "SUCCESS" => (cpc' = "tcpwait" /\ i' = i) \/ (cpc' = "tcp" /\ i' = i + 1)
    <2>1. "SUCCESS" \notin Pending
      BY DEF Pending
    <2>2. CASE r = "SUCCESS" BY <1>1, <2>1, <2>2, ConnectResult, Zenon DEF Continue
    <2>3. CASE r \in Pending
      <3>1. r # "SUCCESS"
        BY <2>1, <2>3
      <3>2. code' = r /\ cpc' = "tcpwait" /\ i' = i
        BY <1>1, <2>3, <3>1, Zenon
      <3>3. r \in Codes \ Reasons
        BY <1>1, ConnectResult, Zenon
      <3> QED BY <3>1, <3>2, <3>3
    <2>4. CASE r # "SUCCESS" /\ r \notin Pending BY <1>0, <1>1, <2>4, ConnectResult, Zenon
    <2> QED BY <2>2, <2>3, <2>4
  <1>3. \/ r = "SUCCESS" /\ link \in {"up", "fin"} /\ link' = link /\ inq' = inq
        \/ r = "SUCCESS" /\ link = "new" /\ link' = "up" /\ inq' = inq
        \/ /\ r # "SUCCESS" /\ link \notin {"null", "invalid", "closed"}
           /\ link' = "new" /\ inq' = <<>>
        \/ /\ r # "SUCCESS" /\ link \in {"new", "connecting"}
           /\ link' = "connecting" /\ inq' = inq
    BY <1>1, ConnectResult, Zenon
  <1>4. TypeOK'
    <2>1. inq' \in Seq({"msg", "alert", "close_notify", "data"})
      BY <1>3, QueueEmpty, Zenon DEF ClientInv, TypeOK, Kinds
    <2> QED BY <1>0, <1>2, <1>3, <2>1 DEF ClientInv, TypeOK
  <1>5. Counting'
    BY <1>0, <1>2 DEF ClientInv, Counting, TypeOK
  <1>6. Positions'
    BY <1>0, <1>2, <1>3, SetupKept DEF ClientInv, Positions, Gone
  <1>7. Queued'
    BY <1>0, <1>3, SetupKept, QueueEmpty DEF ClientInv, Queued, Positions
  <1>8. Alerted'
    BY <1>0, <1>3, SetupKept, QueueEmpty DEF ClientInv, Alerted
  <1> QED BY <1>4, <1>5, <1>6, <1>7, <1>8, Zenon DEF ClientInv

\* The waits of the later phases, with what they go on to.
LEMMA LaterWaitStep ==
  ASSUME ClientInv, HandshakeWait \/ ProbeWait \/ ReadWait \/ WriteWait
  PROVE  ClientInv'
  <1> USE Counts DEF srvVars, histVars
  <1> DEFINE Onward == \/ cpc = "tlswait" /\ cpc' = "tls"
                       \/ cpc = "probewait" /\ cpc' = "probe" /\ i' = i
                       \/ cpc = "readwait" /\ cpc' \in {"read", "readwait"}
                       \/ cpc = "writewait" /\ cpc' \in {"write", "writewait"}
                       \/ cpc' = "idle"
  <1>0. UNCHANGED <<setup, written, calls, inq, held, inflight, seen, answered, alert, records,
                    refusal, blocks, sent>>
    BY DEF HandshakeWait, ProbeWait, ReadWait, WriteWait
  <1>1. /\ ErrorFetched \/ link' = link
        /\ code' \in Codes /\ Onward
        /\ i' \in {0, i} \/ (i' = i + 1 /\ i' < MaxRetries)
        /\ cpc \in {"tlswait", "probewait", "readwait", "writewait"}
    <2>1. CASE HandshakeWait
      <3>1. PICK r \in Codes :
              LET n == IF r = "SOCKET_TIMEOUT" THEN i + 1 ELSE i
              IN  /\ Wait("CONNECT", r)
                  /\ IF r \in {"SUCCESS", "SOCKET_TIMEOUT"} /\ n < MaxRetries
                     THEN code' = r /\ cpc' = "tls" /\ i' = n
                     ELSE Return(r)
        BY <2>1, Zenon DEF HandshakeWait
      <3>2. cpc = "tlswait"
        BY <2>1 DEF HandshakeWait
      <3>3. r = "SUCCESS" => cpc' \in {"tls", "idle"}
        BY <3>1, Zenon DEF Return, Continue
      <3> QED BY <3>1, <3>2, WaitResult, Zenon DEF Return, Continue
    <2>2. CASE ProbeWait
      <3>1. PICK r \in Codes :
              /\ Wait("READ", r)
              /\ CASE r = "SUCCESS"        -> code' = r /\ cpc' = "probe" /\ i' = i
                   [] r = "SOCKET_TIMEOUT" -> Return("SUCCESS")
                   [] OTHER                -> Return(r)
        BY <2>2, Zenon DEF ProbeWait
      <3>2. cpc = "probewait" /\ "SUCCESS" \in Codes
        BY <2>2 DEF ProbeWait, Codes
      <3> QED BY <3>1, <3>2, WaitResult, Zenon DEF Return, Continue
    <2>3. ASSUME NEW p, NEW q, NEW type \in {"READ", "WRITE"}, NEW r \in Codes,
                 Wait(type, r),
                 CASE r = "SUCCESS"        -> code' = r /\ cpc' = q /\ i' = i
                   [] r = "SOCKET_TIMEOUT" -> Again(r, p)
                   [] OTHER                -> Return(r)
          PROVE  /\ ErrorFetched \/ link' = link
                 /\ code' \in Codes /\ cpc' \in {p, q, "idle"}
                 /\ i' \in {0, i} \/ (i' = i + 1 /\ i' < MaxRetries)
      <3>1. CASE r = "SUCCESS" BY <2>3, <3>1, WaitResult, Zenon
      <3>2. CASE r = "SOCKET_TIMEOUT" BY <2>3, <3>2, WaitResult, Zenon DEF Again
      <3>3. CASE r \notin {"SUCCESS", "SOCKET_TIMEOUT"}
        BY <2>3, <3>3, WaitResult, Zenon DEF Return, Continue
      <3> QED BY <3>1, <3>2, <3>3, Zenon
    <2>4. CASE ReadWait
      BY <2>3, <2>4, Zenon DEF ReadWait
    <2>5. CASE WriteWait
      BY <2>3, <2>5, Zenon DEF WriteWait
    <2> QED BY <2>1, <2>2, <2>4, <2>5
  <1>2. /\ Queued' /\ Alerted'
        /\ link' \in {"null", "invalid", "new", "connecting", "up", "refused", "aborted", "fin",
                      "reset", "hup", "closed"}
        /\ link \in {"up"} \cup Gone => link' \in {"up"} \cup Gone
        /\ tls' /\ link' \notin {"null", "invalid", "closed"} => HasTLSLibrary'
    BY <1>0, <1>1, FetchKeeps, Zenon
  <1>3. TypeOK'
    BY <1>0, <1>1, <1>2 DEF ClientInv, TypeOK, Codes
  <1>4. Counting'
    BY <1>1 DEF ClientInv, Counting, TypeOK
  <1>5. Positions'
    BY <1>0, <1>1, <1>2, SetupKept DEF ClientInv, Positions
  <1> QED BY <1>2, <1>3, <1>4, <1>5, Zenon DEF ClientInv

\* A code names a reason of the TLS layer only if that is the reason.
Justified(r) ==
  /\ r = "TLS_VERSION_NOT_SUPPORTED" => tls /\ version = 0
  /\ r = "TLS_CIPHER_SUITE_MISMATCH" => version # 0 /\ ~Agreed
  /\ r = "TLS_CLIENT_CERT_REJECTED" => refusal = "certificate"
  /\ r = "TLS_SERVER_CERT_INVALID" => cfg.verifyServer /\ server.cert = "invalid"
  /\ r = "TLS_HOSTNAME_MISMATCH" =>
       cfg.verifyServer /\ cfg.verifyHostname /\ server.cert = "mismatch"

\* createTLSResult names the real reason: the first message settles whether a
\* handshake_failure is about the cipher or about the client's certificate.
LEMMA ResultJustified ==
  ASSUME ClientInv, NEW n \in Nat, n = seen \/ (n = seen + 1 /\ BadServer),
         NEW error \in {"SSL", "WANT", "SYSCALL", "ZERO_RETURN"}
  PROVE  /\ Justified(CreateTLSResult(error, n))
         /\ CreateTLSResult(error, n) # "SUCCESS"
         /\ error # "WANT" => CreateTLSResult(error, n) \notin Pending
         /\ CreateTLSResult(error, n) \in Codes
  <1>1. server.cert \in {"valid", "invalid", "mismatch"}
    BY SetupFacts DEF ClientInv, TypeOK
  <1>2. CASE error = "WANT"
    BY <1>1, <1>2, TLSResult DEF Justified, Codes
  <1>3. CASE error \in {"SYSCALL", "ZERO_RETURN"}
    BY <1>1, <1>3, TLSResult DEF Justified, Codes, Pending
  <1>4. CASE error = "SSL" /\ BadServer /\ n > 0
    BY <1>1, <1>4, TLSResult DEF Justified, Codes, Pending
  <1>5. CASE error = "SSL" /\ ~(BadServer /\ n > 0)
    <2>1. CreateTLSResult("SSL", n) = AlertCode(n)
      BY <1>1, <1>5, TLSResult, Zenon
    <2>2. n = seen
      BY <1>5 DEF ClientInv, TypeOK
    <2>3. /\ alert = "protocol_version" => tls /\ version = 0
          /\ alert = "handshake_failure" /\ n = 0 => version # 0 /\ ~Agreed
          /\ alert = "handshake_failure" /\ n > 0 => refusal = "certificate"
          /\ alert \in {"certificate_required", "unknown_ca"} => refusal = "certificate"
      BY <2>2 DEF ClientInv, Alerted
    <2>4. Justified(AlertCode(n))
      BY <2>3, AlertNamed DEF Justified
    <2>5. AlertCode(n) # "SUCCESS" /\ AlertCode(n) \notin Pending /\ AlertCode(n) \in Codes
      BY AlertNamed DEF Pending, Codes
    <2> QED BY <1>5, <2>1, <2>4, <2>5, Zenon
  <1> QED BY <1>2, <1>3, <1>4, <1>5, Zenon

\* Taking the front record off the queue, a handshake message among them.
LEMMA TakeKeeps ==
  ASSUME ClientInv, inq # <<>>, inq' = Tail(inq), link' = link,
         UNCHANGED <<setup, answered, alert, records, refusal>>,
         \/ Head(inq) = "msg" /\ seen' = seen + 1 /\ seen < Flights
         \/ seen' = seen /\ (Head(inq) \in {"alert", "close_notify"} \/ ~tls \/ seen = Flights)
  PROVE  /\ Queued' /\ Alerted' /\ inq' \in Seq({"msg", "alert", "close_notify", "data"})
  <1> USE Counts
  <1>0. inq \in Seq(Kinds)
    BY DEF ClientInv, TypeOK, Kinds
  <1>1. /\ inq' \in Seq(Kinds) /\ Len(inq') = Len(inq) - 1 /\ Len(inq) > 0
        /\ \A kind : Holds(inq', kind) => Holds(inq, kind)
        /\ Holds(inq, Head(inq)) /\ Head(inq) \in Kinds
    BY <1>0, QueueTail, Zenon
  <1>2. Queued'
    <2>1. link \notin {"null", "invalid", "new", "connecting", "refused", "aborted"}
      BY DEF ClientInv, Queued
    <2>2. Head(inq) = "msg" => tls /\ Agreed
      BY <1>1 DEF ClientInv, Queued
    <2>3. Holds(inq', "msg") \/ seen' > 0 => tls /\ Agreed
      BY <1>1, <2>2 DEF ClientInv, Queued, TypeOK
    <2>4. /\ Holds(inq', "data") => records > 0
          /\ Holds(inq', "close_notify") => link \in Gone
          /\ Holds(inq', "alert") => alert # "none"
      BY <1>1 DEF ClientInv, Queued
    <2>5. link = "up" /\ tls /\ alert = "none" /\ seen' < Flights => Len(inq') = answered - seen'
      BY <1>0, <1>1 DEF ClientInv, Queued, TypeOK, Gone
    <2> QED BY <2>1, <2>3, <2>4, <2>5, SetupKept DEF Queued
  <1>3. Alerted'
    <2>1. alert # "none" /\ version = TLS1_2_VERSION => seen' < Flights /\ ~Holds(inq', "msg")
      BY <1>1 DEF ClientInv, Alerted
    <2>2. alert = "handshake_failure" =>
            \/ version # 0 /\ ~Agreed /\ seen' = 0
            \/ refusal = "certificate" /\ seen' > 0
      BY <1>1 DEF ClientInv, Alerted, Queued, TypeOK
    <2> QED BY <2>1, <2>2, SetupKept DEF ClientInv, Alerted
  <1> QED BY <1>1, <1>2, <1>3, Zenon DEF Kinds

\* reconnect(false) ends in one of these ways.
LEMMA ReconnectResult ==
  ASSUME ClientInv, seen < Flights, NEW r \in Codes, Reconnect(r)
  PROVE  /\ Justified(r)
         /\ \/ ~tls /\ r = "SUCCESS" /\ UNCHANGED <<link, inq, seen>>
            \/ /\ tls /\ inq # <<>> /\ Head(inq) = "msg"
               /\ inq' = Tail(inq) /\ seen' = seen + 1 /\ link' = link
               /\ \/ r \notin Pending /\ r # "SUCCESS"
                  \/ r = "SUCCESS" /\ ~BadServer /\ seen + 1 = Flights
            \/ /\ inq # <<>> /\ Head(inq) \in {"alert", "close_notify"}
               /\ inq' = Tail(inq) /\ UNCHANGED <<link, seen>> /\ r # "SUCCESS"
            \/ /\ ErrorFetched \/ link' = link
               /\ UNCHANGED <<inq, seen>> /\ r # "SUCCESS"
  <1> USE Counts
  <1>0. seen \in Nat /\ seen + 1 \in Nat
    BY DEF ClientInv, TypeOK
  <1>1. CASE PlainReconnect(r)
    BY <1>1 DEF PlainReconnect, Justified
  <1>2. CASE /\ tls /\ Front("msg") /\ (BadServer \/ seen + 1 = Flights)
             /\ r = IF BadServer THEN CreateTLSResult("SSL", seen + 1) ELSE "SUCCESS"
             /\ inq' = Tail(inq) /\ seen' = seen + 1 /\ UNCHANGED link
    <2>1. CASE BadServer
      <3>1. r = CreateTLSResult("SSL", seen + 1)
        BY <1>2, <2>1, Zenon
      <3>2. Justified(r) /\ r # "SUCCESS" /\ r \notin Pending
        BY <1>0, <2>1, <3>1, ResultJustified, Zenon
      <3> QED BY <1>2, <3>2, Zenon DEF Front
    <2>2. CASE ~BadServer
      <3>1. r = "SUCCESS" /\ seen + 1 = Flights
        BY <1>2, <2>2, Zenon
      <3>2. Justified(r)
        BY <3>1 DEF Justified
      <3> QED BY <1>2, <2>2, <3>1, <3>2, Zenon DEF Front
    <2> QED BY <2>1, <2>2
  <1>3. CASE /\ tls /\ (Front("alert") \/ Front("close_notify"))
             /\ r = CreateTLSResult(IF Front("alert") THEN "SSL" ELSE "ZERO_RETURN", seen)
             /\ inq' = Tail(inq) /\ UNCHANGED <<link, seen>>
    <2>1. r = CreateTLSResult("SSL", seen) \/ r = CreateTLSResult("ZERO_RETURN", seen)
      BY <1>3, Zenon
    <2>2. Justified(r) /\ r # "SUCCESS"
      BY <1>0, <2>1, ResultJustified, Zenon
    <2> QED BY <1>3, <2>2, Zenon DEF Front
  <1>4. CASE /\ tls /\ inq = <<>> /\ link = "up"
             /\ r = CreateTLSResult("WANT", seen)
             /\ UNCHANGED <<link, inq, seen>>
    BY <1>0, <1>4, ResultJustified, Zenon
  <1>5. CASE /\ tls /\ inq = <<>> /\ link \in Gone
             /\ r = CreateTLSResult("SYSCALL", seen) \/ (link = "fin" /\ r = CreateTLSResult("SSL", seen))
             /\ ErrorFetched /\ UNCHANGED <<inq, seen>>
    BY <1>0, <1>5, ResultJustified, Zenon
  <1>6. CASE tls /\ r = "TLS_SETFD_ERROR" /\ UNCHANGED <<link, inq, seen>>
    BY <1>6 DEF Justified
  <1> QED BY <1>1, <1>2, <1>3, <1>4, <1>5, <1>6, Zenon DEF Reconnect

\* The handshake.
LEMMA HandshakeStep ==
  ASSUME ClientInv, HandshakeMessage \/ Handshake
  PROVE  ClientInv'
  <1> USE Counts DEF cliVars, srvVars, histVars
  <1>0. /\ UNCHANGED <<setup, written, calls, held, inflight, answered, alert, records, refusal,
                       blocks, sent>>
        /\ cpc = "tls" /\ seen < Flights /\ link \in {"up"} \cup Gone
    BY DEF HandshakeMessage, Handshake, ClientInv, Positions
  <1>1. \/ link' = link /\ inq' = inq /\ seen' = seen
        \/ ErrorFetched /\ inq' = inq /\ seen' = seen
        \/ /\ inq # <<>> /\ inq' = Tail(inq) /\ link' = link
           /\ \/ Head(inq) = "msg" /\ seen' = seen + 1
              \/ seen' = seen /\ Head(inq) \in {"alert", "close_notify"}
    <2>1. CASE HandshakeMessage
      BY <2>1 DEF HandshakeMessage, Front
    <2>2. CASE Handshake
      <3>1. PICK r \in Codes : Reconnect(r)
        BY <2>2, Zenon DEF Handshake
      <3> QED BY <1>0, <3>1, ReconnectResult, Zenon
    <2> QED BY <2>1, <2>2
  <1>2. \/ UNCHANGED <<cpc, i, code>> /\ seen' < Flights
        \/ cpc' = "tlswait" /\ i' = i /\ code' \in Codes /\ seen' = seen
        \/ cpc' = "idle" /\ i' = 0 /\ code' \in Codes
        \/ cpc' = "probe" /\ i' = 0 /\ code' \in Codes /\ (tls => seen' = Flights /\ ~BadServer)
    <2>1. CASE HandshakeMessage
      BY <2>1 DEF HandshakeMessage
    <2>2. CASE Handshake
      <3>1. PICK r \in Codes :
              /\ Reconnect(r)
              /\ IF r \in Pending THEN code' = r /\ cpc' = "tlswait" /\ i' = i
                                  ELSE Continue(r, "probe")
        BY <2>2, Zenon DEF Handshake
      <3>2. CASE r \in Pending
        <4>1. r # "SUCCESS"
          BY <3>2 DEF Pending
        <4>2. seen' = seen
          BY <1>0, <3>1, <3>2, <4>1, ReconnectResult, Zenon
        <4> QED BY <3>1, <3>2, <4>2, Zenon
      <3>3. CASE r = "SUCCESS"
        <4>1. tls => seen' = Flights /\ ~BadServer
          BY <1>0, <3>1, <3>3, ReconnectResult, Zenon
        <4>2. r \notin Pending
          BY <3>3 DEF Pending
        <4> QED BY <3>1, <3>3, <4>1, <4>2, Zenon DEF Continue
      <3>4. CASE r \notin Pending /\ r # "SUCCESS"
        BY <3>1, <3>4, Zenon DEF Continue
      <3> QED BY <3>2, <3>3, <3>4, Zenon
    <2> QED BY <2>1, <2>2
  <1>3. /\ Queued' /\ Alerted' /\ inq' \in Seq({"msg", "alert", "close_notify", "data"})
        /\ link' \in {"up"} \cup Gone /\ (tls' /\ link' # "null" => HasTLSLibrary')
    <2>1. CASE (ErrorFetched \/ link' = link) /\ inq' = inq /\ seen' = seen
      <3>1. /\ Queued' /\ Alerted' /\ link' \in {"up"} \cup Gone
            /\ tls' /\ link' \notin {"null", "invalid", "closed"} => HasTLSLibrary'
        BY <1>0, <2>1, FetchKeeps, Zenon
      <3> QED BY <2>1, <3>1 DEF ClientInv, TypeOK, Gone
    <2>2. CASE /\ inq # <<>> /\ inq' = Tail(inq) /\ link' = link
               /\ \/ Head(inq) = "msg" /\ seen' = seen + 1
                  \/ seen' = seen /\ Head(inq) \in {"alert", "close_notify"}
      <3>1. Queued' /\ Alerted' /\ inq' \in Seq({"msg", "alert", "close_notify", "data"})
        BY <1>0, <2>2, TakeKeeps, Zenon
      <3>2. tls' => HasTLSLibrary'
        BY <1>0, <2>2, SetupKept DEF ClientInv, Positions, Gone
      <3> QED BY <1>0, <2>2, <3>1, <3>2, Zenon
    <2> QED BY <1>1, <2>1, <2>2, Zenon
  <1>4. TypeOK'
    BY <1>0, <1>1, <1>2, <1>3 DEF ClientInv, TypeOK, Codes, Gone
  <1>5. Counting'
    BY <1>0, <1>2 DEF ClientInv, Counting, TypeOK
  <1>6. Positions'
    BY <1>0, <1>2, <1>3, SetupKept DEF ClientInv, Positions, Gone
  <1> QED BY <1>3, <1>4, <1>5, <1>6, Zenon DEF ClientInv

\* postHandshakeProbe() ends in one of these ways.
LEMMA ProbeResult ==
  ASSUME ClientInv, NEW r, PostHandshakeProbe(r)
  PROVE  /\ Justified(r)
         /\ \/ /\ r = "SUCCESS" /\ inq # <<>> /\ Head(inq) = "data"
               /\ inq' = Tail(inq) /\ held' = RecordSize /\ link' = link
            \/ /\ r # "SUCCESS" /\ inq # <<>>
               /\ inq' = Tail(inq) /\ held' = held /\ link' = link
            \/ inq = <<>> /\ inq' = inq /\ held' = held /\ (ErrorFetched \/ link' = link)
  <1>0. seen \in Nat
    BY Counts DEF ClientInv, TypeOK
  <1>1. Justified("SUCCESS") /\ Justified("SOCKET_CONNECTION_NEED_TO_BE_BLOCKED")
    BY DEF Justified
  <1>2. CASE Front("data")
             /\ r = "SUCCESS" /\ inq' = Tail(inq) /\ held' = RecordSize /\ UNCHANGED link
    BY <1>1, <1>2, Zenon DEF Front
  <1>3. CASE /\ Front("alert") \/ Front("close_notify")
             /\ r = CreateTLSResult(IF Front("alert") THEN "SSL" ELSE "ZERO_RETURN", seen)
             /\ inq' = Tail(inq) /\ UNCHANGED <<link, held>>
    <2>1. r = CreateTLSResult("SSL", seen) \/ r = CreateTLSResult("ZERO_RETURN", seen)
      BY <1>3, Zenon
    <2>2. Justified(r) /\ r # "SUCCESS"
      BY <1>0, <2>1, ResultJustified, Zenon
    <2> QED BY <1>3, <2>2, Zenon DEF Front
  <1>4. CASE /\ inq = <<>> /\ link = "up"
             /\ r = "SOCKET_CONNECTION_NEED_TO_BE_BLOCKED"
             /\ UNCHANGED <<link, inq, held>>
    BY <1>1, <1>4, Zenon
  <1>5. CASE /\ inq = <<>> /\ link \in Gone
             /\ r = "SUCCESS" \/ (link = "fin" /\ r = CreateTLSResult("SSL", seen))
             /\ ErrorFetched /\ UNCHANGED <<inq, held>>
    BY <1>0, <1>1, <1>5, ResultJustified, Zenon
  <1> QED BY <1>2, <1>3, <1>4, <1>5, Zenon DEF PostHandshakeProbe

\* The smaller of two numbers.
LEMMA MinOfTwo ==
  ASSUME NEW a \in Nat, NEW b \in Nat
  PROVE  /\ Min({a, b}) \in {a, b}
         /\ Min({a, b}) <= a /\ Min({a, b}) <= b
  <1>1. \E x \in {a, b} : \A y \in {a, b} : x =< y
    <2>1. CASE a <= b BY <2>1
    <2>2. CASE b <= a BY <2>2
    <2> QED BY <2>1, <2>2
  <1>2. Min({a, b}) \in {a, b} /\ \A y \in {a, b} : Min({a, b}) =< y
    BY <1>1, Zenon DEF Min
  <1> QED BY <1>2

\* recv() or SSL_read() takes at most one record apart.
LEMMA ReadResult ==
  ASSUME ClientInv, NEW r, NEW n, SocketRead(r, n)
  PROVE  /\ held' \in 0..RecordSize
         /\ \/ inq' = inq /\ (ErrorFetched \/ link' = link)
            \/ inq # <<>> /\ inq' = Tail(inq) /\ link' = link
  <1> DEFINE data  == held > 0 \/ Front("data")
             front == IF held > 0 THEN held ELSE RecordSize
  <1>1. CASE /\ data /\ r = "SUCCESS" /\ n = Min({front, ReadSize})
             /\ held' = front - n
             /\ inq' = IF held > 0 THEN inq ELSE Tail(inq)
             /\ UNCHANGED link
    <2>1. front \in Nat /\ front <= RecordSize /\ ReadSize \in Nat /\ RecordSize \in Nat
      BY Counts DEF ClientInv, TypeOK
    <2>2. n \in Nat /\ n <= front
      <3> HIDE DEF front
      <3> QED BY <1>1, <2>1, MinOfTwo
    <2>3. held' \in 0..RecordSize
      BY <1>1, <2>1, <2>2
    <2>4. CASE held > 0
      BY <1>1, <2>3, <2>4
    <2>5. CASE ~(held > 0)
      BY <1>1, <2>3, <2>5 DEF Front
    <2> QED BY <2>4, <2>5
  <1>2. CASE /\ held' = held
             /\ \/ inq # <<>> /\ inq' = Tail(inq) /\ link' = link
                \/ inq' = inq /\ (ErrorFetched \/ link' = link)
    BY <1>2 DEF ClientInv, TypeOK
  <1> QED BY <1>1, <1>2, Zenon DEF SocketRead

\* After the handshake: tickets, the probe and read() take records off the queue.
LEMMA TakeStep ==
  ASSUME ClientInv, ProbeTicket \/ Probe \/ Read
  PROVE  ClientInv'
  <1> USE Counts DEF cliVars, srvVars, histVars
  <1>0. /\ UNCHANGED <<setup, written, calls, inflight, seen, answered, alert, records, refusal,
                       blocks, sent>>
        /\ cpc \in {"probe", "read"} /\ link \in {"up"} \cup Gone
        /\ tls => seen = Flights /\ ~BadServer
    BY DEF ProbeTicket, Probe, Read, ClientInv, Positions
  <1>1. /\ held' \in 0..RecordSize
        /\ \/ inq' = inq /\ (ErrorFetched \/ link' = link)
           \/ inq # <<>> /\ inq' = Tail(inq) /\ link' = link
    <2>0. held \in 0..RecordSize /\ RecordSize \in 0..RecordSize
      BY DEF ClientInv, TypeOK
    <2>1. CASE ProbeTicket
      BY <2>0, <2>1, Zenon DEF ProbeTicket, Front
    <2>2. CASE Probe
      BY <2>0, <2>2, ProbeResult, Zenon DEF Probe
    <2>3. CASE Read
      BY <2>3, ReadResult, Zenon DEF Read
    <2> QED BY <2>1, <2>2, <2>3
  <1>2. \/ UNCHANGED <<cpc, i, code>>
        \/ cpc = "probe" /\ cpc' = "probewait" /\ i' = i /\ code' \in Codes /\ tls
        \/ cpc = "read" /\ cpc' = "readwait" /\ i' = i + 1 /\ i' < MaxRetries /\ code' \in Codes
        \/ cpc' = "idle" /\ i' = 0 /\ code' \in Codes
    <2>0. "SUCCESS" \in Codes /\ "SOCKET_CLOSED" \in Codes
      BY DEF Codes
    <2>1. CASE ProbeTicket
      BY <2>1 DEF ProbeTicket
    <2>2. CASE Probe
      <3>1. version = TLS1_3_VERSION => tls
        BY SetupFacts DEF ClientInv, TypeOK, TLS1_3_VERSION
      <3> QED BY <2>0, <2>2, <3>1, Zenon DEF Probe, Return, Continue
    <2>3. CASE Read
      <3>1. cpc = "read"
        BY <2>3 DEF Read
      <3>2. PICK r \in Codes, n \in -1..RecordSize :
              CASE n = 0 -> Return("SOCKET_CLOSED")
                [] n # 0 /\ r = "SOCKET_CONNECTION_NEED_TO_BE_BLOCKED" -> Again(r, "readwait")
                [] OTHER -> Return(r)
        BY <2>3, Zenon DEF Read
      <3>3. CASE n = 0
        BY <2>0, <3>2, <3>3, Zenon DEF Return, Continue
      <3>4. CASE n # 0 /\ r = "SOCKET_CONNECTION_NEED_TO_BE_BLOCKED"
        BY <3>1, <3>2, <3>4, Zenon DEF Again
      <3>5. CASE n # 0 /\ r # "SOCKET_CONNECTION_NEED_TO_BE_BLOCKED"
        BY <3>2, <3>5, Zenon DEF Return, Continue
      <3> QED BY <3>3, <3>4, <3>5, Zenon
    <2> QED BY <2>1, <2>2, <2>3
  <1>3. /\ Queued' /\ Alerted' /\ inq' \in Seq({"msg", "alert", "close_notify", "data"})
        /\ link' \in {"up"} \cup Gone /\ (tls' => HasTLSLibrary')
    <2>1. CASE inq' = inq /\ (ErrorFetched \/ link' = link)
      <3>1. /\ Queued' /\ Alerted' /\ link' \in {"up"} \cup Gone
            /\ tls' /\ link' \notin {"null", "invalid", "closed"} => HasTLSLibrary'
        BY <1>0, <2>1, FetchKeeps, Zenon
      <3> QED BY <2>1, <3>1 DEF ClientInv, TypeOK, Gone
    <2>2. CASE inq # <<>> /\ inq' = Tail(inq) /\ link' = link
      <3>1. Queued' /\ Alerted' /\ inq' \in Seq({"msg", "alert", "close_notify", "data"})
        BY <1>0, <2>2, TakeKeeps, Zenon
      <3>2. tls' => HasTLSLibrary'
        BY <1>0, <2>2, SetupKept DEF ClientInv, Positions, Gone
      <3> QED BY <1>0, <2>2, <3>1, <3>2, Zenon
    <2> QED BY <1>1, <2>1, <2>2, Zenon
  <1>4. TypeOK'
    BY <1>0, <1>1, <1>2, <1>3 DEF ClientInv, TypeOK, Codes, Gone
  <1>5. Counting'
    BY <1>0, <1>2 DEF ClientInv, Counting, TypeOK
  <1>6. Positions'
    BY <1>0, <1>2, <1>3, SetupKept DEF ClientInv, Positions, Gone
  <1> QED BY <1>3, <1>4, <1>5, <1>6, Zenon DEF ClientInv

\* size_t arithmetic stays in its range, and is exact where nothing wraps.
LEMMA Modulo ==
  ASSUME NEW a \in Int
  PROVE  /\ a % Word \in 0..Word - 1
         /\ a \in 0..Word - 1 => a % Word = a
  BY Counts

\* send() or SSL_write(): the bytes taken fit what was offered and the buffer.
LEMMA WriteResult ==
  ASSUME ClientInv, NEW size \in Nat, NEW r, NEW n, SocketWrite(size, r, n)
  PROVE  \/ /\ r = "SUCCESS" /\ n \in Nat /\ n > 0 /\ n <= size
            /\ inflight' \in 0..SendBuffer /\ UNCHANGED <<link, blocks>>
         \/ /\ r = "SOCKET_CONNECTION_NEED_TO_BE_BLOCKED" /\ n = -1 /\ blocks < MaxBlocks
            /\ blocks' = blocks + 1 /\ UNCHANGED <<link, inflight>>
         \/ /\ r = "UNKNOWN_ERROR" /\ n = -1 /\ ErrorFetched /\ UNCHANGED <<inflight, blocks>>
  <1>1. /\ SocketError("EWOULDBLOCK") = "SOCKET_CONNECTION_NEED_TO_BE_BLOCKED"
        /\ SocketError("EPIPE") = "UNKNOWN_ERROR"
    BY DEF SocketError
  <1>2. CASE /\ n \in 1..Min({size, SendBuffer - inflight})
             /\ r = "SUCCESS"
             /\ inflight' = inflight + n /\ UNCHANGED <<link, blocks>>
    <2>1. inflight \in Nat /\ SendBuffer - inflight \in Nat /\ SendBuffer \in Nat
      BY Counts DEF ClientInv, TypeOK
    <2>2. PICK room \in Nat : room = SendBuffer - inflight
      BY <2>1
    <2>3. Min({size, room}) \in Nat /\ Min({size, room}) <= size /\ Min({size, room}) <= room
      BY <2>2, MinOfTwo
    <2>4. n \in 1..Min({size, room})
      BY <1>2, <2>2
    <2>5. n \in Nat /\ n > 0 /\ n <= size /\ n <= room
      BY <2>3, <2>4
    <2> QED BY <1>2, <2>1, <2>2, <2>5
  <1> QED BY <1>1, <1>2, Zenon DEF SocketWrite

\* What one send of write() does.
LEMMA WriteEffect ==
  ASSUME ClientInv, Write
  PROVE  \E n \in Int :
           /\ n <= (Size - written) % Word
           /\ \/ /\ n > 0 /\ sent' = sent + n /\ written' = (written + n) % Word
                 /\ code' = "SUCCESS" /\ i' = i /\ blocks' = blocks /\ link' = link
                 /\ cpc' = IF written' = Size THEN "idle" ELSE "writewait"
              \/ /\ n = -1 /\ sent' = sent /\ written' = (written + n) % Word
                 /\ code' = "SOCKET_CONNECTION_NEED_TO_BE_BLOCKED" /\ i' = i
                 /\ blocks < MaxBlocks /\ blocks' = blocks + 1 /\ link' = link
                 /\ cpc' = IF written' = Size THEN "idle" ELSE "writewait"
              \/ /\ n = -1 /\ sent' = sent /\ written' = written
                 /\ code' = "UNKNOWN_ERROR" /\ i' = 0 /\ cpc' = "idle"
                 /\ blocks' = blocks /\ ErrorFetched
           /\ inflight' \in 0..SendBuffer
  <1> USE Counts
  <1>1. PICK r \in Codes, n \in -1..Word :
          /\ SocketWrite((Size - written) % Word, r, n)
          /\ sent' = IF n > 0 THEN sent + n ELSE sent
          /\ IF r \in {"SUCCESS", "SOCKET_CONNECTION_NEED_TO_BE_BLOCKED"}
             THEN /\ written' = (written + n) % Word
                  /\ code' = r /\ i' = i
                  /\ cpc' = IF written' = Size THEN "idle" ELSE "writewait"
             ELSE /\ written' = written
                  /\ Return(r)
    BY Zenon DEF Write
  <1>2. Size - written \in Int /\ inflight \in 0..SendBuffer /\ n \in Int
    BY DEF ClientInv, TypeOK
  <1>3. PICK size \in Nat : size = (Size - written) % Word
    BY <1>2, Modulo
  <1>4. SocketWrite(size, r, n)
    BY <1>1, <1>3, Zenon
  <1>5. n <= size
    <2>1. \/ n \in Nat /\ n > 0 /\ n <= size
          \/ n = -1
      BY <1>4, WriteResult
    <2> QED BY <1>2, <2>1
  <1>6. n = -1 => ~(n > 0)
    OBVIOUS
  <1>7. CASE /\ r = "SUCCESS" /\ n \in Nat /\ n > 0
             /\ inflight' \in 0..SendBuffer /\ UNCHANGED <<link, blocks>>
    BY <1>1, <1>2, <1>3, <1>5, <1>7, Zenon
  <1>8. CASE /\ r = "SOCKET_CONNECTION_NEED_TO_BE_BLOCKED" /\ n = -1 /\ blocks < MaxBlocks
             /\ blocks' = blocks + 1 /\ UNCHANGED <<link, inflight>>
    BY <1>1, <1>2, <1>3, <1>5, <1>6, <1>8, Zenon
  <1>9. CASE r = "UNKNOWN_ERROR" /\ n = -1 /\ ErrorFetched /\ UNCHANGED <<inflight, blocks>>
    BY <1>1, <1>2, <1>3, <1>5, <1>6, <1>9, Zenon DEF Return, Continue
  <1> QED BY <1>4, <1>7, <1>8, <1>9, WriteResult

LEMMA WriteStep ==
  ASSUME ClientInv, Write
  PROVE  ClientInv'
  <1> USE Counts DEF srvVars
  <1>0. /\ UNCHANGED <<setup, calls, inq, held, seen, answered, alert, records, refusal>>
        /\ cpc = "write" /\ link \in {"up"} \cup Gone
    BY DEF Write, ClientInv, Positions
  <1>1. PICK n \in Int :
          /\ \/ n > 0 /\ sent' = sent + n /\ written' = (written + n) % Word
             \/ sent' = sent /\ written' \in {written, (written + n) % Word}
          /\ code' \in {"SUCCESS", "SOCKET_CONNECTION_NEED_TO_BE_BLOCKED", "UNKNOWN_ERROR"}
          /\ (cpc' = "idle" /\ i' \in {0, i}) \/ (cpc' = "writewait" /\ i' = i)
          /\ blocks' = blocks \/ (blocks < MaxBlocks /\ blocks' = blocks + 1)
          /\ ErrorFetched \/ link' = link
          /\ inflight' \in 0..SendBuffer
    BY WriteEffect, Zenon
  <1>2. /\ Queued' /\ Alerted' /\ link' \in {"up"} \cup Gone
        /\ tls' /\ link' \notin {"null", "invalid", "closed"} => HasTLSLibrary'
    BY <1>0, <1>1, FetchKeeps, Zenon
  <1>3. written' \in 0..Word - 1
    <2>1. written + n \in Int /\ written \in 0..Word - 1
      BY DEF ClientInv, TypeOK
    <2>2. (written + n) % Word \in 0..Word - 1
      BY <2>1, Modulo, Zenon
    <2> QED BY <1>1, <2>1, <2>2
  <1>4. sent' \in Nat
    BY <1>1 DEF ClientInv, TypeOK
  <1>5. TypeOK'
    BY <1>0, <1>1, <1>2, <1>3, <1>4 DEF ClientInv, TypeOK, Codes, Gone
  <1>6. Counting'
    BY <1>0, <1>1 DEF ClientInv, Counting, TypeOK
  <1>7. Positions'
    BY <1>0, <1>1, <1>2, SetupKept DEF ClientInv, Positions, Gone
  <1> QED BY <1>2, <1>5, <1>6, <1>7, Zenon DEF ClientInv

\* The server and the network: what joins the queue, and when.
LEMMA ServerStepKeeps ==
  ASSUME ClientInv, ServerStep
  PROVE  ClientInv'
  <1> USE Counts DEF cliVars, srvVars, histVars
  <1>0. /\ UNCHANGED <<setup, cpc, i, code, written, calls, held, seen, blocks, sent>>
        /\ inq \in Seq(Kinds)
    BY DEF ServerStep, TcpAnswer, ServerAnswers, ServerRejects, ServerSends, ServerReceives,
           ServerHangup, ClientInv, TypeOK, Kinds
  <1>1. Counting'
    BY <1>0 DEF ClientInv, Counting
  <1>2. CASE TcpAnswer
    <2>1. TypeOK'
      BY <1>2 DEF TcpAnswer, ClientInv, TypeOK
    <2>2. Positions'
      BY <1>2, SetupKept DEF TcpAnswer, ClientInv, Positions, Gone
    <2>3. Queued'
      BY <1>2, SetupKept, QueueEmpty DEF TcpAnswer, ClientInv, Queued
    <2>4. Alerted'
      BY <1>2, SetupKept DEF TcpAnswer, ClientInv, Alerted
    <2> QED BY <1>1, <2>1, <2>2, <2>3, <2>4, Zenon DEF ClientInv
  <1>3. CASE ServerReceives
    <2>1. TypeOK'
      BY <1>3 DEF ServerReceives, ClientInv, TypeOK
    <2>2. Positions' /\ Queued' /\ Alerted'
      BY <1>3, SetupKept DEF ServerReceives, ClientInv, Positions, Queued, Alerted
    <2> QED BY <1>1, <2>1, <2>2, Zenon DEF ClientInv
  <1>4. CASE ServerHangup
    <2>1. /\ link \in {"up", "fin"} /\ link' \in Gone
          /\ \/ inq' = inq
             \/ tls /\ inq' = Append(inq, "close_notify")
          /\ UNCHANGED <<inflight, answered, alert, records, refusal>>
      BY <1>4 DEF ServerHangup, Gone
    <2>2. /\ inq' \in Seq(Kinds)
          /\ \A kind : Holds(inq', kind) => Holds(inq, kind) \/ kind = "close_notify"
      BY <1>0, <2>1, QueueAppend, Zenon DEF Kinds
    <2>3. TypeOK'
      BY <1>0, <2>1, <2>2 DEF ClientInv, TypeOK, Kinds, Gone
    <2>4. Positions'
      BY <1>0, <2>1, SetupKept DEF ClientInv, Positions, Gone
    <2>5. Queued'
      BY <1>0, <2>1, <2>2, SetupKept DEF ClientInv, Queued, Gone
    <2>6. Alerted'
      BY <1>0, <2>1, <2>2, SetupKept DEF ClientInv, Alerted
    <2> QED BY <1>1, <2>3, <2>4, <2>5, <2>6, Zenon DEF ClientInv
  <1>5. CASE ServerSends
    <2>1. /\ link = "up" /\ link' = link /\ alert = "none" /\ (tls => seen >= Flights)
          /\ inq' = Append(inq, "data") /\ records < MaxRecords /\ records' = records + 1
          /\ UNCHANGED <<inflight, answered, alert, refusal>>
      BY <1>5 DEF ServerSends
    <2>2. /\ inq' \in Seq(Kinds)
          /\ \A kind : Holds(inq', kind) => Holds(inq, kind) \/ kind = "data"
      BY <1>0, <2>1, QueueAppend, Zenon DEF Kinds
    <2>3. TypeOK'
      BY <1>0, <2>1, <2>2 DEF ClientInv, TypeOK, Kinds
    <2>4. Positions'
      BY <1>0, <2>1, SetupKept DEF ClientInv, Positions
    <2>5. Queued'
      BY <1>0, <2>1, <2>2, SetupKept DEF ClientInv, Queued, TypeOK
    <2>6. Alerted'
      BY <1>0, <2>1, <2>2, SetupKept DEF ClientInv, Alerted
    <2> QED BY <1>1, <2>3, <2>4, <2>5, <2>6, Zenon DEF ClientInv
  <1>6. CASE ServerAnswers
    <2>1. /\ link = "up" /\ link' = link /\ tls /\ alert = "none"
          /\ \/ cpc \in {"tls", "tlswait"} /\ answered < Flights /\ Agreed
             \/ answered = Flights /\ seen = Flights
          /\ inq' = Append(inq, "msg") /\ answered' = answered + 1
          /\ UNCHANGED <<inflight, alert, records, refusal>>
      BY <1>6 DEF ServerAnswers, Agreed
    <2>2. /\ inq' \in Seq(Kinds) /\ Len(inq') = Len(inq) + 1
          /\ \A kind : Holds(inq', kind) => Holds(inq, kind) \/ kind = "msg"
      BY <1>0, <2>1, QueueAppend, Zenon DEF Kinds
    <2>3. TypeOK'
      BY <1>0, <2>1, <2>2 DEF ClientInv, TypeOK, Kinds
    <2>4. Positions'
      BY <1>0, <2>1, SetupKept DEF ClientInv, Positions
    <2>5. Queued'
      BY <1>0, <2>1, <2>2, SetupKept DEF ClientInv, Queued, TypeOK, Gone
    <2>6. Alerted'
      BY <1>0, <2>1, <2>2, SetupKept DEF ClientInv, Alerted
    <2> QED BY <1>1, <2>3, <2>4, <2>5, <2>6, Zenon DEF ClientInv
  <1>7. CASE ServerRejects
    <2>1. /\ link = "up" /\ link' = link /\ tls /\ alert = "none"
          /\ alert' \in {"protocol_version", "handshake_failure", "certificate_required",
                         "unknown_ca", "bad_certificate"}
          /\ refusal' \in {"version", "cipher", "certificate"}
          /\ \/ cpc \in {"tls", "tlswait"} /\ version = 0 /\ alert' = "protocol_version"
             \/ /\ cpc \in {"tls", "tlswait"} /\ version # 0 /\ ~Agreed
                /\ alert' = "handshake_failure"
             \/ /\ refusal' = "certificate" /\ alert' # "protocol_version"
                /\ version = TLS1_2_VERSION /\ seen > 0 /\ answered = seen /\ seen < Flights
             \/ /\ refusal' = "certificate" /\ alert' # "protocol_version"
                /\ version = TLS1_3_VERSION /\ seen = Flights
          /\ inq' = Append(inq, "alert")
          /\ UNCHANGED <<inflight, answered, records>>
      BY <1>7 DEF ServerRejects, Agreed
    <2>2. /\ inq' \in Seq(Kinds)
          /\ \A kind : Holds(inq', kind) => Holds(inq, kind) \/ kind = "alert"
      BY <1>0, <2>1, QueueAppend, Zenon DEF Kinds
    <2>3. TypeOK'
      BY <1>0, <2>1, <2>2 DEF ClientInv, TypeOK, Kinds
    <2>4. Positions'
      BY <1>0, <2>1, SetupKept DEF ClientInv, Positions
    <2>5. Queued'
      BY <1>0, <2>1, <2>2, SetupKept DEF ClientInv, Queued, TypeOK
    <2>6. Alerted'
      <3>1. answered = seen /\ seen < Flights => ~Holds(inq, "msg")
        <4>1. answered = seen /\ seen < Flights => Len(inq) = 0
          BY <2>1 DEF ClientInv, Queued, TypeOK
        <4> QED BY <1>0, <4>1, QueueEmpty, Zenon
      <3>2. version = TLS1_2_VERSION => seen < Flights /\ ~Holds(inq, "msg")
        BY <1>0, <2>1, <3>1 DEF ClientInv, Positions, Queued, TLS1_2_VERSION, TLS1_3_VERSION
      <3>3. alert' = "handshake_failure" =>
              \/ version # 0 /\ ~Agreed /\ seen = 0
              \/ refusal' = "certificate" /\ seen > 0
        BY <2>1 DEF ClientInv, Queued, TypeOK
      <3> QED BY <1>0, <2>1, <2>2, <3>2, <3>3, SetupKept DEF Alerted
    <2> QED BY <1>1, <2>3, <2>4, <2>5, <2>6, Zenon DEF ClientInv
  <1> QED BY <1>2, <1>3, <1>4, <1>5, <1>6, <1>7 DEF ServerStep

\* Every step keeps the invariant.
LEMMA ClientInvStep ==
  ASSUME ClientInv, [Next]_vars
  PROVE  ClientInv'
  <1>1. CASE UNCHANGED vars
    <2>1. UNCHANGED <<setup, cpc, i, code, written, calls, link, inq, held, inflight, seen,
                      answered, alert, records, refusal, blocks, sent>>
      BY <1>1 DEF vars, cliVars, sockVars, srvVars, histVars
    <2>2. TypeOK' /\ Counting'
      BY <2>1 DEF ClientInv, TypeOK, Counting
    <2>3. Positions' /\ Queued' /\ Alerted'
      BY <2>1, SetupKept DEF ClientInv, Positions, Queued, Alerted
    <2> QED BY <2>2, <2>3 DEF ClientInv
  <1>2. CASE Open \/ OpenFails \/ Close
    BY <1>2, OpenStep
  <1>3. CASE ConnectCall \/ IsConnected \/ ReadCall \/ WriteCall
    BY <1>3, CallStep
  <1>4. CASE ClientStep
    <2>1. CASE TcpExhausted \/ TcpWait BY <2>1, TcpWaitStep
    <2>2. CASE TcpConnect BY <2>2, TcpConnectStep
    <2>3. CASE HandshakeMessage \/ Handshake BY <2>3, HandshakeStep
    <2>4. CASE HandshakeWait \/ ProbeWait \/ ReadWait \/ WriteWait BY <2>4, LaterWaitStep
    <2>5. CASE ProbeTicket \/ Probe \/ Read BY <2>5, TakeStep
    <2>6. CASE Write BY <2>6, WriteStep
    <2> QED BY <1>4, <2>1, <2>2, <2>3, <2>4, <2>5, <2>6 DEF ClientStep
  <1>5. CASE ServerStep
    BY <1>5, ServerStepKeeps
  <1> QED BY <1>1, <1>2, <1>3, <1>4, <1>5 DEF Next

------------------------------------------------------------------------------
(* Theorems *)

\* The position in an operation, the socket, the queue and the server's answers
\* fit together in every reachable state of the client.
THEOREM ClientInvariant == Spec => []ClientInv
  <1>1. Init => ClientInv
    <2> SUFFICES ASSUME Init PROVE ClientInv
      OBVIOUS
    <2>1. TypeOK
      BY Counts, EmptySeq DEF Init, TypeOK, Codes
    <2>2. Counting /\ Positions
      BY Counts DEF Init, Counting, Positions
    <2>3. Queued /\ Alerted
      BY Counts, QueueEmpty DEF Init, Queued, Alerted
    <2> QED BY <2>1, <2>2, <2>3 DEF ClientInv
  <1> QED BY <1>1, ClientInvStep, PTL DEF Spec

\* Every variable of the client, the retry counter and the size_t count among
\* them, stays in its range, whatever the server does.
THEOREM ClientTypeCorrect == Spec => []TypeOK
  <1>1. ClientInv => TypeOK
    BY DEF ClientInv
  <1> QED BY <1>1, ClientInvariant, PTL

\* An alert is in the queue only behind data.
AlertsBehindData ==
  \A k \in DOMAIN inq : inq[k] = "alert" => \E j \in 1..k - 1 : inq[j] = "data"

\* A queue without alerts, or with data at its front, is such a queue.
LEMMA BehindData ==
  ASSUME inq \in Seq(Kinds), ~Holds(inq, "alert") \/ (inq # <<>> /\ Head(inq) = "data")
  PROVE  AlertsBehindData
  <1>1. CASE ~Holds(inq, "alert")
    BY <1>1, Zenon DEF Holds, AlertsBehindData
  <1>2. CASE inq # <<>> /\ Head(inq) = "data"
    <2>1. inq[1] = "data"
      BY <1>2
    <2>2. ASSUME NEW k \in DOMAIN inq, inq[k] = "alert"
          PROVE  1 \in 1..k - 1
      <3>1. k \in Nat /\ k >= 1 /\ k # 1
        BY <2>1, <2>2
      <3> QED BY <3>1
    <2> QED BY <2>1, <2>2, Zenon DEF AlertsBehindData
  <1> QED BY <1>1, <1>2

\* connect() returns from one of six steps, with a code that is justified; it
\* reports success only after the handshake and with no alert that data do not
\* hide.
LEMMA ConnectReturned ==
  ASSUME ClientInv, [Next]_vars, ConnectReturns
  PROVE  /\ setup' = setup /\ Justified(code')
         /\ code' = "SUCCESS" =>
              cpc \in {"probe", "probewait"} /\ seen' = seen /\ AlertsBehindData
  <1> USE DEF cliVars, sockVars, srvVars, histVars
  <1>0. Justified("SUCCESS") /\ \A r \in Codes \ Reasons : Justified(r)
    BY DEF Justified, Reasons
  <1>1. ASSUME NEW type \in {"CONNECT", "READ", "WRITE"}, NEW r, Wait(type, r)
        PROVE  Justified(r)
    BY <1>1, WaitResult DEF Justified
  <1>2. CASE TcpExhausted
    <2>1. code' = code /\ code \in Codes \ Reasons /\ code # "SUCCESS"
      BY <1>2, Counts DEF TcpExhausted, Continue, ClientInv, Counting, TypeOK
    <2> QED BY <1>0, <1>2, <2>1 DEF TcpExhausted
  <1>3. CASE TcpWait
    <2>1. PICK r \in Codes :
            /\ Wait("CONNECT", r)
            /\ IF r = "SOCKET_TIMEOUT" THEN code' = r /\ cpc' = "tcp" /\ i' = i + 2
                                       ELSE Continue(r, "tls")
      BY <1>3, Zenon DEF TcpWait
    <2>2. code' = r /\ (r = "SUCCESS" => cpc' = "tls")
      BY <2>1, Zenon DEF Continue
    <2> QED BY <1>1, <1>3, <2>1, <2>2 DEF TcpWait, ConnectReturns
  <1>4. CASE Handshake
    <2>1. PICK r \in Codes :
            /\ Reconnect(r)
            /\ IF r \in Pending THEN code' = r /\ cpc' = "tlswait" /\ i' = i
                                ELSE Continue(r, "probe")
      BY <1>4, Zenon DEF Handshake
    <2>2. Justified(r)
      BY <1>4, <2>1, ReconnectResult DEF Handshake, ClientInv, Positions
    <2>3. code' = r /\ (r = "SUCCESS" => cpc' \in {"tlswait", "probe"})
      BY <2>1, Zenon DEF Continue
    <2> QED BY <1>4, <2>2, <2>3 DEF Handshake, ConnectReturns
  <1>5. CASE HandshakeWait
    <2>1. PICK r \in Codes :
            LET n == IF r = "SOCKET_TIMEOUT" THEN i + 1 ELSE i
            IN  /\ Wait("CONNECT", r)
                /\ IF r \in {"SUCCESS", "SOCKET_TIMEOUT"} /\ n < MaxRetries
                   THEN code' = r /\ cpc' = "tls" /\ i' = n
                   ELSE Return(r)
      BY <1>5, Zenon DEF HandshakeWait
    <2>2. i < MaxRetries
      BY <1>5 DEF HandshakeWait, ClientInv, Counting
    <2>3. code' = r /\ (r = "SUCCESS" => cpc' = "tls")
      BY <2>1, <2>2, Zenon DEF Return, Continue
    <2>4. Wait("CONNECT", r)
      BY <2>1, Zenon
    <2> QED BY <1>1, <1>5, <2>3, <2>4 DEF HandshakeWait, ConnectReturns
  <1>6. CASE Probe
    <2>1. cpc = "probe" /\ seen' = seen /\ setup' = setup
      BY <1>6 DEF Probe
    <2>2. CASE version # TLS1_3_VERSION /\ Return("SUCCESS")
      <3>1. ~Holds(inq, "alert")
        <4>1. CASE ~tls
          BY <4>1 DEF ClientInv, Queued, Alerted
        <4>2. CASE tls
          <5>1. seen = Flights /\ seen > 0
            BY <2>1, <4>2, Counts DEF ClientInv, Positions
          <5>2. version \in {0, TLS1_2_VERSION, TLS1_3_VERSION} /\ version # 0
            BY <5>1, SetupFacts DEF ClientInv, TypeOK, Queued, Agreed
          <5>3. version = TLS1_2_VERSION
            BY <2>2, <5>2, Zenon
          <5> QED BY <5>1, <5>3, Counts DEF ClientInv, Queued, Alerted
        <4> QED BY <4>1, <4>2
      <3>2. AlertsBehindData
        BY <3>1, BehindData DEF ClientInv, TypeOK, Kinds
      <3> QED BY <1>0, <2>1, <2>2, <3>2, Zenon DEF Return, Continue
    <2>3. CASE \E r \in Codes :
                 /\ PostHandshakeProbe(r)
                 /\ IF r \in Pending THEN code' = r /\ cpc' = "probewait" /\ i' = i
                                     ELSE Return(r)
      <3>1. PICK r \in Codes :
              /\ PostHandshakeProbe(r)
              /\ IF r \in Pending THEN code' = r /\ cpc' = "probewait" /\ i' = i
                                  ELSE Return(r)
        BY <2>3, Zenon
      <3>2. code' = r
        BY <3>1, Zenon DEF Return, Continue
      <3>3. r = "SUCCESS" => inq = <<>> \/ (inq # <<>> /\ Head(inq) = "data")
        BY <3>1, ProbeResult, Zenon
      <3>4. inq \in Seq(Kinds)
        BY DEF ClientInv, TypeOK, Kinds
      <3>5. Justified(r) /\ (r = "SUCCESS" => AlertsBehindData)
        BY <3>1, <3>3, <3>4, BehindData, ProbeResult, QueueEmpty, Zenon
      <3> QED BY <2>1, <3>2, <3>5, Zenon
    <2> QED BY <1>6, <2>2, <2>3, Zenon DEF Probe
  <1>7. CASE ProbeWait
    <2>1. /\ cpc = "probewait" /\ seen' = seen /\ setup' = setup
          /\ link \in {"up", "fin", "reset", "hup"}
      BY <1>7 DEF ProbeWait, ClientInv, Positions, Gone
    <2>2. PICK r \in Codes :
            /\ Wait("READ", r)
            /\ CASE r = "SUCCESS"        -> code' = r /\ cpc' = "probe" /\ i' = i
                 [] r = "SOCKET_TIMEOUT" -> Return("SUCCESS")
                 [] OTHER                -> Return(r)
      BY <1>7, Zenon DEF ProbeWait
    <2>3. CASE r = "SUCCESS"
      BY <2>2, <2>3, Zenon DEF ConnectReturns
    <2>4. CASE r = "SOCKET_TIMEOUT"
      <3>1. inq = <<>>
        BY <2>1, <2>2, <2>4, WaitResult, Zenon
      <3>2. code' = "SUCCESS"
        BY <2>2, <2>4, Zenon DEF Return, Continue
      <3>3. AlertsBehindData
        BY <3>1, BehindData, QueueEmpty
      <3> QED BY <1>0, <2>1, <3>2, <3>3, Zenon
    <2>5. CASE r \notin {"SUCCESS", "SOCKET_TIMEOUT"}
      <3>1. code' = r /\ r # "SUCCESS"
        BY <2>2, <2>5, Zenon DEF Return, Continue
      <3> QED BY <1>1, <2>1, <2>2, <3>1, Zenon
    <2> QED BY <2>3, <2>4, <2>5, Zenon
  <1>8. CASE UNCHANGED vars \/ ServerStep \/ HandshakeMessage \/ ProbeTicket
    BY <1>8 DEF ConnectReturns, vars, ServerStep, TcpAnswer, ServerAnswers, ServerRejects, ServerSends,
                ServerReceives, ServerHangup, HandshakeMessage, ProbeTicket
  <1>9. CASE TcpConnect
    <2>1. PICK r \in Codes :
            CASE r = "SUCCESS"  -> Continue(r, "tls")
              [] r \in Pending  -> code' = r /\ cpc' = "tcpwait" /\ i' = i
              [] OTHER          -> code' = r /\ cpc' = cpc /\ i' = i + 1
      BY <1>9, Zenon DEF TcpConnect
    <2>2. "SUCCESS" \notin Pending /\ cpc = "tcp"
      BY <1>9 DEF Pending, TcpConnect
    <2>3. cpc' # "idle"
      <3>1. CASE r = "SUCCESS" BY <2>1, <2>2, <3>1, Zenon DEF Continue
      <3>2. CASE r \in Pending BY <2>1, <2>2, <3>2, Zenon
      <3>3. CASE r # "SUCCESS" /\ r \notin Pending BY <2>1, <2>2, <3>3, Zenon
      <3> QED BY <3>1, <3>2, <3>3, Zenon
    <2> QED BY <2>3 DEF ConnectReturns
  <1>10. CASE Open \/ OpenFails \/ Close \/ ConnectCall \/ IsConnected \/ ReadCall \/ WriteCall
    BY <1>10 DEF ConnectReturns, Open, OpenFails, Close, ConnectCall, IsConnected, ReadCall, WriteCall
  <1>11. CASE ReadWait \/ Read \/ WriteWait \/ Write
    BY <1>11 DEF ConnectReturns, ReadWait, Read, WriteWait, Write
  <1> QED BY <1>2, <1>3, <1>4, <1>5, <1>6, <1>7, <1>8, <1>9, <1>10, <1>11 DEF Next, ClientStep

\* A success of connect() is one, for every configuration and every server: the
\* connection came up, its handshake is complete in a version and with a suite of
\* the application's choice, the certificate is valid if verify_server was asked
\* for, and this server's if verify_hostname was asked for with it (alone it has
\* no effect), and an alert that arrived in time is overlooked only behind
\* application data.
THEOREM ConnectIsHonest == Spec => ConnectVerdict
  <1>1. ASSUME ClientInv, [Next]_vars, ConnectReturns, code' = "SUCCESS"
        PROVE  Established
    <2>1. cpc \in {"probe", "probewait"} /\ seen' = seen /\ AlertsBehindData
      BY <1>1, ConnectReturned
    <2>2. link \in {"up"} \cup Gone /\ (tls => seen = Flights /\ ~BadServer /\ HasTLSLibrary)
      BY <1>1, <2>1 DEF ClientInv, Positions, Gone
    <2>3. /\ cfg \in ConfigurationType /\ server.versions \subseteq SocketTLSVersion
          /\ server.cert \in {"valid", "invalid", "mismatch"}
          /\ tls <=> cfg.versions # {}
      BY <1>1, SetupFacts DEF ClientInv, TypeOK
    <2>4. tls => version # 0 /\ SuiteShared(cfg, server)
      BY <1>1, <2>2, Counts DEF ClientInv, Queued, Agreed
    <2>5. tls => version \in CommonVersions(cfg, server) /\ CommonSuite(cfg, server, version)
      BY <2>3, <2>4, VersionAgreed, SuiteAgreed, Zenon DEF version
    <2>6. ~BadServer => /\ cfg.verifyServer => server.cert # "invalid"
                        /\ cfg.verifyServer /\ cfg.verifyHostname => server.cert = "valid"
      BY <2>3, Zenon DEF BadServer, VerifyFails
    <2> QED
      BY <2>1, <2>2, <2>3, <2>5, <2>6, Zenon DEF Established, HasTLSLibrary, AlertsBehindData
  <1>2. ASSUME ClientInv, [Next]_vars
        PROVE  [ConnectReturns /\ code' = "SUCCESS" => Established]_vars
    BY <1>1, <1>2, Zenon
  <1> QED BY <1>2, ClientInvariant, PTL DEF Spec, ConnectVerdict

\* A code of connect() that names a reason of the TLS layer names the real one:
\* nothing in common, the client's certificate, or a check of the server's
\* certificate that was asked for and failed.
THEOREM ReasonsAreReal == Spec => RefusalNamed
  <1> DEFINE common == CommonVersions(cfg, server)
             Named == /\ code' = "TLS_VERSION_NOT_SUPPORTED" => common = {}
                      /\ code' = "TLS_CIPHER_SUITE_MISMATCH" =>
                           common # {} /\ ~CommonSuite(cfg, server, Max(common))
                      /\ code' = "TLS_CLIENT_CERT_REJECTED"  => refusal = "certificate"
                      /\ code' = "TLS_SERVER_CERT_INVALID" => cfg.verifyServer /\ server.cert = "invalid"
                      /\ code' = "TLS_HOSTNAME_MISMATCH" =>
                           cfg.verifyServer /\ cfg.verifyHostname /\ server.cert = "mismatch"
  <1>1. ASSUME ClientInv, [Next]_vars, ConnectReturns
        PROVE  Named
    <2>1. Justified(code')
      BY <1>1, ConnectReturned
    <2>2. cfg \in ConfigurationType /\ server.versions \subseteq SocketTLSVersion
      BY <1>1, SetupFacts DEF ClientInv, TypeOK
    <2>3. /\ version # 0 <=> common # {}
          /\ common # {} => version = Max(common)
      BY <2>2, VersionAgreed, Zenon DEF version
    <2>4. SuiteShared(cfg, server) <=> CommonSuite(cfg, server, version)
      BY <2>2, SuiteAgreed, Zenon DEF version
    <2>5. version # 0 /\ ~Agreed => common # {} /\ ~CommonSuite(cfg, server, Max(common))
      BY <2>3, <2>4, Zenon DEF Agreed
    <2>6. version = 0 => common = {}
      BY <2>3, Zenon
    <2> HIDE DEF common
    <2> QED BY <2>1, <2>5, <2>6, Zenon DEF Justified
  <1>2. ASSUME ClientInv, [Next]_vars
        PROVE  [ConnectReturns => Named]_vars
    BY <1>1, <1>2, Zenon
  <1> QED BY <1>2, ClientInvariant, PTL DEF Spec, RefusalNamed

------------------------------------------------------------------------------
(* write() *)

\* Until a send would have blocked, written_size is what the transport took, and
\* something is left to send.
Accounted == blocks = 0 /\ cpc \in {"writewait", "write"} => written = sent /\ sent < Size

\* One send, as long as none would have blocked: the -1 is never added, and the
\* loop ends exactly at the size of the buffer.
LEMMA UnblockedWrite ==
  ASSUME ClientInv, Accounted, Write, blocks' = 0
  PROVE  /\ written' = sent' /\ sent' <= Size
         /\ cpc' \in {"idle", "writewait"}
         /\ cpc' = "idle" /\ code' = "SUCCESS" => sent' = Size
         /\ cpc' = "writewait" => sent' < Size
  <1> USE Counts
  <1>1. PICK n \in Int :
          /\ n <= (Size - written) % Word
          /\ \/ /\ n > 0 /\ sent' = sent + n /\ written' = (written + n) % Word
                /\ code' = "SUCCESS" /\ blocks' = blocks
                /\ cpc' = IF written' = Size THEN "idle" ELSE "writewait"
             \/ blocks' = blocks + 1
             \/ /\ sent' = sent /\ written' = written /\ blocks' = blocks
                /\ code' = "UNKNOWN_ERROR" /\ cpc' = "idle"
    BY WriteEffect, Zenon
  <1>2. blocks' = blocks + 1 => FALSE
    BY DEF ClientInv, TypeOK
  <1>3. blocks = 0 /\ written = sent /\ sent \in Nat /\ sent < Size
    BY <1>1, <1>2 DEF Accounted, Write, ClientInv, TypeOK
  <1>4. (Size - written) % Word = Size - written
    <2>1. Size - written \in Int /\ Size - written \in 0..Word - 1
      BY <1>3
    <2> QED BY <2>1, Modulo
  <1>5. CASE /\ n > 0 /\ sent' = sent + n /\ written' = (written + n) % Word
             /\ code' = "SUCCESS"
             /\ cpc' = IF written' = Size THEN "idle" ELSE "writewait"
    <2>1. written + n \in Int /\ written + n \in 0..Word - 1 /\ written + n <= Size
      BY <1>1, <1>3, <1>4, <1>5
    <2>2. written' = written + n
      BY <1>5, <2>1, Modulo
    <2> QED BY <1>3, <1>5, <2>1, <2>2
  <1>6. CASE sent' = sent /\ written' = written /\ code' = "UNKNOWN_ERROR" /\ cpc' = "idle"
    BY <1>3, <1>6
  <1> QED BY <1>1, <1>2, <1>5, <1>6

LEMMA AccountedStep ==
  ASSUME ClientInv, Accounted, [Next]_vars
  PROVE  Accounted'
  <1> USE Counts DEF Accounted, cliVars, sockVars, srvVars, histVars
  <1>1. CASE Write
    BY <1>1, UnblockedWrite
  <1>2. CASE WriteCall
    BY <1>2 DEF WriteCall
  <1>3. CASE WriteWait
    BY <1>3 DEF WriteWait
  <1>4. CASE UNCHANGED vars \/ ServerStep \/ IsConnected
    BY <1>4 DEF vars, ServerStep, TcpAnswer, ServerAnswers, ServerRejects, ServerSends,
                ServerReceives, ServerHangup, IsConnected
  <1>5. CASE Open \/ OpenFails \/ Close \/ ConnectCall \/ ReadCall
    BY <1>5 DEF Open, OpenFails, Close, ConnectCall, ReadCall
  <1>6. CASE TcpExhausted \/ TcpConnect \/ TcpWait \/ HandshakeMessage \/ Handshake
             \/ HandshakeWait \/ ProbeTicket \/ Probe \/ ProbeWait \/ ReadWait \/ Read
    <2>1. cpc' \notin {"writewait", "write"}
      <3>1. CASE TcpExhausted \/ HandshakeMessage \/ ProbeTicket
        BY <3>1, Zenon DEF TcpExhausted, HandshakeMessage, ProbeTicket, Continue
      <3>2. CASE TcpConnect
        <4>1. PICK r \in Codes :
                CASE r = "SUCCESS"  -> Continue(r, "tls")
                  [] r \in Pending  -> code' = r /\ cpc' = "tcpwait" /\ i' = i
                  [] OTHER          -> code' = r /\ cpc' = cpc /\ i' = i + 1
          BY <3>2, Zenon DEF TcpConnect
        <4>2. cpc = "tcp"
          BY <3>2 DEF TcpConnect
        <4> QED BY <4>1, <4>2, Zenon DEF Continue
      <3>3. CASE TcpWait \/ Handshake \/ HandshakeWait
        BY <3>3, Zenon DEF TcpWait, Handshake, HandshakeWait, Continue, Return
      <3>4. CASE Probe
        BY <3>4, Zenon DEF Probe, Continue, Return
      <3>5. CASE ProbeWait \/ ReadWait
        BY <3>5, Zenon DEF ProbeWait, ReadWait, Again, Continue, Return
      <3>6. CASE Read
        BY <3>6, Zenon DEF Read, Again, Continue, Return
      <3> QED BY <1>6, <3>1, <3>2, <3>3, <3>4, <3>5, <3>6
    <2> QED BY <2>1
  <1> QED BY <1>1, <1>2, <1>3, <1>4, <1>5, <1>6 DEF Next, ClientStep

\* As long as no send has returned EWOULDBLOCK or SSL_ERROR_WANT_WRITE, every
\* attempt of write() offers exactly what is left of the buffer, for every size,
\* every width of size_t and every way the kernel splits the sends.
THEOREM UnblockedAccounting == Spec => [](blocks = 0 => WriteAccounting)
  <1>1. Init => Accounted
    BY DEF Init, Accounted
  <1>2. Accounted => (blocks = 0 => WriteAccounting)
    BY DEF Accounted, WriteAccounting
  <1> QED BY <1>1, <1>2, AccountedStep, ClientInvariant, PTL DEF Spec

\* The same for a transport that never would block where poll() said POLLOUT.
THEOREM BlockingFreeAccounting ==
  ASSUME MaxBlocks = 0
  PROVE  Spec => []WriteAccounting
  <1>1. ClientInv => blocks = 0
    BY Counts DEF ClientInv, TypeOK
  <1> QED BY <1>1, ClientInvariant, UnblockedAccounting, PTL

\* There, write() returns the number of bytes the transport took, and reports
\* success only when that is the whole buffer.
THEOREM BlockingFreeWriteExact ==
  ASSUME MaxBlocks = 0
  PROVE  Spec => WriteExact
  <1> USE Counts DEF cliVars, sockVars, srvVars, histVars
  <1> DEFINE Returns == cpc' = "idle" /\ cpc \in {"writewait", "write"}
             Exact == written' = sent' /\ (code' = "SUCCESS" => sent' = Size)
  <1>1. ClientInv => blocks = 0
    BY DEF ClientInv, TypeOK
  <1>2. ASSUME ClientInv, ClientInv', Accounted, [Next]_vars, Returns
        PROVE  Exact
    <2>0. blocks = 0 /\ blocks' = 0
      BY <1>1, <1>2 DEF ClientInv, TypeOK
    <2>1. CASE Write
      BY <1>2, <2>0, <2>1, UnblockedWrite
    <2>2. CASE WriteWait
      <3>1. written' = written /\ sent' = sent /\ written = sent
        BY <1>2, <2>0, <2>2 DEF WriteWait, Accounted
      <3>2. code' # "SUCCESS"
        <4>1. PICK r \in Codes :
                CASE r = "SUCCESS"        -> code' = r /\ cpc' = "write" /\ i' = i
                  [] r = "SOCKET_TIMEOUT" -> Again(r, "writewait")
                  [] OTHER                -> Return(r)
          BY <2>2, Zenon DEF WriteWait
        <4>2. CASE r = "SUCCESS" BY <1>2, <4>1, <4>2, Zenon
        <4>3. CASE r = "SOCKET_TIMEOUT" BY <4>1, <4>3, Zenon DEF Again
        <4>4. CASE r \notin {"SUCCESS", "SOCKET_TIMEOUT"}
          BY <4>1, <4>4, Zenon DEF Return, Continue
        <4> QED BY <4>2, <4>3, <4>4, Zenon
      <3> QED BY <3>1, <3>2
    <2>3. CASE UNCHANGED vars \/ ServerStep
      BY <1>2, <2>3 DEF vars, ServerStep, TcpAnswer, ServerAnswers, ServerRejects, ServerSends,
                        ServerReceives, ServerHangup
    <2>4. CASE Open \/ OpenFails \/ Close \/ ConnectCall \/ IsConnected \/ ReadCall \/ WriteCall
      BY <1>2, <2>4 DEF Open, OpenFails, Close, ConnectCall, IsConnected, ReadCall, WriteCall
    <2>5. CASE TcpExhausted \/ TcpConnect \/ TcpWait \/ HandshakeMessage \/ Handshake
               \/ HandshakeWait \/ ProbeTicket \/ Probe \/ ProbeWait \/ ReadWait \/ Read
      BY <1>2, <2>5 DEF TcpExhausted, TcpConnect, TcpWait, HandshakeMessage, Handshake,
                        HandshakeWait, ProbeTicket, Probe, ProbeWait, ReadWait, Read
    <2> QED BY <1>2, <2>1, <2>2, <2>3, <2>4, <2>5 DEF Next, ClientStep
  <1>3. ASSUME ClientInv, ClientInv', Accounted, [Next]_vars
        PROVE  [Returns => Exact]_vars
    BY <1>2, <1>3, Zenon
  <1>4. Init => Accounted
    BY DEF Init, Accounted
  <1> QED BY <1>3, <1>4, AccountedStep, ClientInvariant, PTL DEF Spec, WriteExact

------------------------------------------------------------------------------
(* Every call comes nearer to its return *)

\* The stage of the call and what it has to go, loop by loop.
LEMMA Measure ==
  /\ cpc \in {"tcp", "tcpwait"} =>
       Stage = 3 /\ ToGo = 2 * (MaxRetries + 1 - i) + Bit(cpc = "tcp")
  /\ cpc \in {"tls", "tlswait", "probe", "probewait"} =>
       ToGo = 2 * (MaxRetries - i) + Events + Bit(cpc \in {"tls", "probe"} <=> Quiet)
  /\ cpc \in {"tls", "tlswait"} => Stage = 2
  /\ cpc \in {"probe", "probewait"} => Stage = 1
  /\ cpc \in {"readwait", "read"} =>
       Stage = 0 /\ ToGo = 2 * (MaxRetries - i) + Bit(cpc = "readwait")
  /\ cpc \in {"writewait", "write"} =>
       /\ Stage = 0
       /\ ToGo = 2 * (MaxRetries - i) + 2 * ((Size - written) % Word) + 4 * (MaxBlocks - blocks)
                   + Bit(cpc = "writewait")
  <1>1. CASE cpc \in {"tcp", "tcpwait"} BY <1>1 DEF Stage, ToGo
  <1>2. CASE cpc \in {"tls", "tlswait"} BY <1>2 DEF Stage, ToGo
  <1>3. CASE cpc \in {"probe", "probewait"} BY <1>3 DEF Stage, ToGo
  <1>4. CASE cpc \in {"readwait", "read"} BY <1>4 DEF Stage, ToGo
  <1>5. CASE cpc \in {"writewait", "write"} BY <1>5 DEF Stage, ToGo
  <1> QED BY <1>1, <1>2, <1>3, <1>4, <1>5

LEMMA MeasureNext ==
  /\ cpc' \in {"tcp", "tcpwait"} =>
       Stage' = 3 /\ ToGo' = 2 * (MaxRetries + 1 - i') + Bit(cpc' = "tcp")
  /\ cpc' \in {"tls", "tlswait", "probe", "probewait"} =>
       ToGo' = 2 * (MaxRetries - i') + Events' + Bit(cpc' \in {"tls", "probe"} <=> Quiet')
  /\ cpc' \in {"tls", "tlswait"} => Stage' = 2
  /\ cpc' \in {"probe", "probewait"} => Stage' = 1
  /\ cpc' \in {"readwait", "read"} =>
       Stage' = 0 /\ ToGo' = 2 * (MaxRetries - i') + Bit(cpc' = "readwait")
  /\ cpc' \in {"writewait", "write"} =>
       /\ Stage' = 0
       /\ ToGo' = 2 * (MaxRetries - i') + 2 * ((Size - written') % Word)
                    + 4 * (MaxBlocks - blocks') + Bit(cpc' = "writewait")
  <1>1. CASE cpc' \in {"tcp", "tcpwait"} BY <1>1 DEF Stage, ToGo
  <1>2. CASE cpc' \in {"tls", "tlswait"} BY <1>2 DEF Stage, ToGo
  <1>3. CASE cpc' \in {"probe", "probewait"} BY <1>3 DEF Stage, ToGo
  <1>4. CASE cpc' \in {"readwait", "read"} BY <1>4 DEF Stage, ToGo
  <1>5. CASE cpc' \in {"writewait", "write"} BY <1>5 DEF Stage, ToGo
  <1> QED BY <1>1, <1>2, <1>3, <1>4, <1>5

\* A wait never takes a connection down that was up.
LEMMA FetchQuiet ==
  ASSUME ErrorFetched \/ link' = link, UNCHANGED <<inq, answered, alert, records>>
  PROVE  Events' = Events /\ (Quiet' <=> Quiet)
  <1>1. link' = "up" <=> link = "up"
    BY Fetched
  <1> QED BY <1>1, Zenon DEF Events, Quiet, Bit

\* What the server can still do, and what the client has not taken, is a number.
LEMMA EventsCount ==
  ASSUME ClientInv
  PROVE  Events \in Nat
  <1> USE Counts
  <1>1. Flights + 1 - answered \in Nat /\ MaxRecords - records \in Nat /\ Len(inq) \in Nat
    BY DEF ClientInv, TypeOK
  <1>2. Bit(alert = "none") \in Nat /\ Bit(link = "up") \in Nat
    BY DEF Bit
  <1> QED BY <1>1, <1>2 DEF Events

\* The first loop of connect(): every turn counts.
LEMMA TcpAdvances ==
  ASSUME ClientInv, TcpExhausted \/ TcpConnect \/ TcpWait
  PROVE  Nearer
  <1> USE Counts
  <1>1. i \in Nat /\ i <= MaxRetries + 1 /\ cpc \in {"tcp", "tcpwait"}
    BY DEF ClientInv, TypeOK, TcpExhausted, TcpConnect, TcpWait
  <1>2. \/ cpc' \in {"idle", "tls"}
        \/ cpc = "tcp" /\ cpc' = "tcpwait" /\ i' = i
        \/ cpc = "tcp" /\ cpc' = "tcp" /\ i' = i + 1 /\ i < MaxRetries
        \/ cpc = "tcpwait" /\ cpc' = "tcp" /\ i' = i + 2 /\ i < MaxRetries
    <2>1. CASE TcpExhausted
      BY <2>1, Zenon DEF TcpExhausted, Continue
    <2>2. CASE TcpConnect
      <3>1. PICK r \in Codes :
              CASE r = "SUCCESS"  -> Continue(r, "tls")
                [] r \in Pending  -> code' = r /\ cpc' = "tcpwait" /\ i' = i
                [] OTHER          -> code' = r /\ cpc' = cpc /\ i' = i + 1
        BY <2>2, Zenon DEF TcpConnect
      <3>2. cpc = "tcp" /\ i < MaxRetries
        BY <2>2 DEF TcpConnect
      <3> QED BY <3>1, <3>2, Zenon DEF Continue
    <2>3. CASE TcpWait
      <3>1. cpc = "tcpwait" /\ i < MaxRetries
        BY <2>3 DEF TcpWait, ClientInv, Counting
      <3> QED BY <2>3, <3>1, Zenon DEF TcpWait, Continue
    <2> QED BY <2>1, <2>2, <2>3
  <1>3. Stage = 3 /\ ToGo = 2 * (MaxRetries + 1 - i) + Bit(cpc = "tcp")
    BY <1>1, Measure
  <1>4. CASE cpc' = "idle"
    BY <1>4 DEF Nearer
  <1>5. CASE cpc' = "tls"
    BY <1>3, <1>5, MeasureNext DEF Nearer
  <1>6. CASE cpc' \in {"tcp", "tcpwait"}
    <2>1. Stage' = 3 /\ ToGo' = 2 * (MaxRetries + 1 - i') + Bit(cpc' = "tcp")
      BY <1>6, MeasureNext
    <2> QED BY <1>1, <1>2, <1>3, <1>6, <2>1 DEF Nearer, Bit
  <1> QED BY <1>2, <1>4, <1>5, <1>6

\* SSL_connect() and SSL_peek() ask to wait only when nothing has arrived.
LEMMA PendingIsQuiet ==
  ASSUME ClientInv, NEW r \in Pending
  PROVE  /\ Reconnect(r) => Quiet /\ UNCHANGED <<link, inq>>
         /\ PostHandshakeProbe(r) => Quiet /\ UNCHANGED <<link, inq>>
  <1>0. r # "SUCCESS" /\ r # "TLS_SETFD_ERROR"
    BY DEF Pending
  <1>1. seen \in Nat /\ seen + 1 \in Nat
    BY Counts DEF ClientInv, TypeOK
  <1>2. /\ r # CreateTLSResult("SSL", seen) /\ r # CreateTLSResult("ZERO_RETURN", seen)
        /\ r # CreateTLSResult("SYSCALL", seen)
        /\ BadServer => r # CreateTLSResult("SSL", seen + 1)
    BY <1>1, ResultJustified, Zenon
  <1>3. r # CreateTLSResult(IF Front("alert") THEN "SSL" ELSE "ZERO_RETURN", seen)
    BY <1>2, Zenon
  <1>4. r # IF BadServer THEN CreateTLSResult("SSL", seen + 1) ELSE "SUCCESS"
    BY <1>0, <1>2, Zenon
  <1>5. Reconnect(r) => Quiet /\ UNCHANGED <<link, inq>>
    BY <1>0, <1>2, <1>3, <1>4, Zenon DEF Reconnect, PlainReconnect, Quiet
  <1>6. PostHandshakeProbe(r) => Quiet /\ UNCHANGED <<link, inq>>
    BY <1>0, <1>2, <1>3, Zenon DEF PostHandshakeProbe, Quiet
  <1> QED BY <1>5, <1>6

\* One record less in the queue outweighs the parity of the turn.
LEMMA TakenEvents ==
  ASSUME ClientInv, inq # <<>>, inq' = Tail(inq), UNCHANGED <<link, answered, alert, records>>
  PROVE  Events' = Events - 2 /\ Events' \in Nat
  <1>1. Len(inq') = Len(inq) - 1 /\ Len(inq') \in Nat /\ Len(inq) \in Nat
    BY QueueTail DEF ClientInv, TypeOK, Kinds
  <1>2. PICK a : a = (Flights + 1 - answered) + (MaxRecords - records)
                       + Bit(alert = "none") + Bit(link = "up")
    OBVIOUS
  <1>3. a \in Nat
    <2>1. Flights + 1 - answered \in Nat /\ MaxRecords - records \in Nat
      BY Counts DEF ClientInv, TypeOK
    <2>2. Bit(alert = "none") \in Nat /\ Bit(link = "up") \in Nat
      BY DEF Bit
    <2> QED BY <1>2, <2>1, <2>2
  <1>4. Events = 3 * a + 2 * Len(inq) /\ Events' = 3 * a + 2 * Len(inq')
    BY <1>2, Zenon DEF Events
  <1> QED BY <1>1, <1>3, <1>4

\* A turn of the second or the third loop.
LEMMA TurnAdvances ==
  ASSUME ClientInv,
         \/ cpc \in {"tls", "tlswait"} /\ cpc' \in {"tls", "tlswait"}
         \/ cpc \in {"probe", "probewait"} /\ cpc' \in {"probe", "probewait"},
         \/ Events' = Events - 2 /\ Events' \in Nat /\ i' = i
         \/ Events' = Events /\ i' = i + 1
         \/ /\ Events' = Events /\ i' = i /\ (Quiet' <=> Quiet)
            /\ \/ cpc \in {"tls", "probe"} /\ cpc' \in {"tlswait", "probewait"} /\ Quiet
               \/ cpc \in {"tlswait", "probewait"} /\ cpc' \in {"tls", "probe"} /\ ~Quiet
  PROVE  Nearer
  <1>1. /\ i \in Nat /\ i < MaxRetries /\ MaxRetries \in Nat
        /\ Events \in Nat
    BY Counts, EventsCount DEF ClientInv, TypeOK, Counting
  <1>2. /\ Stage' = Stage
        /\ ToGo = 2 * (MaxRetries - i) + Events + Bit(cpc \in {"tls", "probe"} <=> Quiet)
        /\ ToGo' = 2 * (MaxRetries - i') + Events' + Bit(cpc' \in {"tls", "probe"} <=> Quiet')
    BY Measure, MeasureNext
  <1>3. PICK b \in {0, 1} : b = Bit(cpc \in {"tls", "probe"} <=> Quiet)
    BY DEF Bit
  <1>4. PICK c \in {0, 1} : c = Bit(cpc' \in {"tls", "probe"} <=> Quiet')
    BY DEF Bit
  <1>5. CASE \/ Events' = Events - 2 /\ Events' \in Nat /\ i' = i
             \/ Events' = Events /\ i' = i + 1
    BY <1>1, <1>2, <1>3, <1>4, <1>5 DEF Nearer
  <1>6. CASE /\ Events' = Events /\ i' = i /\ (Quiet' <=> Quiet)
             /\ \/ cpc \in {"tls", "probe"} /\ cpc' \in {"tlswait", "probewait"} /\ Quiet
                \/ cpc \in {"tlswait", "probewait"} /\ cpc' \in {"tls", "probe"} /\ ~Quiet
    <2>1. b = 1 /\ c = 0
      BY <1>3, <1>4, <1>6 DEF Bit
    <2> QED BY <1>1, <1>2, <1>3, <1>4, <1>6, <2>1 DEF Nearer
  <1> QED BY <1>5, <1>6

\* The handshake.  Only the turn that finds POLLOUT and nothing else gets nowhere.
LEMMA HandshakeAdvances ==
  ASSUME ClientInv, HandshakeMessage \/ Handshake \/ HandshakeWait
  PROVE  Nearer \/ Spins
  <1> USE DEF cliVars, srvVars, histVars
  <1>1. CASE HandshakeMessage
    <2>1. Events' = Events - 2 /\ Events' \in Nat
      BY <1>1, TakenEvents DEF HandshakeMessage, Front
    <2> QED BY <1>1, <2>1, TurnAdvances DEF HandshakeMessage
  <1>2. CASE Handshake
    <2>1. PICK r \in Codes :
            /\ Reconnect(r)
            /\ IF r \in Pending THEN code' = r /\ cpc' = "tlswait" /\ i' = i
                                ELSE Continue(r, "probe")
      BY <1>2, Zenon DEF Handshake
    <2>2. cpc = "tls" /\ UNCHANGED <<answered, alert, records>>
      BY <1>2 DEF Handshake
    <2>3. CASE r \in Pending
      <3>1. Quiet /\ UNCHANGED <<link, inq>> /\ cpc' = "tlswait" /\ i' = i
        BY <2>1, <2>3, PendingIsQuiet, Zenon
      <3>2. Events' = Events /\ (Quiet' <=> Quiet)
        BY <2>2, <3>1, FetchQuiet
      <3> QED BY <2>2, <3>1, <3>2, TurnAdvances
    <2>4. CASE r \notin Pending
      <3>1. cpc' \in {"probe", "idle"}
        BY <2>1, <2>4, Zenon DEF Continue
      <3> QED BY <2>2, <3>1, Measure, MeasureNext DEF Nearer
    <2> QED BY <2>3, <2>4
  <1>3. CASE HandshakeWait
    <2>1. PICK r \in Codes :
            LET n == IF r = "SOCKET_TIMEOUT" THEN i + 1 ELSE i
            IN  /\ Wait("CONNECT", r)
                /\ IF r \in {"SUCCESS", "SOCKET_TIMEOUT"} /\ n < MaxRetries
                   THEN code' = r /\ cpc' = "tls" /\ i' = n
                   ELSE Return(r)
      BY <1>3, Zenon DEF HandshakeWait
    <2>2. cpc = "tlswait" /\ UNCHANGED <<inq, answered, alert, records>>
      BY <1>3 DEF HandshakeWait
    <2>3. ErrorFetched \/ link' = link
      BY <2>1, WaitResult, Zenon
    <2>4. Events' = Events /\ (Quiet' <=> Quiet)
      BY <2>2, <2>3, FetchQuiet
    <2>5. \/ cpc' = "idle"
          \/ cpc' = "tls" /\ i' \in {i, i + 1}
      BY <2>1, Zenon DEF Return, Continue
    <2>6. CASE cpc' = "idle" BY <2>6 DEF Nearer
    <2>7. CASE cpc' = "tls" /\ i' = i + 1
      BY <2>2, <2>4, <2>7, TurnAdvances
    <2>8. CASE cpc' = "tls" /\ i' = i
      <3>1. CASE Quiet BY <2>2, <2>8, <3>1 DEF Spins
      <3>2. CASE ~Quiet BY <2>2, <2>4, <2>8, <3>2, TurnAdvances
      <3> QED BY <3>1, <3>2
    <2> QED BY <2>5, <2>6, <2>7, <2>8
  <1> QED BY <1>1, <1>2, <1>3

\* The probe waits for POLLIN alone: what ends its wait is a record or the end.
LEMMA ProbeAdvances ==
  ASSUME ClientInv, ProbeTicket \/ Probe \/ ProbeWait
  PROVE  Nearer
  <1> USE DEF cliVars, srvVars, histVars
  <1>1. CASE ProbeTicket
    <2>1. Events' = Events - 2 /\ Events' \in Nat
      BY <1>1, TakenEvents DEF ProbeTicket, Front
    <2> QED BY <1>1, <2>1, TurnAdvances DEF ProbeTicket
  <1>2. CASE Probe
    <2>1. \/ cpc' = "idle"
          \/ \E r \in Pending : PostHandshakeProbe(r) /\ cpc' = "probewait" /\ i' = i
      BY <1>2, Zenon DEF Probe, Return, Continue
    <2>2. cpc = "probe" /\ UNCHANGED <<answered, alert, records>>
      BY <1>2 DEF Probe
    <2>3. CASE cpc' = "idle" BY <2>3 DEF Nearer
    <2>4. CASE \E r \in Pending : PostHandshakeProbe(r) /\ cpc' = "probewait" /\ i' = i
      <3>1. Quiet /\ UNCHANGED <<link, inq>> /\ cpc' = "probewait" /\ i' = i
        BY <2>4, PendingIsQuiet, Zenon
      <3>2. Events' = Events /\ (Quiet' <=> Quiet)
        BY <2>2, <3>1, FetchQuiet
      <3> QED BY <2>2, <3>1, <3>2, TurnAdvances
    <2> QED BY <2>1, <2>3, <2>4
  <1>3. CASE ProbeWait
    <2>1. PICK r \in Codes :
            /\ Wait("READ", r)
            /\ CASE r = "SUCCESS"        -> code' = r /\ cpc' = "probe" /\ i' = i
                 [] r = "SOCKET_TIMEOUT" -> Return("SUCCESS")
                 [] OTHER                -> Return(r)
      BY <1>3, Zenon DEF ProbeWait
    <2>2. cpc = "probewait" /\ tls /\ UNCHANGED <<inq, answered, alert, records>>
      BY <1>3 DEF ProbeWait, ClientInv, Positions
    <2>3. ErrorFetched \/ link' = link
      BY <2>1, WaitResult, Zenon
    <2>4. Events' = Events /\ (Quiet' <=> Quiet)
      BY <2>2, <2>3, FetchQuiet
    <2>5. CASE r = "SUCCESS"
      <3>1. link \in {"up", "fin"}
        BY <2>1, <2>5, WaitResult, Zenon
      <3>2. Ready("READ")
        <4>1. r # "SOCKET_EVENT_ERROR" /\ r # "SOCKET_TIMEOUT"
          BY <2>5
        <4>2. link # "refused" /\ link # "reset" /\ link # "hup"
          BY <3>1
        <4> QED BY <2>1, <4>1, <4>2, Zenon DEF Wait
      <3>3. Interest("READ") = {"IN"}
        BY Zenon DEF Interest
      <3>4. "OUT" \notin {"IN"}
        OBVIOUS
      <3>5. inq # <<>> \/ link = "fin"
        BY <2>2, <3>2, <3>3, <3>4, Zenon DEF Ready, Readable
      <3>6. ~Quiet
        BY <3>5 DEF Quiet
      <3>7. cpc' = "probe" /\ i' = i
        BY <2>1, <2>5, Zenon
      <3> QED BY <2>2, <2>4, <3>6, <3>7, TurnAdvances
    <2>6. CASE r # "SUCCESS"
      <3>1. cpc' = "idle"
        BY <2>1, <2>6, Zenon DEF Return, Continue
      <3> QED BY <3>1 DEF Nearer
    <2> QED BY <2>5, <2>6
  <1> QED BY <1>1, <1>2, <1>3

\* What a wait of read() or write() leads to.
LEMMA WaitTurn ==
  ASSUME NEW p, NEW q, NEW r,
         CASE r = "SUCCESS"        -> code' = r /\ cpc' = q /\ i' = i
           [] r = "SOCKET_TIMEOUT" -> Again(r, p)
           [] OTHER                -> Return(r)
  PROVE  \/ cpc' = "idle"
         \/ cpc' = q /\ i' = i
         \/ cpc' = p /\ i' = i + 1 /\ i' < MaxRetries
  <1>1. CASE r = "SUCCESS" BY <1>1, Zenon
  <1>2. CASE r = "SOCKET_TIMEOUT" BY <1>2, Zenon DEF Again
  <1>3. CASE r \notin {"SUCCESS", "SOCKET_TIMEOUT"} BY <1>3, Zenon DEF Return, Continue
  <1> QED BY <1>1, <1>2, <1>3, Zenon

\* read(): every wait is followed by a read, and what brings nothing counts.
LEMMA ReadAdvances ==
  ASSUME ClientInv, ReadWait \/ Read
  PROVE  Nearer
  <1> USE Counts
  <1>0. cpc \in {"readwait", "read"}
    BY Zenon DEF ReadWait, Read
  <1>1. i \in Nat /\ i < MaxRetries /\ cpc \in {"readwait", "read"}
    BY <1>0 DEF ClientInv, TypeOK, Counting
  <1>2. \/ cpc' = "idle"
        \/ cpc = "readwait" /\ cpc' = "read" /\ i' = i
        \/ cpc' = "readwait" /\ i' = i + 1 /\ i' < MaxRetries
    <2>1. CASE ReadWait
      <3>1. cpc = "readwait"
        BY <2>1 DEF ReadWait
      <3> QED BY <2>1, <3>1, WaitTurn, Zenon DEF ReadWait
    <2>2. CASE Read
      BY <2>2, Zenon DEF Read, Again, Return, Continue
    <2> QED BY <2>1, <2>2
  <1>3. Stage = 0 /\ ToGo = 2 * (MaxRetries - i) + Bit(cpc = "readwait")
    BY <1>1, Measure
  <1>4. CASE cpc' = "idle" BY <1>4 DEF Nearer
  <1>5. CASE cpc' \in {"readwait", "read"}
    <2>1. Stage' = 0 /\ ToGo' = 2 * (MaxRetries - i') + Bit(cpc' = "readwait")
      BY <1>5, MeasureNext
    <2> QED BY <1>1, <1>2, <1>3, <1>5, <2>1 DEF Nearer, Bit
  <1> QED BY <1>2, <1>4, <1>5

\* What is left, as a size_t, after n more bytes, n being -1 for a send that
\* would block.
LEMMA Left ==
  ASSUME NEW w \in 0..Word - 1, NEW n \in Int, n >= -1, n <= (Size - w) % Word,
         NEW v, v = (w + n) % Word
  PROVE  /\ (Size - w) % Word \in Nat /\ (Size - v) % Word \in Nat
         /\ n > 0 => (Size - v) % Word = ((Size - w) % Word) - n
         /\ n = -1 => (Size - v) % Word <= ((Size - w) % Word) + 1
  <1> USE Counts
  <1>1. (Size - w) % Word = IF w <= Size THEN Size - w ELSE Size - w + Word
    OBVIOUS
  <1> QED BY <1>1
\* write(): a send takes bytes, would block, or fails; a timeout counts.
LEMMA WriteAdvances ==
  ASSUME ClientInv, WriteWait \/ Write
  PROVE  Nearer
  <1> USE Counts
  <1> DEFINE left == (Size - written) % Word
  <1>0. cpc \in {"writewait", "write"}
    BY Zenon DEF WriteWait, Write
  <1>1. /\ i \in Nat /\ i < MaxRetries
        /\ written \in 0..Word - 1 /\ blocks \in Nat /\ blocks <= MaxBlocks
    BY <1>0 DEF ClientInv, TypeOK, Counting
  <1>2. left \in Nat
    BY <1>1, Modulo
  <1>3. /\ Stage = 0
        /\ ToGo = 2 * (MaxRetries - i) + 2 * left + 4 * (MaxBlocks - blocks) + Bit(cpc = "writewait")
    BY <1>0, Measure
  <1>4. /\ Bit(cpc = "writewait") = 1 <=> cpc = "writewait"
        /\ Bit(cpc = "writewait") \in {0, 1} /\ Bit(cpc' = "writewait") \in {0, 1}
        /\ Bit(cpc' = "writewait") = 1 <=> cpc' = "writewait"
    BY DEF Bit
  <1>5. CASE cpc' = "idle" BY <1>5 DEF Nearer
  <1>6. CASE WriteWait /\ cpc' # "idle"
    <2>1. UNCHANGED <<written, blocks>> /\ cpc = "writewait"
      BY <1>6 DEF WriteWait, histVars
    <2>2. (cpc' = "write" /\ i' = i) \/ (cpc' = "writewait" /\ i' = i + 1 /\ i' < MaxRetries)
      BY <1>6, WaitTurn, Zenon DEF WriteWait
    <2>3. /\ Stage' = 0
          /\ ToGo' = 2 * (MaxRetries - i') + 2 * left + 4 * (MaxBlocks - blocks)
                       + Bit(cpc' = "writewait")
      BY <2>1, <2>2, MeasureNext
    <2> HIDE DEF left
    <2> QED BY <1>1, <1>2, <1>3, <1>4, <2>1, <2>2, <2>3 DEF Nearer
  <1>7. CASE Write /\ cpc' # "idle"
    <2>0. cpc = "write"
      BY <1>7 DEF Write
    <2>1. PICK n \in Int :
            /\ n <= left /\ written' = (written + n) % Word /\ i' = i /\ cpc' = "writewait"
            /\ \/ n > 0 /\ blocks' = blocks
               \/ n = -1 /\ blocks < MaxBlocks /\ blocks' = blocks + 1
      BY <1>7, WriteEffect, Zenon
    <2>2. PICK rest : rest = (Size - written') % Word
      OBVIOUS
    <2>3. /\ rest \in Nat
          /\ n > 0 => rest = left - n
          /\ n = -1 => rest <= left + 1
      <3>1. n >= -1
        BY <2>1
      <3> QED BY <1>1, <2>1, <2>2, <3>1, Left
    <2>4. /\ Stage' = 0
          /\ ToGo' = 2 * (MaxRetries - i') + 2 * rest + 4 * (MaxBlocks - blocks')
                       + Bit(cpc' = "writewait")
      BY <2>1, <2>2, MeasureNext
    <2> HIDE DEF left
    <2> QED BY <1>1, <1>2, <1>3, <1>4, <2>0, <2>1, <2>3, <2>4 DEF Nearer
  <1> QED BY <1>5, <1>6, <1>7

\* One thing less that the server can do outweighs one record more to take.
LEMMA Weighed ==
  ASSUME NEW p \in Nat, NEW q \in Nat, q = p - 1, NEW k \in Nat, NEW h \in Nat, h <= k + 1
  PROVE  /\ 3 * p + 2 * k \in Nat /\ 3 * q + 2 * h \in Nat
         /\ 3 * q + 2 * h < 3 * p + 2 * k
  OBVIOUS

\* The server: what it does was counted among the things it can still do.
LEMMA ServerCounted ==
  ASSUME ClientInv, ServerStep, cpc \in {"tls", "tlswait", "probe", "probewait"}
  PROVE  /\ Events \in Nat /\ Events' \in Nat
         /\ \/ Events' = Events /\ (Quiet' <=> Quiet)
            \/ Events' < Events
  <1> USE Counts DEF cliVars, srvVars, histVars
  <1>1. /\ answered \in Nat /\ answered <= Flights + 1 /\ records \in Nat /\ records <= MaxRecords
        /\ inq \in Seq(Kinds) /\ Len(inq) \in Nat
        /\ link \in {"up"} \cup Gone
    BY DEF ClientInv, TypeOK, Positions, Kinds
  <1>2. PICK a \in Nat, r \in Nat, x \in Nat, l \in Nat, k \in Nat :
          /\ a = Flights + 1 - answered /\ r = MaxRecords - records
          /\ x = Bit(alert = "none") /\ l = Bit(link = "up") /\ k = Len(inq)
    <2>1. Flights + 1 - answered \in Nat /\ MaxRecords - records \in Nat
      BY <1>1
    <2>2. Bit(alert = "none") \in Nat /\ Bit(link = "up") \in Nat
      BY DEF Bit
    <2> QED BY <1>1, <2>1, <2>2, Zenon
  <1>3. Events = 3 * (a + r + x + l) + 2 * k
    BY <1>2, Zenon DEF Events
  <1>4. ASSUME NEW q, Events' = 3 * q + 2 * Len(inq'), q = a + r + x + l - 1, q \in Nat,
               Len(inq') \in Nat, Len(inq') <= k + 1
        PROVE  Events' \in Nat /\ Events' < Events /\ Events \in Nat
    <2>1. PICK p \in Nat : p = a + r + x + l
      OBVIOUS
    <2>2. PICK h \in Nat : h = Len(inq')
      BY <1>4, Zenon
    <2>3. Events = 3 * p + 2 * k /\ Events' = 3 * q + 2 * h
      BY <1>3, <1>4, <2>1, <2>2, Zenon
    <2>4. h <= k + 1 /\ q = p - 1
      <3>1. h <= k + 1
        BY <1>4, <2>2, Zenon
      <3>2. q = a + r + x + l - 1
        BY <1>4, Zenon
      <3> QED BY <2>1, <3>1, <3>2
    <2>5. /\ 3 * p + 2 * k \in Nat /\ 3 * q + 2 * h \in Nat
          /\ 3 * q + 2 * h < 3 * p + 2 * k
      BY <1>4, <2>4, Weighed
    <2> QED BY <2>3, <2>5, Zenon
  <1>5. CASE TcpAnswer
    BY <1>1, <1>5 DEF TcpAnswer, Gone
  <1>6. CASE ServerReceives
    <2>1. UNCHANGED <<answered, records, alert, link, inq>>
      BY <1>6 DEF ServerReceives
    <2> QED BY <2>1, EventsCount, Zenon DEF Events, Quiet, Bit
  <1>7. CASE ServerAnswers
    <2>1. /\ UNCHANGED <<records, alert, link>> /\ answered <= Flights /\ answered' = answered + 1
          /\ inq' = Append(inq, "msg")
      BY <1>1, <1>7 DEF ServerAnswers
    <2>2. Len(inq') = k + 1 /\ k + 1 \in Nat
      BY <1>1, <1>2, <2>1, QueueAppend DEF Kinds
    <2>3. a - 1 \in Nat /\ Flights + 1 - answered' = a - 1
      BY <1>1, <1>2, <2>1
    <2>4. PICK q : q = (a - 1) + r + x + l
      OBVIOUS
    <2>5. Events' = 3 * q + 2 * Len(inq')
      BY <1>2, <2>1, <2>3, <2>4, Zenon DEF Events
    <2>6. q = a + r + x + l - 1 /\ q \in Nat /\ k + 1 <= k + 1
      BY <2>3, <2>4
    <2> QED BY <1>4, <2>2, <2>5, <2>6, Zenon
  <1>8. CASE ServerRejects
    <2>1. /\ UNCHANGED <<answered, records, link>> /\ alert = "none" /\ alert' # "none"
          /\ inq' = Append(inq, "alert")
      BY <1>8 DEF ServerRejects
    <2>2. Len(inq') = k + 1 /\ k + 1 \in Nat
      BY <1>1, <1>2, <2>1, QueueAppend DEF Kinds
    <2>3. x = 1 /\ Bit(alert' = "none") = 0
      BY <1>2, <2>1 DEF Bit
    <2>4. PICK q : q = a + r + 0 + l
      OBVIOUS
    <2>5. Events' = 3 * q + 2 * Len(inq')
      BY <1>2, <2>1, <2>3, <2>4, Zenon DEF Events
    <2>6. q = a + r + x + l - 1 /\ q \in Nat /\ k + 1 <= k + 1
      BY <2>3, <2>4
    <2> QED BY <1>4, <2>2, <2>5, <2>6, Zenon
  <1>9. CASE ServerSends
    <2>1. /\ UNCHANGED <<answered, alert, link>> /\ records < MaxRecords /\ records' = records + 1
          /\ inq' = Append(inq, "data")
      BY <1>9 DEF ServerSends
    <2>2. Len(inq') = k + 1 /\ k + 1 \in Nat
      BY <1>1, <1>2, <2>1, QueueAppend DEF Kinds
    <2>3. r - 1 \in Nat /\ MaxRecords - records' = r - 1
      BY <1>1, <1>2, <2>1
    <2>4. PICK q : q = a + (r - 1) + x + l
      OBVIOUS
    <2>5. Events' = 3 * q + 2 * Len(inq')
      BY <1>2, <2>1, <2>3, <2>4, Zenon DEF Events
    <2>6. q = a + r + x + l - 1 /\ q \in Nat /\ k + 1 <= k + 1
      BY <2>3, <2>4
    <2> QED BY <1>4, <2>2, <2>5, <2>6, Zenon
  <1>10. CASE ServerHangup
    <2>1. /\ UNCHANGED <<answered, records, alert>> /\ link' # "up"
          /\ \/ link = "up" /\ inq' = Append(inq, "close_notify")
             \/ inq' = inq
      BY <1>10 DEF ServerHangup
    <2>2. CASE link = "up"
      <3>1. Len(inq') \in Nat /\ Len(inq') <= k + 1
        BY <1>1, <1>2, <2>1, QueueAppend DEF Kinds
      <3>2. l = 1 /\ Bit(link' = "up") = 0
        BY <1>2, <2>1, <2>2 DEF Bit
      <3>3. PICK q : q = a + r + x + 0
        OBVIOUS
      <3>4. Events' = 3 * q + 2 * Len(inq')
        BY <1>2, <2>1, <3>2, <3>3, Zenon DEF Events
      <3>5. q = a + r + x + l - 1 /\ q \in Nat
        BY <3>2, <3>3
      <3> QED BY <1>4, <3>1, <3>4, <3>5, Zenon
    <2>3. CASE link # "up"
      <3>1. inq' = inq
        BY <2>1, <2>3
      <3>2. Events' = Events /\ (Quiet' <=> Quiet)
        BY <2>1, <2>3, <3>1, Zenon DEF Events, Quiet, Bit
      <3> QED BY <3>2, EventsCount
    <2> QED BY <2>2, <2>3
  <1> QED BY <1>5, <1>6, <1>7, <1>8, <1>9, <1>10 DEF ServerStep

\* A step of the server takes no call back, and leaves a number to go.
LEMMA ServerAdvances ==
  ASSUME ClientInv, ServerStep, cpc # "idle"
  PROVE  ToGo' \in 0..ToGo
  <1> USE Counts
  <1>1. /\ UNCHANGED <<cpc, i, written, blocks>>
        /\ i \in Nat /\ i <= MaxRetries + 1
        /\ written \in 0..Word - 1 /\ blocks \in Nat /\ blocks <= MaxBlocks
    BY DEF ServerStep, TcpAnswer, ServerAnswers, ServerRejects, ServerSends, ServerReceives,
           ServerHangup, ClientInv, TypeOK, cliVars, histVars
  <1>2. CASE cpc \in {"tls", "tlswait", "probe", "probewait"}
    <2>1. i < MaxRetries
      BY <1>2 DEF ClientInv, Counting
    <2>2. PICK b \in {0, 1} : b = Bit(cpc \in {"tls", "probe"} <=> Quiet)
      BY DEF Bit
    <2>3. PICK c \in {0, 1} : c = Bit(cpc' \in {"tls", "probe"} <=> Quiet')
      BY DEF Bit
    <2>4. /\ ToGo = 2 * (MaxRetries - i) + Events + b
          /\ ToGo' = 2 * (MaxRetries - i) + Events' + c
      BY <1>1, <1>2, <2>2, <2>3, Measure, MeasureNext
    <2>5. /\ Events \in Nat /\ Events' \in Nat
          /\ (Events' = Events /\ c = b) \/ Events' < Events
      BY <1>1, <1>2, <2>2, <2>3, ServerCounted, Zenon
    <2>6. PICK t \in Nat : t = 2 * (MaxRetries - i)
      BY <1>1, <2>1
    <2>7. /\ ToGo = t + Events + b
          /\ ToGo' = t + Events' + c
      BY <2>4, <2>6, Zenon
    <2>8. PICK e \in Nat, f \in Nat :
            e = Events /\ f = Events' /\ ((f = e /\ c = b) \/ f < e)
      BY <2>5, Zenon
    <2>9. (f = e /\ c = b) \/ f < e
      BY <2>8, Zenon
    <2>10. t + f + c \in 0..t + e + b
      BY <2>9
    <2> QED BY <2>7, <2>8, <2>10, Zenon
  <1>3. CASE cpc \notin {"tls", "tlswait", "probe", "probewait"}
    <2>1. ToGo' = ToGo
      <3>1. cpc \in {"tcp", "tcpwait", "readwait", "read", "writewait", "write"}
        BY <1>3 DEF ClientInv, TypeOK
      <3> QED BY <1>1, <3>1, Measure, MeasureNext
    <2>2. ToGo \in Nat
      <3>1. cpc \in {"tcp", "tcpwait", "readwait", "read", "writewait", "write"}
        BY <1>3 DEF ClientInv, TypeOK
      <3>2. i <= MaxRetries \/ cpc \in {"tcp", "tcpwait"}
        BY <3>1 DEF ClientInv, Counting, TypeOK
      <3>3. (Size - written) % Word \in Nat
        BY <1>1, Modulo
      <3> QED BY <1>1, <3>1, <3>2, <3>3, Measure DEF Bit
    <2> QED BY <2>1, <2>2
  <1> QED BY <1>2, <1>3

\* Whatever the server does or leaves undone, every step of connect(), read() and
\* write() brings the call nearer to its return, and no step of the server takes
\* it back.  The exception is the turn of the handshake loop with a silent server.
THEOREM ClientAdvances == Spec => ClientProgress
  <1> DEFINE Moves == cpc # "idle" => Nearer \/ Spins \/ (ServerStep /\ ToGo' \in 0..ToGo)
  <1>1. ASSUME ClientInv, Next, cpc # "idle"
        PROVE  Nearer \/ Spins \/ (ServerStep /\ ToGo' \in 0..ToGo)
    <2>1. CASE Open \/ OpenFails \/ Close \/ ConnectCall \/ IsConnected \/ ReadCall \/ WriteCall
      BY <1>1, <2>1 DEF Open, OpenFails, Close, ConnectCall, IsConnected, ReadCall, WriteCall
    <2>2. CASE ServerStep BY <1>1, <2>2, ServerAdvances
    <2>3. CASE ClientStep
      BY <1>1, <2>3, TcpAdvances, HandshakeAdvances, ProbeAdvances, ReadAdvances, WriteAdvances,
         Zenon DEF ClientStep
    <2> QED BY <1>1, <2>1, <2>2, <2>3 DEF Next
  <1>2. ASSUME ClientInv, [Next]_vars
        PROVE  [Moves]_vars
    BY <1>1, <1>2, Zenon
  <1> QED BY <1>2, ClientInvariant, PTL DEF Spec, ClientProgress
==============================================================================
