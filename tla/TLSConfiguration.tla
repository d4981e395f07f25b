-------------------------- MODULE TLSConfiguration --------------------------
(***************************************************************************)
(* SocketTLSClientConfiguration (SecuritySocket.hpp/.cpp) and what the     *)
(* constructor of TLSClientActiveSocket makes of it: the range of versions *)
(* and the lists of cipher suites handed to the TLS library, and what the  *)
(* library then agrees on with a server.                                   *)
(*                                                                         *)
(* A bitmap is the set of its members, and so is the string of suite names *)
(* made from it: the server chooses among them, and their order is never   *)
(* observed.  File names and passwords are left out: whether the server    *)
(* accepts the client's certificate is up to the server.                   *)
(***************************************************************************)
EXTENDS Integers, Sequences, FiniteSetsExt, Functions

TLS1_2_VERSION == 771
TLS1_3_VERSION == 772
SocketTLSVersion == {TLS1_2_VERSION, TLS1_3_VERSION}

\* The suites in the order in which their names are appended.
TLS12Suites ==
  <<"ECDHE_ECDSA_AES256_GCM_SHA384", "ECDHE_RSA_AES256_GCM_SHA384",
    "ECDHE_ECDSA_CHACHA20_POLY1305", "ECDHE_RSA_CHACHA20_POLY1305">>
TLS13Suites ==
  <<"TLS_AES_128_GCM_SHA256", "TLS_AES_256_GCM_SHA384", "TLS_CHACHA20_POLY1305_SHA256",
    "TLS_AES_128_CCM_SHA256", "TLS_AES_128_CCM8_SHA256">>

\* The constructor: every list of its arguments becomes a bitmap.
ClientConfiguration(versions, suites12, suites13, verifyServer, verifyHostname) ==
  [versions |-> Range(versions), suites12 |-> Range(suites12), suites13 |-> Range(suites13),
   verifyServer |-> verifyServer, verifyHostname |-> verifyHostname]

ConfigurationType ==
  [versions : SUBSET SocketTLSVersion, suites12 : SUBSET Range(TLS12Suites),
   suites13 : SUBSET Range(TLS13Suites), verifyServer : BOOLEAN, verifyHostname : BOOLEAN]

\* A configuration without a version means a plain socket.
Valid(cfg) == cfg.versions # {}

IsVersionSupported(cfg, version) == version \in cfg.versions

GenerateTLS12CipherSuites(cfg) == {s \in Range(TLS12Suites) : s \in cfg.suites12}
GenerateTLS13CipherSuites(cfg) == {s \in Range(TLS13Suites) : s \in cfg.suites13}

------------------------------------------------------------------------------
(* TLSClientActiveSocket::TLSClientActiveSocket *)

\* Mutant: the lowest version follows the highest one.
VersionRangeNarrow(cfg) ==
  LET has13 == IsVersionSupported(cfg, TLS1_3_VERSION)
  IN  IF has13 THEN {TLS1_3_VERSION} ELSE {TLS1_2_VERSION}

\* The versions between min_proto_version and max_proto_version.
VersionRange(cfg) ==
  LET has12  == IsVersionSupported(cfg, TLS1_2_VERSION)
      has13  == IsVersionSupported(cfg, TLS1_3_VERSION)
      minVer == IF has12 THEN TLS1_2_VERSION ELSE TLS1_3_VERSION
      maxVer == IF has13 THEN TLS1_3_VERSION ELSE TLS1_2_VERSION
  IN  minVer..maxVer

\* What the library offers by itself: for TLS 1.3 not the CCM suites (external).
DefaultSuites(version) ==
  Range(IF version = TLS1_3_VERSION THEN SubSeq(TLS13Suites, 1, 3) ELSE TLS12Suites)

\* The suites offered for a version: the list the context was given; an empty
\* list is not handed over, so the library's own stays.
OfferedSuites(cfg, version) ==
  LET list == IF version = TLS1_3_VERSION THEN GenerateTLS13CipherSuites(cfg)
                                          ELSE GenerateTLS12CipherSuites(cfg)
  IN  IF list = {} THEN DefaultSuites(version) ELSE list

------------------------------------------------------------------------------
(* The TLS library (external).  A server is a record of the versions and    *)
(* the suites it serves.                                                    *)

\* The highest version both sides allow, 0 if there is none.
NegotiatedVersion(cfg, server) ==
  LET common == VersionRange(cfg) \cap server.versions
  IN  IF common = {} THEN 0 ELSE Max(common)

\* The version comes first: a suite of a lower version does not help.
SuiteShared(cfg, server) ==
  OfferedSuites(cfg, NegotiatedVersion(cfg, server)) \cap server.suites # {}

------------------------------------------------------------------------------
(* What the application asked for, stated without the library. *)

\* The versions it chose that the server has.
CommonVersions(cfg, server) == cfg.versions \cap server.versions

\* A suite it chose for a version, or left open, that the server has.
CommonSuite(cfg, server, version) ==
  LET chosen == IF version = TLS1_3_VERSION THEN cfg.suites13 ELSE cfg.suites12
  IN  \E s \in server.suites : s \in chosen \/ (chosen = {} /\ s \in DefaultSuites(version))
==============================================================================
