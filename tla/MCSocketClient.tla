---------------------------- MODULE MCSocketClient ----------------------------
(* Instances of SocketClient for TLC. *)
EXTENDS SocketClient

Old == TLS1_2_VERSION
New == TLS1_3_VERSION

\* A server: what it serves and its certificate.
ServerWith(versions, suites, cert) == [versions |-> versions, suites |-> suites, cert |-> cert]
AllSuites == Range(TLS12Suites) \cup Range(TLS13Suites)

Setup(configuration, peer) ==
  [cfg |-> configuration, built |-> TRUE, resolved |-> TRUE, server |-> peer]

Unverified(versions) == ClientConfiguration(versions, <<>>, <<>>, FALSE, FALSE)
Plain == Setup(Unverified(<<>>), ServerWith({}, {}, "valid"))

\* A name that does not resolve, and a library built without TLS.
Local == {[Plain EXCEPT !.resolved = FALSE],
          [Setup(Unverified(<<New>>), ServerWith({New}, AllSuites, "valid")) EXCEPT !.built = FALSE]}

\* Every choice of versions on both sides.
Negotiations ==
  {Setup(Unverified(vs), ServerWith(ws, AllSuites, "valid")) :
     vs \in {<<Old>>, <<New>>, <<New, Old>>}, ws \in {{Old}, {New}, {Old, New}}}

\* Every certificate, checked, half checked and unchecked, with either version.
Verifications ==
  {Setup(ClientConfiguration(<<Old, New>>, <<>>, <<>>, verify, host), ServerWith({v}, AllSuites, cert)) :
     verify \in BOOLEAN, host \in BOOLEAN, v \in {Old, New}, cert \in {"invalid", "mismatch"}}

\* Suites chosen for both versions against servers that have both, one of them
\* or, of the version that is agreed on, none.
Suites ==
  {Setup(ClientConfiguration(<<Old, New>>, <<"ECDHE_RSA_AES256_GCM_SHA384">>,
                             <<"TLS_CHACHA20_POLY1305_SHA256">>, FALSE, FALSE),
         ServerWith(ws, suites, "valid")) :
     ws \in {{Old}, {Old, New}},
     suites \in {{"ECDHE_RSA_AES256_GCM_SHA384", "TLS_CHACHA20_POLY1305_SHA256"},
                 {"ECDHE_RSA_AES256_GCM_SHA384", "TLS_AES_128_GCM_SHA256"},
                 {"ECDHE_ECDSA_AES256_GCM_SHA384", "TLS_CHACHA20_POLY1305_SHA256"}}}

AllSetups == {Plain} \cup Local \cup Negotiations \cup Verifications \cup Suites

\* One of each kind, and one version only.
EachVersion ==
  {Plain} \cup Local
  \cup {Setup(Unverified(<<New, Old>>), ServerWith(ws, AllSuites, "valid")) : ws \in {{Old}, {New}}}
  \cup {Setup(Unverified(<<New>>), ServerWith({Old}, AllSuites, "valid"))}
OneVersion == {Setup(Unverified(<<Old>>), ServerWith({Old}, AllSuites, "valid"))}
==============================================================================
