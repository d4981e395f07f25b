---------------------------- MODULE ClientRegistry ----------------------------
(***************************************************************************)
(* What a broadcast server promises about its clients, without threads,    *)
(* mutexes, descriptors, polling or deferred destruction: a client arrives *)
(* once, is on the list once, leaves it once, and is closed once; it is    *)
(* announced at most once and its end is reported at most once, when it is *)
(* closed.  BroadcastServer implements this module.                        *)
(***************************************************************************)
EXTENDS Naturals

CONSTANT Clients

VARIABLES
  phase,         \* the life of each client
  connected,     \* clients for which onClientConnected ran
  disconnected   \* number of onClientDisconnected calls per client

regVars == <<phase, connected, disconnected>>

Phases == {"absent", "arriving", "active", "leaving", "closed"}

In(p) == {c \in Clients : phase[c] = p}

\* The clients of S go on to phase p.
Move(S, p) == phase' = [c \in Clients |-> IF c \in S THEN p ELSE phase[c]]

Init ==
  /\ phase = [c \in Clients |-> "absent"]
  /\ connected = {}
  /\ disconnected = [c \in Clients |-> 0]

\* A connection is accepted, and then put on the list.
Accept(c) == phase[c] = "absent" /\ Move({c}, "arriving") /\ UNCHANGED <<connected, disconnected>>
Join(c) == phase[c] = "arriving" /\ Move({c}, "active") /\ UNCHANGED <<connected, disconnected>>

\* The callback comes after the client is on the list, perhaps when it has
\* already been taken off again.
Announce(c) ==
  /\ phase[c] \in {"active", "leaving", "closed"} /\ c \notin connected
  /\ connected' = connected \cup {c}
  /\ UNCHANGED <<phase, disconnected>>

\* One client that hung up, or all of them, leave the list.
Leave(S) ==
  /\ S # {} /\ S \subseteq In("active") /\ Move(S, "leaving")
  /\ UNCHANGED <<connected, disconnected>>

\* Whoever took a client off the list closes it and reports its end, once.
Close(c) ==
  /\ phase[c] = "leaving" /\ Move({c}, "closed")
  /\ disconnected[c] = 0
  /\ disconnected' \in {disconnected, [disconnected EXCEPT ![c] = 1]}
  /\ UNCHANGED connected

\* The end of the server closes the listed clients without a report.
Shutdown ==
  /\ In("active") # {} /\ Move(In("active"), "closed")
  /\ UNCHANGED <<connected, disconnected>>

Next ==
  \/ \E c \in Clients : Accept(c) \/ Join(c) \/ Announce(c) \/ Close(c)
  \/ \E S \in SUBSET Clients : Leave(S)
  \/ Shutdown

Spec == Init /\ [][Next]_regVars
==============================================================================
