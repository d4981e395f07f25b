--------------------------- MODULE MCBroadcastWrite ---------------------------
(* Instances of BroadcastWrite for TLC. *)
EXTENDS BroadcastWrite, TLC

CONSTANTS owner1, helper1   \* the thread that opens, and one that drops clients

DropCalls == {<<owner1, "open">>, <<helper1, "dropAll">>}

Symmetric == Permutations(Clients) \cup Permutations(Fds)
==============================================================================
