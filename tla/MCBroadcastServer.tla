-------------------------- MODULE MCBroadcastServer --------------------------
(* Instances of BroadcastServer for TLC. *)
EXTENDS BroadcastServer, TLC

CONSTANTS owner1, helper1   \* the thread that opens and closes, and another

\* The owner runs the server's life cycle, the helper drops clients and waits.
FullCalls ==
  ({owner1} \X {"open", "close"}) \cup ({helper1} \X {"dropAll", "await", "awaitClose"})

\* The same without dropAll: only the monitor takes clients off the list.
NoDropCalls ==
  ({owner1} \X {"open", "close"}) \cup ({helper1} \X {"await", "awaitClose"})

\* Only the life cycle.
OwnerCalls == {owner1} \X {"open", "close"}

\* Connections and descriptors are interchangeable.
Symmetric == Permutations(Clients) \cup Permutations(Fds)
==============================================================================
