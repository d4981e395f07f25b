--------------------------- MODULE MCRequestServer ---------------------------
(* Instances of RequestServer for TLC. *)
EXTENDS RequestServer, TLC

CONSTANTS slot1, slot2

TwoSlots == <<slot1, slot2>>

Request(mode, payload, response) == [mode |-> mode, payload |-> payload, response |-> response]

\* A response longer than the send buffer, then a request without payload and
\* without response.
Short     == <<Request("FAST", 1, 2), Request("WRITE_STREAM", 0, 0)>>
\* A request that is never handed to the handler; and one in pieces.
Slow      == <<Request("SLOW", 0, 0)>>
Pieces    == <<Request("FAST", 1, 2)>>

\* Connections are interchangeable; pool objects are not, their order is known.
Symmetric == Permutations(Clients)
==============================================================================
