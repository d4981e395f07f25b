---------------------------- MODULE RequestService ----------------------------
(***************************************************************************)
(* What a request server promises to one peer, without polling, buffers,   *)
(* pieces or pool: the requests of its stream are handled whole, once and  *)
(* in order; the next one is handled only when the response to the one     *)
(* before is completely written; and the response units go out in order.   *)
(* The connection may end at any time.  RequestServer implements this      *)
(* module.                                                                 *)
(***************************************************************************)
EXTENDS Naturals, Sequences

CONSTANTS
  Clients,
  Stream(_),     \* the handler calls the stream of a client should lead to
  Replies(_)     \* the units that answer a sequence of handler calls

VARIABLES
  link,          \* "none", "open" or "closed"
  handled,       \* the handler calls so far
  replied        \* the units written so far

svcVars == <<link, handled, replied>>

Init ==
  /\ link = [c \in Clients |-> "none"]
  /\ handled = [c \in Clients |-> <<>>]
  /\ replied = [c \in Clients |-> <<>>]

Connect(c) ==
  /\ link[c] = "none" /\ link' = [link EXCEPT ![c] = "open"]
  /\ UNCHANGED <<handled, replied>>

\* The next request, when everything before it is answered.
Handle(c) ==
  LET n == Len(handled[c]) IN
  /\ link[c] = "open" /\ replied[c] = Replies(handled[c])
  /\ n < Len(Stream(c))
  /\ handled' = [handled EXCEPT ![c] = Append(@, Stream(c)[n + 1])]
  /\ UNCHANGED <<link, replied>>

\* Some more units of the response.
Reply(c) ==
  LET all == Replies(handled[c]) IN
  /\ link[c] = "open"
  /\ \E n \in Len(replied[c]) + 1..Len(all) :
       /\ SubSeq(all, 1, Len(replied[c])) = replied[c]
       /\ replied' = [replied EXCEPT ![c] = SubSeq(all, 1, n)]
  /\ UNCHANGED <<link, handled>>

Disconnect(c) ==
  /\ link[c] = "open" /\ link' = [link EXCEPT ![c] = "closed"]
  /\ UNCHANGED <<handled, replied>>

Next == \E c \in Clients : Connect(c) \/ Handle(c) \/ Reply(c) \/ Disconnect(c)

Spec == Init /\ [][Next]_svcVars
==============================================================================
