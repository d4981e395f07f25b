----------------------------- MODULE SocketEvent -----------------------------
(***************************************************************************)
(* SocketMultiEventListener (SocketEvent.hpp, SocketEvent_Linux.cpp): the  *)
(* vector of pollfds (_handle), the vector of context pointers             *)
(* (_contexts), and the descriptor registered for ACCEPT (_server_socket). *)
(*                                                                         *)
(* A listener is the record [handle, contexts, serverSocket].  The two     *)
(* vectors are kept in step only by convention: a pollfd is found by its   *)
(* DESCRIPTOR, a context by its ADDRESS, and nothing ties entry i of one   *)
(* to entry i of the other.  Each operator below is one critical section   *)
(* of the listener's own mutex (_mtx).                                     *)
(***************************************************************************)
EXTENDS Naturals, Sequences, SequencesExt

\* The pollfd "events" masks that addEvent builds from a SocketEventType.
Interests == {"READ", "WRITE", "READ_WRITE"}

\* ACCEPT asks for POLLIN, as READ does; CONNECT asks for both directions.
EventsOf(eventType) ==
  CASE eventType \in {"ACCEPT", "READ"}        -> "READ"
    [] eventType = "WRITE"                     -> "WRITE"
    [] eventType \in {"CONNECT", "READ_WRITE"} -> "READ_WRITE"

\* A listener as constructed: both vectors empty, _server_socket{0}.
NewListener(noFd) == [handle |-> <<>>, contexts |-> <<>>, serverSocket |-> noFd]

\* Mutant: the event type is stored where poll() expects a mask.
AddEventRawType(l, context, fd, eventType) ==
  [handle       |-> Append(l.handle, [fd |-> fd, events |-> eventType]),
   contexts     |-> Append(l.contexts, context),
   serverSocket |-> IF eventType = "ACCEPT" THEN fd ELSE l.serverSocket]

\* addEvent(context, eventType): context->fd is fd.  Nothing looks for an
\* entry that is already there.
AddEvent(l, context, fd, eventType) ==
  [handle       |-> Append(l.handle, [fd |-> fd, events |-> EventsOf(eventType)]),
   contexts     |-> Append(l.contexts, context),
   serverSocket |-> IF eventType = "ACCEPT" THEN fd ELSE l.serverSocket]

\* The vector of pollfds without its first entry for fd.
EraseFd(handle, fd) == RemoveFirstMatch(handle, LAMBDA h : h.fd = fd)

\* removeEvent(context): erases the FIRST pollfd whose descriptor equals
\* context->fd, whoever registered it, and the first equal context pointer.
RemoveEvent(l, context, fd) ==
  [l EXCEPT !.handle   = EraseFd(@, fd),
            !.contexts = RemoveFirst(@, context)]

\* Mutants: the old registration stays; the new one is forgotten.
ModifyEventKeepsOld(l, context, fd, eventType) == AddEvent(l, context, fd, eventType)
ModifyEventDrops(l, context, fd, eventType) == RemoveEvent(l, context, fd)

\* modifyEvent(context, eventType): remove, then add at the end.
ModifyEvent(l, context, fd, eventType) ==
  AddEvent(RemoveEvent(l, context, fd), context, fd, eventType)

\* The context wait() finds for a ready descriptor: the first one in its
\* snapshot with that fd (fdOf[c] is c->fd), or nil when there is none.
FindContext(contexts, fdOf, fd, nil) ==
  LET i == SelectInSeq(contexts, LAMBDA c : fdOf[c] = fd)
  IN  IF i = 0 THEN nil ELSE contexts[i]

\* Mutant: readiness wins over the error bits.
EventTypeReadFirst(revents, fd, serverSocket) ==
  CASE revents = {}                              -> "NONE"
    [] "IN" \in revents /\ fd = serverSocket     -> "ACCEPT"
    [] "IN" \in revents /\ fd # serverSocket     -> "READ"
    [] "IN" \notin revents /\ "OUT" \in revents  -> "WRITE"
    [] OTHER                                     -> "DISCONNECTED"

\* The SocketEventType stored in the context for one pollfd's revents, a
\* subset of {"IN", "OUT", "ERR", "HUP", "NVAL"}; "NONE" when revents is 0.
\* Error bits win over readiness, ACCEPT over READ, READ over WRITE.
EventType(revents, fd, serverSocket) ==
  IF revents = {} THEN "NONE"
  ELSE IF revents \cap {"ERR", "HUP", "NVAL"} # {} THEN "DISCONNECTED"
  ELSE IF "IN" \in revents /\ fd = serverSocket THEN "ACCEPT"
  ELSE IF "IN" \in revents THEN "READ"
  ELSE "WRITE"

\* The event list wait() builds after poll() has filled in revents: one entry
\* per pollfd of the snapshot, in its order.  A pollfd with revents 0 is skipped
\* by the code; here it leaves an entry of type "NONE", which the dispatch loops
\* skip.
Events(handle, contexts, fdOf, revents, serverSocket, nil) ==
  [i \in 1..Len(handle) |->
     LET type == EventType(revents[i], handle[i].fd, serverSocket)
     IN  [type |-> type,
          ctx  |-> IF type = "NONE" THEN nil
                   ELSE FindContext(contexts, fdOf, handle[i].fd, nil)]]
==============================================================================
