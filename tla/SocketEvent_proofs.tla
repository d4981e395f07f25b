------------------------- MODULE SocketEvent_proofs --------------------------
(* What the listener's operators return, for every listener. *)
EXTENDS SocketEvent, SequenceTheorems, WellFoundedInduction, TLAPS

\* A nonempty set of natural numbers has a least element, so the first match
\* that std::find_if returns is well defined.
LEMMA MinExists ==
  ASSUME NEW I \in SUBSET Nat, I # {}
  PROVE  Min(I) \in I /\ \A j \in I : Min(I) =< j
<1> DEFINE R == {ss \in Nat \X Nat : ss[1] < ss[2]}
<1>1. IsWellFoundedOn(R, Nat)
  BY NatLessThanWellFounded, Zenon DEF OpToRel
<1>a. \A x, y \in Nat : <<y, x>> \in R <=> y < x
  OBVIOUS
<1> HIDE DEF R
<1>2. \E x \in I : \A y \in I : ~(<<y, x>> \in R)
  BY <1>1, WFMin
<1>3. \E x \in I : \A y \in I : x =< y
  <2>1. PICK x \in I : \A y \in I : ~(<<y, x>> \in R)
    BY <1>2
  <2>2. ASSUME NEW y \in I PROVE x =< y
    <3>1. x \in Nat /\ y \in Nat
      OBVIOUS
    <3>2. ~(y < x)
      BY <2>1, <1>a, <3>1, Zenon
    <3> QED BY <3>1, <3>2
  <2> QED BY <2>2
<1> QED BY <1>3, Zenon DEF Min

\* Erasing one element of a vector moves the later ones down by one.
LEMMA RemoveAtProperties ==
  ASSUME NEW S, NEW s \in Seq(S), NEW i \in 1..Len(s)
  PROVE  /\ RemoveAt(s, i) \in Seq(S)
         /\ Len(RemoveAt(s, i)) = Len(s) - 1
         /\ \A j \in 1..(Len(s) - 1) : RemoveAt(s, i)[j] = IF j < i THEN s[j] ELSE s[j + 1]
<1> DEFINE a == SubSeq(s, 1, i - 1)
           b == SubSeq(s, i + 1, Len(s))
<1>1. a \in Seq(S) /\ Len(a) = i - 1 /\ \A j \in 1..(i - 1) : a[j] = s[j]
  OBVIOUS
<1>2. b \in Seq(S) /\ Len(b) = Len(s) - i /\ \A j \in 1..(Len(s) - i) : b[j] = s[i + j]
  OBVIOUS
<1>3. RemoveAt(s, i) = a \o b
  BY DEF RemoveAt
<1> HIDE DEF a, b
<1>4. a \o b \in Seq(S) /\ Len(a \o b) = Len(s) - 1
  <2>1. a \o b \in Seq(S) /\ Len(a \o b) = Len(a) + Len(b)
    BY <1>1, <1>2, ConcatProperties, Zenon
  <2>2. Len(s) \in Nat
    OBVIOUS
  <2> QED BY <1>1, <1>2, <2>1, <2>2
<1>5. ASSUME NEW j \in 1..(Len(s) - 1)
      PROVE  (a \o b)[j] = IF j < i THEN s[j] ELSE s[j + 1]
  BY <1>1, <1>2
<1> QED BY <1>3, <1>4, <1>5

\* Every element that is left after an erase was there before.
LEMMA RemoveAtKeeps ==
  ASSUME NEW S, NEW s \in Seq(S), NEW i \in 1..Len(s)
  PROVE  /\ RemoveAt(s, i) \in Seq(S)
         /\ \A j \in 1..Len(RemoveAt(s, i)) : \E k \in 1..Len(s) : RemoveAt(s, i)[j] = s[k]
<1> DEFINE r == RemoveAt(s, i)
<1>1. r \in Seq(S) /\ Len(r) = Len(s) - 1
  BY RemoveAtProperties, Zenon
<1>2. \A j \in 1..(Len(s) - 1) : r[j] = IF j < i THEN s[j] ELSE s[j + 1]
  BY RemoveAtProperties, Zenon
<1> HIDE DEF r
<1>3. ASSUME NEW j \in 1..Len(r) PROVE \E k \in 1..Len(s) : r[j] = s[k]
  <2>1. j \in 1..(Len(s) - 1) /\ j \in 1..Len(s) /\ j + 1 \in 1..Len(s)
    BY <1>1
  <2> QED BY <1>2, <2>1
<1> QED BY <1>1, <1>3 DEF r

\* The first match found by SelectInSeq is an index of the sequence.
LEMMA FirstIndex ==
  ASSUME NEW S, NEW s \in Seq(S), NEW I,
         I \subseteq 1..Len(s), I # {}
  PROVE  Min(I) \in 1..Len(s) /\ Min(I) \in I /\ \A j \in I : Min(I) =< j
<1>1. I \in SUBSET Nat
  OBVIOUS
<1> QED BY <1>1, MinExists

\* Erasing the first occurrence of e: the rest stays, in order, and if e
\* occurred once it is gone.
LEMMA RemoveFirstProperties ==
  ASSUME NEW S, NEW s \in Seq(S), NEW e
  PROVE  /\ RemoveFirst(s, e) \in Seq(S)
         /\ \A j \in 1..Len(RemoveFirst(s, e)) :
              \E k \in 1..Len(s) : RemoveFirst(s, e)[j] = s[k]
<1>1. CASE \E i \in 1..Len(s) : s[i] = e
  <2> DEFINE I == {i \in 1..Len(s) : s[i] = e}
             m == Min(I)
  <2>1. m \in 1..Len(s)
    BY <1>1, FirstIndex, Zenon
  <2>2. RemoveFirst(s, e) = RemoveAt(s, m)
    BY <1>1 DEF RemoveFirst, SelectInSeq
  <2> HIDE DEF m
  <2>3. /\ RemoveAt(s, m) \in Seq(S)
        /\ \A j \in 1..Len(RemoveAt(s, m)) : \E k \in 1..Len(s) : RemoveAt(s, m)[j] = s[k]
    BY <2>1, RemoveAtKeeps
  <2> QED BY <2>2, <2>3
<1>2. CASE ~ \E i \in 1..Len(s) : s[i] = e
  BY <1>2 DEF RemoveFirst
<1> QED BY <1>1, <1>2

\* The same for erasing the first pollfd with a given descriptor.
LEMMA EraseFdProperties ==
  ASSUME NEW S, NEW s \in Seq(S), NEW f
  PROVE  /\ EraseFd(s, f) \in Seq(S)
         /\ \A j \in 1..Len(EraseFd(s, f)) : \E k \in 1..Len(s) : EraseFd(s, f)[j] = s[k]
<1>1. CASE \E i \in 1..Len(s) : s[i].fd = f
  <2> DEFINE I == {i \in 1..Len(s) : s[i].fd = f}
             m == Min(I)
  <2>1. m \in 1..Len(s)
    BY <1>1, FirstIndex, Zenon
  <2>2. EraseFd(s, f) = RemoveAt(s, m)
    BY <1>1, Zenon DEF EraseFd, RemoveFirstMatch, SelectInSeq
  <2> HIDE DEF m
  <2>3. /\ RemoveAt(s, m) \in Seq(S)
        /\ \A j \in 1..Len(RemoveAt(s, m)) : \E k \in 1..Len(s) : RemoveAt(s, m)[j] = s[k]
    BY <2>1, RemoveAtKeeps
  <2> QED BY <2>2, <2>3
<1>2. CASE ~ \E i \in 1..Len(s) : s[i].fd = f
  <2>1. EraseFd(s, f) = s
    BY <1>2, Zenon DEF EraseFd, RemoveFirstMatch
  <2> QED BY <2>1
<1> QED BY <1>1, <1>2

\* The listener keeps its type.
LEMMA RemoveEventType ==
  ASSUME NEW H, NEW C, NEW F, NEW l \in [handle : Seq(H), contexts : Seq(C), serverSocket : F],
         NEW c, NEW f
  PROVE  RemoveEvent(l, c, f) \in [handle : Seq(H), contexts : Seq(C), serverSocket : F]
<1>1. l.handle \in Seq(H) /\ l.contexts \in Seq(C)
  OBVIOUS
<1>2. EraseFd(l.handle, f) \in Seq(H) /\ RemoveFirst(l.contexts, c) \in Seq(C)
  BY <1>1, EraseFdProperties, RemoveFirstProperties
<1> QED BY <1>2 DEF RemoveEvent

\* addEvent registers the events mask of the type it is given.
LEMMA AddEventType ==
  ASSUME NEW F, NEW C, NEW G,
         NEW l \in [handle : Seq([fd : F, events : Interests]), contexts : Seq(C), serverSocket : G],
         NEW c \in C, NEW f \in F, f \in G,
         NEW e \in {"ACCEPT", "READ", "WRITE", "READ_WRITE", "CONNECT"}
  PROVE  AddEvent(l, c, f, e)
           \in [handle : Seq([fd : F, events : Interests]), contexts : Seq(C), serverSocket : G]
<1>1. EventsOf(e) \in Interests
  BY DEF EventsOf, Interests
<1>2. [fd |-> f, events |-> EventsOf(e)] \in [fd : F, events : Interests]
  BY <1>1
<1> QED BY <1>2 DEF AddEvent

------------------------------------------------------------------------------
(* A listener whose vectors are in step *)

\* An element that occurs once is erased where it is.
LEMMA RemoveFirstAt ==
  ASSUME NEW S, NEW s \in Seq(S), NEW m \in 1..Len(s), \A j \in 1..Len(s) : s[j] = s[m] => j = m
  PROVE  RemoveFirst(s, s[m]) = RemoveAt(s, m)
<1> DEFINE I == {i \in 1..Len(s) : s[i] = s[m]}
<1>1. m \in I /\ \A j \in I : j = m
  OBVIOUS
<1>2. Min(I) \in I
  BY <1>1, FirstIndex
<1>3. Min(I) = m
  BY <1>1, <1>2, Zenon
<1>4. \E i \in 1..Len(s) : s[i] = s[m]
  OBVIOUS
<1>5. RemoveFirst(s, s[m]) = RemoveAt(s, Min(I))
  BY <1>4 DEF RemoveFirst, SelectInSeq
<1> QED BY <1>3, <1>5

\* So is a pollfd whose descriptor is registered once.
LEMMA EraseFdAt ==
  ASSUME NEW S, NEW s \in Seq(S), NEW m \in 1..Len(s),
         \A j \in 1..Len(s) : s[j].fd = s[m].fd => j = m
  PROVE  EraseFd(s, s[m].fd) = RemoveAt(s, m)
<1> DEFINE I == {i \in 1..Len(s) : s[i].fd = s[m].fd}
<1>1. m \in I /\ \A j \in I : j = m
  OBVIOUS
<1>2. Min(I) \in I
  BY <1>1, FirstIndex
<1>3. Min(I) = m
  BY <1>1, <1>2, Zenon
<1>4. \E i \in 1..Len(s) : s[i].fd = s[m].fd
  OBVIOUS
<1>5. EraseFd(s, s[m].fd) = RemoveAt(s, Min(I))
  BY <1>4, Zenon DEF EraseFd, RemoveFirstMatch, SelectInSeq
<1> QED BY <1>3, <1>5

\* Entry m is erased from the two vectors s and t: both lose that entry and no
\* other, and they stay in step.
ErasedInStep(s, t, m) ==
  /\ Len(RemoveAt(s, m)) = Len(RemoveAt(t, m))
  /\ \A j \in 1..Len(RemoveAt(s, m)) : \E k \in 1..Len(s) :
       k # m /\ RemoveAt(s, m)[j] = s[k] /\ RemoveAt(t, m)[j] = t[k]
  /\ \A k \in 1..Len(s) : k # m => \E j \in 1..Len(RemoveAt(s, m)) : RemoveAt(s, m)[j] = s[k]
  /\ (\A j, k \in 1..Len(s) : s[j] = s[k] => j = k) =>
       \A j, k \in 1..Len(RemoveAt(s, m)) : RemoveAt(s, m)[j] = RemoveAt(s, m)[k] => j = k

\* Erasing the same entry of two vectors in step.
LEMMA EraseInStep ==
  ASSUME NEW S, NEW s \in Seq(S), NEW T, NEW t \in Seq(T), Len(s) = Len(t), NEW m \in 1..Len(s)
  PROVE  ErasedInStep(s, t, m)
<1> DEFINE a == RemoveAt(s, m)
           b == RemoveAt(t, m)
<1>1. /\ a \in Seq(S) /\ Len(a) = Len(s) - 1
      /\ \A j \in 1..(Len(s) - 1) : a[j] = IF j < m THEN s[j] ELSE s[j + 1]
  BY RemoveAtProperties, Zenon
<1>2. m \in 1..Len(t)
  OBVIOUS
<1>3. /\ b \in Seq(T) /\ Len(b) = Len(t) - 1
      /\ \A j \in 1..(Len(t) - 1) : b[j] = IF j < m THEN t[j] ELSE t[j + 1]
  BY <1>2, RemoveAtProperties, Zenon
<1> HIDE DEF a, b
<1>4. Len(s) \in Nat /\ Len(a) = Len(b) /\ m \in Nat
  BY <1>1, <1>3
<1>5. ASSUME NEW j \in 1..Len(a)
      PROVE  \E k \in 1..Len(s) : k # m /\ a[j] = s[k] /\ b[j] = t[k]
  <2>1. CASE j < m
    BY <1>1, <1>3, <1>4, <2>1
  <2>2. CASE ~(j < m)
    <3>1. j + 1 \in 1..Len(s) /\ j + 1 # m
      BY <1>1, <1>4, <2>2
    <3>2. a[j] = s[j + 1] /\ b[j] = t[j + 1]
      BY <1>1, <1>3, <1>4, <2>2
    <3> QED BY <3>1, <3>2
  <2> QED BY <2>1, <2>2
<1>6. ASSUME NEW k \in 1..Len(s), k # m
      PROVE  \E j \in 1..Len(a) : a[j] = s[k]
  <2>1. CASE k < m
    BY <1>1, <1>4, <2>1
  <2>2. CASE k > m
    <3>1. k - 1 \in 1..Len(a) /\ ~(k - 1 < m) /\ (k - 1) + 1 = k
      BY <1>1, <1>4, <2>2
    <3>2. a[k - 1] = s[(k - 1) + 1]
      BY <1>1, <3>1
    <3> QED BY <3>1, <3>2
  <2> QED BY <1>4, <1>6, <2>1, <2>2
<1>7. ASSUME \A j, k \in 1..Len(s) : s[j] = s[k] => j = k,
             NEW j \in 1..Len(a), NEW k \in 1..Len(a), a[j] = a[k]
      PROVE  j = k
  <2>1. /\ j \in 1..Len(s) /\ k \in 1..Len(s) /\ j + 1 \in 1..Len(s) /\ k + 1 \in 1..Len(s)
        /\ a[j] = IF j < m THEN s[j] ELSE s[j + 1]
        /\ a[k] = IF k < m THEN s[k] ELSE s[k + 1]
    BY <1>1, <1>4
  <2>2. CASE j < m /\ k < m BY <1>7, <2>1, <2>2
  <2>3. CASE ~(j < m) /\ ~(k < m)
    <3>1. j + 1 = k + 1
      BY <1>7, <2>1, <2>3
    <3> QED BY <3>1
  <2>4. CASE j < m /\ ~(k < m)
    <3>1. j = k + 1
      BY <1>7, <2>1, <2>4
    <3> QED BY <1>4, <2>4, <3>1
  <2>5. CASE ~(j < m) /\ k < m
    <3>1. j + 1 = k
      BY <1>7, <2>1, <2>5
    <3> QED BY <1>4, <2>5, <3>1
  <2> QED BY <2>2, <2>3, <2>4, <2>5
<1>8. (\A j, k \in 1..Len(s) : s[j] = s[k] => j = k) =>
        \A j, k \in 1..Len(a) : a[j] = a[k] => j = k
  BY <1>7, Zenon
<1> QED BY <1>1, <1>3, <1>4, <1>5, <1>6, <1>8, Zenon DEF a, b, ErasedInStep

\* The context of a descriptor that exactly one of the contexts has.
LEMMA FindContextAt ==
  ASSUME NEW S, NEW s \in Seq(S), NEW m \in 1..Len(s), NEW fdOf, NEW nil,
         \A j \in 1..Len(s) : fdOf[s[j]] = fdOf[s[m]] => j = m, m # 0
  PROVE  FindContext(s, fdOf, fdOf[s[m]], nil) = s[m]
<1> DEFINE I == {i \in 1..Len(s) : fdOf[s[i]] = fdOf[s[m]]}
<1>1. m \in I /\ \A j \in I : j = m
  OBVIOUS
<1>2. Min(I) \in I
  BY <1>1, FirstIndex
<1>3. Min(I) = m /\ I # {}
  BY <1>1, <1>2, Zenon
<1>4. SelectInSeq(s, LAMBDA c : fdOf[c] = fdOf[s[m]]) = m
  BY <1>3, Zenon DEF SelectInSeq
<1> QED BY <1>4, Zenon DEF FindContext

------------------------------------------------------------------------------
(* A listener whose vectors may be out of step *)

\* Erasing e from a vector without duplicates: e is gone, the rest stays.
ErasedOnce(r, s, e) ==
  /\ \A j \in 1..Len(r) : \E k \in 1..Len(s) : r[j] = s[k] /\ s[k] # e
  /\ \A k \in 1..Len(s) : s[k] # e => \E j \in 1..Len(r) : r[j] = s[k]
  /\ \A j, k \in 1..Len(r) : r[j] = r[k] => j = k

\* What removeEvent does to the contexts.
LEMMA RemoveFirstOnce ==
  ASSUME NEW S, NEW s \in Seq(S), NEW e, \A j, k \in 1..Len(s) : s[j] = s[k] => j = k
  PROVE  ErasedOnce(RemoveFirst(s, e), s, e)
<1>1. CASE \E i \in 1..Len(s) : s[i] = e
  <2>1. PICK m \in 1..Len(s) : s[m] = e
    BY <1>1
  <2>2. PICK r : r = RemoveAt(s, m)
    OBVIOUS
  <2>3. RemoveFirst(s, e) = r
    <3>1. \A j \in 1..Len(s) : s[j] = s[m] => j = m
      OBVIOUS
    <3>2. RemoveFirst(s, s[m]) = RemoveAt(s, m)
      BY <3>1, RemoveFirstAt
    <3> QED BY <2>1, <2>2, <3>2
  <2>4. ErasedInStep(s, s, m)
    BY EraseInStep
  <2>5. /\ \A j \in 1..Len(r) : \E k \in 1..Len(s) : k # m /\ r[j] = s[k]
        /\ \A k \in 1..Len(s) : k # m => \E j \in 1..Len(r) : r[j] = s[k]
        /\ \A j, k \in 1..Len(r) : r[j] = r[k] => j = k
    BY <2>2, <2>4, Zenon DEF ErasedInStep
  <2>6. \A k \in 1..Len(s) : k # m <=> s[k] # e
    BY <2>1
  <2>7. ErasedOnce(r, s, e)
    BY <2>5, <2>6, Zenon DEF ErasedOnce
  <2> QED BY <2>3, <2>7
<1>2. CASE ~ \E i \in 1..Len(s) : s[i] = e
  <2>1. RemoveFirst(s, e) = s
    BY <1>2 DEF RemoveFirst
  <2>2. ErasedOnce(s, s, e)
    BY <1>2, Zenon DEF ErasedOnce
  <2> QED BY <2>1, <2>2
<1> QED BY <1>1, <1>2

\* Erasing the pollfd of descriptor f where no descriptor is registered twice.
ErasedFd(r, s, f) ==
  /\ \A j \in 1..Len(r) : \E k \in 1..Len(s) : r[j] = s[k] /\ s[k].fd # f
  /\ \A k \in 1..Len(s) : s[k].fd # f => \E j \in 1..Len(r) : r[j] = s[k]
  /\ \A j, k \in 1..Len(r) : r[j].fd = r[k].fd => j = k

\* What removeEvent does to the pollfds.
LEMMA EraseFdOnce ==
  ASSUME NEW S, NEW s \in Seq(S), NEW f, \A j, k \in 1..Len(s) : s[j].fd = s[k].fd => j = k
  PROVE  ErasedFd(EraseFd(s, f), s, f)
<1>1. CASE \E i \in 1..Len(s) : s[i].fd = f
  <2>1. PICK m \in 1..Len(s) : s[m].fd = f
    BY <1>1
  <2>2. PICK r : r = RemoveAt(s, m)
    OBVIOUS
  <2>3. EraseFd(s, f) = r
    <3>1. \A j \in 1..Len(s) : s[j].fd = s[m].fd => j = m
      OBVIOUS
    <3>2. EraseFd(s, s[m].fd) = RemoveAt(s, m)
      BY <3>1, EraseFdAt
    <3> QED BY <2>1, <2>2, <3>2
  <2>4. ErasedInStep(s, s, m)
    BY EraseInStep
  <2>5. \A j, k \in 1..Len(s) : s[j] = s[k] => j = k
    OBVIOUS
  <2>6. /\ \A j \in 1..Len(r) : \E k \in 1..Len(s) : k # m /\ r[j] = s[k]
        /\ \A k \in 1..Len(s) : k # m => \E j \in 1..Len(r) : r[j] = s[k]
        /\ \A j, k \in 1..Len(r) : r[j] = r[k] => j = k
    BY <2>2, <2>4, <2>5, Zenon DEF ErasedInStep
  <2>7. \A k \in 1..Len(s) : k # m <=> s[k].fd # f
    BY <2>1
  <2>8. \A j, k \in 1..Len(r) : r[j].fd = r[k].fd => r[j] = r[k]
    BY <2>6
  <2>9. /\ \A j \in 1..Len(r) : \E k \in 1..Len(s) : r[j] = s[k] /\ s[k].fd # f
        /\ \A k \in 1..Len(s) : s[k].fd # f => \E j \in 1..Len(r) : r[j] = s[k]
    BY <2>6, <2>7
  <2>10. \A j, k \in 1..Len(r) : r[j].fd = r[k].fd => j = k
    BY <2>6, <2>8
  <2>11. ErasedFd(r, s, f)
    BY <2>9, <2>10, Zenon DEF ErasedFd
  <2> QED BY <2>3, <2>11
<1>2. CASE ~ \E i \in 1..Len(s) : s[i].fd = f
  <2>1. EraseFd(s, f) = s
    BY <1>2, Zenon DEF EraseFd, RemoveFirstMatch
  <2>2. ErasedFd(s, s, f)
    BY <1>2 DEF ErasedFd
  <2> QED BY <2>1, <2>2
<1> QED BY <1>1, <1>2

\* wait() finds a context for a descriptor that some context of its copy has.
LEMMA FindContextFound ==
  ASSUME NEW S, NEW s \in Seq(S), NEW fdOf, NEW f, NEW nil, \E j \in 1..Len(s) : fdOf[s[j]] = f
  PROVE  \E j \in 1..Len(s) : FindContext(s, fdOf, f, nil) = s[j] /\ fdOf[s[j]] = f
<1> DEFINE I == {i \in 1..Len(s) : fdOf[s[i]] = f}
<1>1. I # {} /\ I \subseteq 1..Len(s)
  OBVIOUS
<1>2. PICK m : m = Min(I)
  OBVIOUS
<1>3. m \in I
  BY <1>1, <1>2, FirstIndex
<1>4. m \in 1..Len(s) /\ fdOf[s[m]] = f
  BY <1>3
<1>5. m # 0
  BY <1>4
<1>6. SelectInSeq(s, LAMBDA c : fdOf[c] = f) = m
  <2>1. I = {} => FALSE
    BY <1>1
  <2> QED BY <1>2, <2>1, Zenon DEF SelectInSeq
<1>7. FindContext(s, fdOf, f, nil) = s[m]
  BY <1>5, <1>6, Zenon DEF FindContext
<1> QED BY <1>4, <1>7
==============================================================================
