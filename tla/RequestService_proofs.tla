------------------------- MODULE RequestService_proofs -------------------------
(***************************************************************************)
(* RequestServer implements RequestService, for every set of peers, every  *)
(* pool, every sequence of requests and every size: however a stream is    *)
(* cut into pieces, the handler gets its requests whole, once and in       *)
(* order, and every response is written completely and in order.           *)
(***************************************************************************)
EXTENDS RequestServer_proofs

------------------------------------------------------------------------------
(* Sequences *)

\* Induction over the natural numbers, for a set.
LEMMA SetInduction ==
  ASSUME NEW I \in SUBSET Nat, 0 \in I, \A n \in I : n + 1 \in I
  PROVE  \A n \in Nat : n \in I
  <1> DEFINE J == Nat \ I
  <1>1. SUFFICES ASSUME J # {} PROVE FALSE
    OBVIOUS
  <1>2. Min(J) \in J /\ \A j \in J : Min(J) =< j
    BY <1>1, MinExists
  <1>3. PICK m \in J : \A j \in J : m =< j
    BY <1>2, Zenon
  <1>4. m - 1 \in Nat /\ m - 1 \notin J
    BY <1>3
  <1>5. m - 1 \in I
    BY <1>4
  <1> QED BY <1>3, <1>5

\* The function FlattenSeq is defined with exists: its value is the last one.
LEMMA FlattenFunction ==
  ASSUME NEW ss, Len(ss) \in Nat, Len(ss) # 0
  PROVE  \E f : /\ \A i \in 1..Len(ss) : f[i] = IF i = 1 THEN ss[i] ELSE f[i - 1] \o ss[i]
                /\ FlattenSeq(ss) = f[Len(ss)]
  <1> DEFINE Rec(f, n) == f = [i \in 1..n |-> IF i = 1 THEN ss[i] ELSE f[i - 1] \o ss[i]]
             I == {n \in Nat : \E f : Rec(f, n)}
  <1>1. 0 \in I
    <2>1. Rec([i \in 1..0 |-> ss[i]], 0)
      OBVIOUS
    <2> QED BY <2>1
  <1>2. ASSUME NEW n \in I PROVE n + 1 \in I
    <2>1. PICK f : Rec(f, n)
      BY <1>2
    <2> DEFINE g == [i \in 1..(n + 1) |-> IF i = 1 THEN ss[i] ELSE f[i - 1] \o ss[i]]
               h == [i \in 1..(n + 1) |-> IF i = 1 THEN ss[i] ELSE g[i - 1] \o ss[i]]
    <2>2. \A i \in 1..n : f[i] = IF i = 1 THEN ss[i] ELSE f[i - 1] \o ss[i]
      BY <2>1, Zenon
    <2>3. \A i \in 1..(n + 1) : g[i] = IF i = 1 THEN ss[i] ELSE f[i - 1] \o ss[i]
      BY Zenon
    <2>4. \A i \in 1..(n + 1) : i - 1 \in 1..n \/ i = 1
      OBVIOUS
    <2>5. \A i \in 1..n : i \in 1..(n + 1)
      OBVIOUS
    <2>6. \A i \in 1..n : g[i] = f[i]
      <3> HIDE DEF g
      <3> QED BY <2>2, <2>3, <2>5, Zenon
    <2>7. ASSUME NEW i \in 1..(n + 1)
          PROVE  (IF i = 1 THEN ss[i] ELSE g[i - 1] \o ss[i]) = IF i = 1 THEN ss[i] ELSE f[i - 1] \o ss[i]
      <3> HIDE DEF g
      <3> QED BY <2>4, <2>6, Zenon
    <2>8. h = g
      BY <2>7, Zenon
    <2>9. n + 1 \in Nat
      OBVIOUS
    <2>10. Rec(g, n + 1)
      BY <2>8, Zenon
    <2> QED
      <3> HIDE DEF Rec, g
      <3> QED BY <2>9, <2>10, Zenon
  <1>3. \A n \in Nat : n \in I
    <2>1. I \in SUBSET Nat
      OBVIOUS
    <2> HIDE DEF I
    <2> QED BY <1>1, <1>2, <2>1, SetInduction, Zenon
  <1>4. \E f : Rec(f, Len(ss))
    BY <1>3, Zenon
  <1>5. Rec(CHOOSE f : Rec(f, Len(ss)), Len(ss))
    BY <1>4, Zenon
  <1>6. FlattenSeq(ss) = (CHOOSE f : Rec(f, Len(ss)))[Len(ss)]
    BY Zenon DEF FlattenSeq
  <1>7. PICK f : Rec(f, Len(ss)) /\ FlattenSeq(ss) = f[Len(ss)]
    <2> HIDE DEF Rec
    <2> QED BY <1>5, <1>6, Zenon
  <1>8. \A i \in 1..Len(ss) : f[i] = IF i = 1 THEN ss[i] ELSE f[i - 1] \o ss[i]
    BY <1>7, Zenon
  <1> QED BY <1>7, <1>8, Zenon

\* Nothing to flatten.
LEMMA FlattenEmpty == FlattenSeq(<<>>) = <<>>
  BY DEF FlattenSeq

\* Flattening adds the last sequence at the end.
LEMMA FlattenAppend ==
  ASSUME NEW T, NEW ss \in Seq(Seq(T)), NEW s \in Seq(T)
  PROVE  /\ FlattenSeq(ss) \in Seq(T)
         /\ FlattenSeq(Append(ss, s)) = FlattenSeq(ss) \o s
  <1>1. PICK tt, n : tt = Append(ss, s) /\ n = Len(ss)
    OBVIOUS
  <1>2. /\ n \in Nat /\ Len(tt) = n + 1 /\ tt[n + 1] = s /\ n + 1 \in 1..(n + 1)
        /\ \A i \in 1..n : tt[i] = ss[i] /\ ss[i] \in Seq(T) /\ i \in 1..(n + 1)
    BY <1>1, LenProperties, AppendProperties, ElementOfSeq
  <1>3. PICK g : /\ \A i \in 1..(n + 1) : g[i] = IF i = 1 THEN tt[i] ELSE g[i - 1] \o tt[i]
                 /\ FlattenSeq(tt) = g[n + 1]
    <2>1. Len(tt) \in Nat /\ Len(tt) # 0
      BY <1>2
    <2>2. \E g : /\ \A i \in 1..Len(tt) : g[i] = IF i = 1 THEN tt[i] ELSE g[i - 1] \o tt[i]
                 /\ FlattenSeq(tt) = g[Len(tt)]
      BY <2>1, FlattenFunction, Zenon
    <2> QED BY <1>2, <2>2, Zenon
  <1>4. CASE n = 0
    <2>1. ss = <<>>
      BY <1>1, <1>4, EmptySeq
    <2>2. FlattenSeq(ss) = <<>>
      BY <2>1, FlattenEmpty
    <2>3. g[1] = s /\ n + 1 = 1
      BY <1>2, <1>3, <1>4
    <2>4. <<>> \in Seq(T) /\ <<>> \o s = s
      BY ConcatEmptySeq
    <2> QED BY <1>1, <1>3, <2>2, <2>3, <2>4
  <1>5. CASE n # 0
    <2>1. PICK f : /\ \A i \in 1..n : f[i] = IF i = 1 THEN ss[i] ELSE f[i - 1] \o ss[i]
                   /\ FlattenSeq(ss) = f[n]
      BY <1>1, <1>2, <1>5, FlattenFunction, Zenon
    <2> DEFINE I == {i \in Nat : i \in 1..n => f[i] = g[i] /\ f[i] \in Seq(T)}
    <2>2. 0 \in I
      OBVIOUS
    <2>3. ASSUME NEW i \in I PROVE i + 1 \in I
      <3>1. SUFFICES ASSUME i + 1 \in 1..n PROVE f[i + 1] = g[i + 1] /\ f[i + 1] \in Seq(T)
        OBVIOUS
      <3>2. CASE i = 0
        <4>1. i + 1 = 1
          BY <3>2
        <4>2. f[i + 1] = ss[i + 1] /\ g[i + 1] = tt[i + 1]
          BY <1>2, <1>3, <2>1, <3>1, <4>1, Zenon
        <4> QED BY <1>2, <3>1, <4>2, Zenon
      <3>3. CASE i # 0
        <4>1. i \in 1..n /\ i + 1 # 1 /\ (i + 1) - 1 = i
          BY <1>2, <3>1, <3>3
        <4>2. f[i] = g[i] /\ f[i] \in Seq(T)
          BY <4>1
        <4>3. f[i + 1] = f[(i + 1) - 1] \o ss[i + 1]
          BY <2>1, <3>1, <4>1, Zenon
        <4>4. g[i + 1] = g[(i + 1) - 1] \o tt[i + 1]
          BY <1>2, <1>3, <3>1, <4>1, Zenon
        <4>5. f[i] \o ss[i + 1] \in Seq(T)
          BY <1>2, <3>1, <4>2, ConcatProperties
        <4> QED BY <1>2, <3>1, <4>1, <4>2, <4>3, <4>4, <4>5, Zenon
      <3> QED BY <3>2, <3>3
    <2>4. n \in I
      <3>1. I \in SUBSET Nat
        OBVIOUS
      <3> HIDE DEF I
      <3> QED BY <1>2, <2>2, <2>3, <3>1, SetInduction, Zenon
    <2>5. f[n] = g[n] /\ f[n] \in Seq(T) /\ (n + 1) - 1 = n /\ n + 1 # 1
      BY <1>2, <1>5, <2>4
    <2>6. g[n + 1] = g[(n + 1) - 1] \o tt[n + 1]
      BY <1>2, <1>3, <2>5, Zenon
    <2> QED BY <1>1, <1>2, <1>3, <2>1, <2>5, <2>6, Zenon
  <1> QED BY <1>4, <1>5

\* A function on 1..n is a sequence, and one on 1..(n + 1) is an Append.
LEMMA FunctionIsSeq ==
  ASSUME NEW S, NEW n \in Nat, NEW f \in [1..n -> S]
  PROVE  f \in Seq(S) /\ Len(f) = n
  OBVIOUS

\* The same for one more element.
LEMMA FunctionIsAppend ==
  ASSUME NEW S, NEW n \in Nat, NEW f \in [1..n -> S], NEW g \in [1..(n + 1) -> S],
         \A i \in 1..n : g[i] = f[i]
  PROVE  g = Append(f, g[n + 1]) /\ g[n + 1] \in S
  <1>1. f \in Seq(S) /\ Len(f) = n /\ g \in Seq(S) /\ Len(g) = n + 1 /\ g[n + 1] \in S
    BY FunctionIsSeq
  <1> DEFINE h == Append(f, g[n + 1])
  <1>2. h \in Seq(S) /\ Len(h) = n + 1 /\ (\A i \in 1..n : h[i] = f[i]) /\ h[n + 1] = g[n + 1]
    BY <1>1, AppendProperties
  <1> HIDE DEF h
  <1>3. \A i \in 1..Len(g) : g[i] = h[i]
    BY <1>1, <1>2
  <1>4. g = h
    BY <1>1, <1>2, <1>3, SeqEqual
  <1> QED BY <1>1, <1>4 DEF h

\* A list of sequences in which each continues the one before.
Grows(S, N, F) ==
  /\ N \in Nat /\ F \in [0..N -> Seq(S)]
  /\ \A i \in 0..(N - 1) : \E x \in Seq(S) : F[i + 1] = F[i] \o x

\* Every one of them continues all before it.
Nested(S, N, F) == \A n \in 0..N : \A m \in n..N : \E w \in Seq(S) : F[m] = F[n] \o w

\* So it is, by induction on the distance.
LEMMA Growing ==
  ASSUME NEW S, NEW N, NEW F, Grows(S, N, F)
  PROVE  Nested(S, N, F)
  <1>0. /\ N \in Nat /\ F \in [0..N -> Seq(S)]
        /\ \A i \in 0..(N - 1) : \E x \in Seq(S) : F[i + 1] = F[i] \o x
    BY Zenon DEF Grows
  <1> SUFFICES ASSUME NEW n \in 0..N
               PROVE  \A m \in n..N : \E w \in Seq(S) : F[m] = F[n] \o w
    BY Zenon DEF Nested
  <1> DEFINE I == {d \in Nat : n + d \in 0..N => \E w \in Seq(S) : F[n + d] = F[n] \o w}
  <1>1. 0 \in I
    <2>1. F[n] \in Seq(S) /\ n + 0 = n
      BY <1>0
    <2>2. F[n] = F[n] \o <<>> /\ <<>> \in Seq(S)
      BY <2>1, ConcatEmptySeq, EmptySeq
    <2> QED BY <2>1, <2>2
  <1>2. ASSUME NEW d \in I PROVE d + 1 \in I
    <2>0. d \in Nat /\ d + 1 \in Nat
      OBVIOUS
    <2>1. SUFFICES ASSUME n + (d + 1) \in 0..N
                   PROVE  \E w \in Seq(S) : F[n + (d + 1)] = F[n] \o w
      BY <2>0, Zenon
    <2>2. n + d \in 0..(N - 1) /\ n + d \in 0..N /\ (n + d) + 1 = n + (d + 1)
      BY <1>0, <2>1
    <2>3. PICK w \in Seq(S) : F[n + d] = F[n] \o w
      BY <2>2
    <2>4. PICK x \in Seq(S) : F[(n + d) + 1] = F[n + d] \o x
      BY <1>0, <2>2
    <2>5. w \o x \in Seq(S) /\ (F[n] \o w) \o x = F[n] \o (w \o x)
      <3>1. PICK a \in Seq(S) : a = F[n]
        BY <1>0
      <3>2. w \o x \in Seq(S)
        BY ConcatProperties, Zenon
      <3>3. (a \o w) \o x = a \o (w \o x)
        BY ConcatAssociative
      <3> QED BY <3>1, <3>2, <3>3
    <2>6. F[n + (d + 1)] = F[n] \o (w \o x)
      BY <2>2, <2>3, <2>4, <2>5, Zenon
    <2> QED BY <2>5, <2>6, Zenon
  <1>3. \A d \in Nat : d \in I
    <2>1. I \in SUBSET Nat
      OBVIOUS
    <2> HIDE DEF I
    <2> QED BY <1>1, <1>2, <2>1, SetInduction, Zenon
  <1>4. ASSUME NEW m \in n..N PROVE \E w \in Seq(S) : F[m] = F[n] \o w
    <2>1. m - n \in Nat /\ n + (m - n) = m /\ m \in 0..N
      BY <1>0
    <2> QED BY <1>3, <2>1
  <1> QED BY <1>4

------------------------------------------------------------------------------
(* The stream of a peer *)

\* A call of the handler.
Done == [hdr : Seq(Units) \ {<<>>}, pay : Seq(Units)]

\* The units of one request, by their position in it.
LEMMA RequestUnits ==
  ASSUME NEW c \in Clients, NEW r \in 1..Len(Requests)
  PROVE  /\ ReqSize(r) \in Nat /\ HeaderSize <= ReqSize(r)
         /\ HeaderOf(c, r) \in Seq(Units) /\ Len(HeaderOf(c, r)) = HeaderSize
         /\ PayloadOf(c, r) \in Seq(Units) /\ Len(PayloadOf(c, r)) = Requests[r].payload
         /\ HeaderOf(c, r) \o PayloadOf(c, r) \in Seq(Units)
         /\ Len(HeaderOf(c, r) \o PayloadOf(c, r)) = ReqSize(r)
         /\ \A j \in 1..ReqSize(r) : (HeaderOf(c, r) \o PayloadOf(c, r))[j] = Unit(c, r, j)
         /\ HeaderOf(c, r)[1] = Unit(c, r, 1)
         /\ RequestOf(c, r) \in Done
  <1>1. HeaderSize \in Nat /\ HeaderSize > 0 /\ Requests[r].payload \in Nat
    BY Constants
  <1>2. \A k \in Nat : Unit(c, r, k) \in Units
    BY DEF Unit, Units
  <1> DEFINE h == HeaderOf(c, r)
             p == PayloadOf(c, r)
  <1>3. h \in [1..HeaderSize -> Units] /\ \A k \in 1..HeaderSize : h[k] = Unit(c, r, k)
    BY <1>1, <1>2 DEF HeaderOf
  <1>4. /\ p \in [1..Requests[r].payload -> Units]
        /\ \A k \in 1..Requests[r].payload : p[k] = Unit(c, r, HeaderSize + k)
    BY <1>1, <1>2 DEF PayloadOf
  <1> HIDE DEF h, p
  <1>5. h \in Seq(Units) /\ Len(h) = HeaderSize /\ p \in Seq(Units) /\ Len(p) = Requests[r].payload
    BY <1>1, <1>3, <1>4, FunctionIsSeq
  <1>6. /\ h \o p \in Seq(Units) /\ Len(h \o p) = HeaderSize + Requests[r].payload
        /\ \A j \in 1..(HeaderSize + Requests[r].payload) :
             (h \o p)[j] = IF j <= HeaderSize THEN h[j] ELSE p[j - HeaderSize]
    <2>1. /\ h \o p \in Seq(Units) /\ Len(h \o p) = Len(h) + Len(p)
          /\ \A j \in 1..(Len(h) + Len(p)) : (h \o p)[j] = IF j <= Len(h) THEN h[j] ELSE p[j - Len(h)]
      BY <1>5, ConcatProperties, Zenon
    <2> QED BY <1>5, <2>1, Zenon
  <1>7. ASSUME NEW j \in 1..(HeaderSize + Requests[r].payload)
        PROVE  (h \o p)[j] = Unit(c, r, j)
    <2>1. CASE j <= HeaderSize
      <3>1. j \in 1..HeaderSize
        BY <1>1, <2>1
      <3> QED BY <1>3, <1>6, <2>1, <3>1
    <2>2. CASE ~(j <= HeaderSize)
      <3>1. j - HeaderSize \in 1..Requests[r].payload /\ HeaderSize + (j - HeaderSize) = j
        BY <1>1, <2>2
      <3>2. p[j - HeaderSize] = Unit(c, r, j)
        BY <1>4, <3>1, Zenon
      <3> QED BY <1>6, <2>2, <3>2
    <2> QED BY <2>1, <2>2
  <1>8. h # <<>> /\ h[1] = Unit(c, r, 1)
    BY <1>1, <1>3, <1>5
  <1> QED BY <1>1, <1>5, <1>6, <1>7, <1>8 DEF ReqSize, RequestOf, Done, h, p

\* The stream grows by one request.
LEMMA StreamStep ==
  ASSUME NEW c \in Clients
  PROVE  /\ StreamOf(c, 0) = <<>>
         /\ \A n \in 0..Len(Requests) : StreamOf(c, n) \in Seq(Units)
         /\ \A n \in 0..(Len(Requests) - 1) :
              StreamOf(c, n + 1) = StreamOf(c, n) \o (HeaderOf(c, n + 1) \o PayloadOf(c, n + 1))
  <1> DEFINE G(n) == [r \in 1..n |-> HeaderOf(c, r) \o PayloadOf(c, r)]
  <1>1. \A n : StreamOf(c, n) = FlattenSeq(G(n))
    <2> SUFFICES ASSUME NEW n PROVE StreamOf(c, n) = FlattenSeq(G(n))
      OBVIOUS
    <2> DEFINE R == [r \in 1..n |-> RequestOf(c, r)]
    <2>1. [i \in DOMAIN R |-> R[i].hdr \o R[i].pay] = G(n)
      BY DEF RequestOf
    <2> HIDE DEF G
    <2> QED BY <2>1, Zenon DEF StreamOf, UnitsOf
  <1>2. Len(Requests) \in Nat
    BY Constants
  <1>3. ASSUME NEW n \in 0..Len(Requests) PROVE G(n) \in [1..n -> Seq(Units)]
    BY <1>2, RequestUnits
  <1>4. ASSUME NEW n \in 0..Len(Requests) PROVE StreamOf(c, n) \in Seq(Units)
    <2>1. G(n) \in Seq(Seq(Units)) /\ <<>> \in Seq(Units)
      BY <1>2, <1>3, FunctionIsSeq
    <2> HIDE DEF G
    <2> QED BY <1>1, <2>1, FlattenAppend
  <1>5. ASSUME NEW n \in 0..(Len(Requests) - 1)
        PROVE  StreamOf(c, n + 1) = StreamOf(c, n) \o (HeaderOf(c, n + 1) \o PayloadOf(c, n + 1))
    <2>1. n \in Nat /\ n \in 0..Len(Requests) /\ n + 1 \in 0..Len(Requests)
      BY <1>2
    <2>2. G(n) \in [1..n -> Seq(Units)] /\ G(n + 1) \in [1..(n + 1) -> Seq(Units)]
      BY <1>3, <2>1
    <2>3. \A i \in 1..n : G(n + 1)[i] = G(n)[i]
      BY <2>1
    <2>4. G(n + 1)[n + 1] = HeaderOf(c, n + 1) \o PayloadOf(c, n + 1)
      BY <2>1
    <2> HIDE DEF G
    <2>5. G(n + 1) = Append(G(n), G(n + 1)[n + 1]) /\ G(n + 1)[n + 1] \in Seq(Units)
      BY <2>1, <2>2, <2>3, FunctionIsAppend
    <2>6. G(n) \in Seq(Seq(Units))
      BY <2>1, <2>2, FunctionIsSeq
    <2>7. FlattenSeq(Append(G(n), G(n + 1)[n + 1])) = FlattenSeq(G(n)) \o G(n + 1)[n + 1]
      BY <2>5, <2>6, FlattenAppend
    <2> QED BY <1>1, <2>4, <2>5, <2>7
  <1>6. StreamOf(c, 0) = <<>>
    <2>1. G(0) = <<>>
      OBVIOUS
    <2> HIDE DEF G
    <2> QED BY <1>1, <2>1, FlattenEmpty
  <1> QED BY <1>4, <1>5, <1>6

\* A stream contains the streams of fewer requests at its front.
LEMMA StreamPrefix ==
  ASSUME NEW c \in Clients, NEW n \in 0..Len(Requests), NEW m \in n..Len(Requests)
  PROVE  \E w \in Seq(Units) : StreamOf(c, m) = StreamOf(c, n) \o w
  <1>1. PICK N \in Nat : N = Len(Requests)
    BY Constants
  <1>2. PICK F : F = [i \in 0..N |-> StreamOf(c, i)]
    OBVIOUS
  <1>3. F \in [0..N -> Seq(Units)] /\ \A i \in 0..N : F[i] = StreamOf(c, i)
    BY <1>1, <1>2, StreamStep
  <1>4. ASSUME NEW i \in 0..(N - 1) PROVE \E x \in Seq(Units) : F[i + 1] = F[i] \o x
    <2>1. i + 1 \in 1..Len(Requests) /\ i \in 0..N /\ i + 1 \in 0..N /\ i \in 0..(Len(Requests) - 1)
      BY <1>1
    <2>2. PICK x : x = HeaderOf(c, i + 1) \o PayloadOf(c, i + 1)
      OBVIOUS
    <2>3. x \in Seq(Units)
      BY <2>1, <2>2, RequestUnits
    <2>4. StreamOf(c, i + 1) = StreamOf(c, i) \o x
      BY <2>1, <2>2, StreamStep
    <2> QED BY <1>3, <2>1, <2>3, <2>4
  <1>5. Nested(Units, N, F)
    <2>1. Grows(Units, N, F)
      BY <1>3, <1>4, Zenon DEF Grows
    <2> QED BY <2>1, Growing
  <1>6. m \in 0..N /\ n \in 0..N /\ m \in n..N
    BY <1>1
  <1> QED BY <1>3, <1>5, <1>6, Zenon DEF Nested

\* The calls of the handler grow by one request, unless it is SLOW.
LEMMA CallsStep ==
  ASSUME NEW c \in Clients
  PROVE  /\ CallsOf(c, 0) = <<>>
         /\ \A n \in 0..Len(Requests) : CallsOf(c, n) \in Seq(Done)
         /\ \A n \in 0..(Len(Requests) - 1) :
              CallsOf(c, n + 1) = CallsOf(c, n) \o
                (IF Requests[n + 1].mode = "SLOW" THEN <<>> ELSE <<RequestOf(c, n + 1)>>)
  <1> DEFINE E(r) == IF Requests[r].mode = "SLOW" THEN <<>> ELSE <<RequestOf(c, r)>>
             G(n) == [r \in 1..n |-> E(r)]
  <1>1. \A n : CallsOf(c, n) = FlattenSeq(G(n))
    BY Zenon DEF CallsOf
  <1>2. Len(Requests) \in Nat
    BY Constants
  <1>3. ASSUME NEW r \in 1..Len(Requests) PROVE E(r) \in Seq(Done)
    <2>1. RequestOf(c, r) \in Done
      BY RequestUnits
    <2> HIDE DEF Done
    <2> QED BY <2>1
  <1>4. ASSUME NEW n \in 0..Len(Requests) PROVE G(n) \in [1..n -> Seq(Done)]
    <2>1. \A r \in 1..n : r \in 1..Len(Requests)
      BY <1>2
    <2> HIDE DEF E
    <2> QED BY <1>3, <2>1
  <1>5. ASSUME NEW n \in 0..Len(Requests) PROVE CallsOf(c, n) \in Seq(Done)
    <2>1. G(n) \in Seq(Seq(Done)) /\ <<>> \in Seq(Done)
      <3> HIDE DEF G, Done
      <3> QED BY <1>2, <1>4, FunctionIsSeq
    <2> HIDE DEF G, Done
    <2> QED BY <1>1, <2>1, FlattenAppend
  <1>6. ASSUME NEW n \in 0..(Len(Requests) - 1)
        PROVE  CallsOf(c, n + 1) = CallsOf(c, n) \o E(n + 1)
    <2>1. n \in Nat /\ n \in 0..Len(Requests) /\ n + 1 \in 0..Len(Requests)
      BY <1>2
    <2>2. G(n) \in [1..n -> Seq(Done)] /\ G(n + 1) \in [1..(n + 1) -> Seq(Done)]
      BY <1>4, <2>1
    <2> HIDE DEF E
    <2>3. \A i \in 1..n : G(n + 1)[i] = G(n)[i]
      BY <2>1
    <2>4. G(n + 1)[n + 1] = E(n + 1)
      BY <2>1
    <2> HIDE DEF G, Done
    <2>5. G(n + 1) = Append(G(n), G(n + 1)[n + 1]) /\ G(n + 1)[n + 1] \in Seq(Done)
      BY <2>1, <2>2, <2>3, FunctionIsAppend
    <2>6. G(n) \in Seq(Seq(Done))
      BY <2>1, <2>2, FunctionIsSeq
    <2>7. FlattenSeq(Append(G(n), G(n + 1)[n + 1])) = FlattenSeq(G(n)) \o G(n + 1)[n + 1]
      BY <2>5, <2>6, FlattenAppend
    <2> QED BY <1>1, <2>4, <2>5, <2>7
  <1>7. CallsOf(c, 0) = <<>>
    <2>1. G(0) = <<>>
      OBVIOUS
    <2> HIDE DEF G
    <2> QED BY <1>1, <2>1, FlattenEmpty
  <1> QED BY <1>5, <1>6, <1>7

\* All the calls of a stream contain those of its first requests at their front.
LEMMA CallsPrefix ==
  ASSUME NEW c \in Clients, NEW n \in 0..Len(Requests)
  PROVE  \E w \in Seq(Done) : Whole(c) = CallsOf(c, n) \o w
  <1>1. PICK N \in Nat : N = Len(Requests)
    BY Constants
  <1>2. PICK F : F = [i \in 0..N |-> CallsOf(c, i)]
    OBVIOUS
  <1>3. F \in [0..N -> Seq(Done)] /\ \A i \in 0..N : F[i] = CallsOf(c, i)
    BY <1>1, <1>2, CallsStep
  <1>4. ASSUME NEW i \in 0..(N - 1) PROVE \E x \in Seq(Done) : F[i + 1] = F[i] \o x
    <2>1. i + 1 \in 1..Len(Requests) /\ i \in 0..N /\ i + 1 \in 0..N /\ i \in 0..(Len(Requests) - 1)
      BY <1>1
    <2>2. PICK x : x = IF Requests[i + 1].mode = "SLOW" THEN <<>> ELSE <<RequestOf(c, i + 1)>>
      OBVIOUS
    <2>3. x \in Seq(Done)
      <3>1. RequestOf(c, i + 1) \in Done
        BY <2>1, RequestUnits
      <3> QED BY <2>2, <3>1
    <2>4. CallsOf(c, i + 1) = CallsOf(c, i) \o x
      BY <2>1, <2>2, CallsStep
    <2> QED BY <1>3, <2>1, <2>3, <2>4
  <1>5. n \in 0..N /\ N \in n..N /\ N \in 0..N
    BY <1>1
  <1>6. Nested(Done, N, F)
    <2>1. Grows(Done, N, F)
      BY <1>3, <1>4, Zenon DEF Grows
    <2> QED BY <2>1, Growing
  <1> QED BY <1>1, <1>3, <1>5, <1>6, Zenon DEF Whole, Nested

\* The units that answer one call of the handler.
Answer(call) ==
  IF Requests[call.hdr[1].req].mode = "WRITE_STREAM" THEN <<>> ELSE ReplyTo(call.hdr)

\* The answers grow by the answer to the last call.
LEMMA RepliesStep ==
  ASSUME NEW p \in Seq(Done), NEW x \in Done
  PROVE  /\ RepliesTo(<<>>) = <<>> /\ RepliesTo(p) \in Seq(Units) /\ Answer(x) \in Seq(Units)
         /\ RepliesTo(Append(p, x)) = RepliesTo(p) \o Answer(x)
  <1> DEFINE G(q) == [i \in DOMAIN q |-> Answer(q[i])]
  <1>1. \A q : RepliesTo(q) = FlattenSeq(G(q))
    BY Zenon DEF RepliesTo, Answer
  <1>2. ASSUME NEW y \in Done PROVE Answer(y) \in Seq(Units)
    <2>1. y.hdr \in Seq(Units) /\ y.hdr # <<>>
      BY DEF Done
    <2>2. ReplyTo(y.hdr) \in Seq(Units) /\ <<>> \in Seq(Units)
      BY <2>1, ReplyIsUnits, EmptySeq
    <2> QED BY <2>2 DEF Answer
  <1> HIDE DEF Done
  <1>3. PICK n, q : n = Len(p) /\ q = Append(p, x)
    OBVIOUS
  <1>4. /\ n \in Nat /\ DOMAIN p = 1..n /\ q \in Seq(Done) /\ DOMAIN q = 1..(n + 1) /\ q[n + 1] = x
        /\ \A i \in 1..n : q[i] = p[i] /\ p[i] \in Done
        /\ \A i \in 1..(n + 1) : q[i] \in Done
        /\ n + 1 \in 1..(n + 1) /\ \A i \in 1..n : i \in 1..(n + 1)
    BY <1>3
  <1>5. G(p) \in [1..n -> Seq(Units)] /\ G(q) \in [1..(n + 1) -> Seq(Units)]
    BY <1>2, <1>4
  <1>6. (\A i \in 1..n : G(q)[i] = G(p)[i]) /\ G(q)[n + 1] = Answer(x)
    BY <1>4
  <1>7. G(<<>>) = <<>>
    OBVIOUS
  <1> HIDE DEF G
  <1>8. G(q) = Append(G(p), Answer(x)) /\ G(p) \in Seq(Seq(Units))
    <2>1. G(q) = Append(G(p), G(q)[n + 1])
      BY <1>4, <1>5, <1>6, FunctionIsAppend
    <2> QED BY <1>4, <1>5, <1>6, <2>1, FunctionIsSeq
  <1>9. Answer(x) \in Seq(Units)
    BY <1>2
  <1>10. FlattenSeq(G(p)) \in Seq(Units) /\ FlattenSeq(G(q)) = FlattenSeq(G(p)) \o Answer(x)
    BY <1>8, <1>9, FlattenAppend, SMTT(30)
  <1> QED BY <1>1, <1>3, <1>7, <1>9, <1>10, FlattenEmpty

------------------------------------------------------------------------------
(* What a peer has sent *)

\* Where a peer may be in its stream, and what it has sent before.
Sending(p) ==
  \/ p.req \in 1..Len(Requests) /\ p.pos \in 1..ReqSize(p.req)
  \/ p.req = Len(Requests) + 1 /\ p.pos = 1
SentBy(c, p) ==
  StreamOf(c, p.req - 1) \o
    IF p.req > Len(Requests) THEN <<>>
    ELSE SubSeq(HeaderOf(c, p.req) \o PayloadOf(c, p.req), 1, p.pos - 1)

\* A sequence is its first p units and the rest.
LEMMA Cut ==
  ASSUME NEW S, NEW q \in Seq(S), NEW p \in 0..Len(q)
  PROVE  /\ SubSeq(q, 1, p) \in Seq(S) /\ SubSeq(q, p + 1, Len(q)) \in Seq(S)
         /\ Len(SubSeq(q, 1, p)) = p /\ Len(SubSeq(q, p + 1, Len(q))) = Len(q) - p
         /\ SubSeq(q, 1, p) \o SubSeq(q, p + 1, Len(q)) = q
  <1>1. /\ Len(q) \in Nat /\ p \in Nat /\ p <= Len(q)
        /\ 1 \in 1..(Len(q) + 1) /\ p \in (1 - 1)..Len(q) /\ Len(q) \in p..Len(q)
    OBVIOUS
  <1>2. SubSeq(q, 1, p) \in Seq(S) /\ Len(SubSeq(q, 1, p)) = p
    BY <1>1
  <1>3. SubSeq(q, p + 1, Len(q)) \in Seq(S) /\ Len(SubSeq(q, p + 1, Len(q))) = Len(q) - p
    BY <1>1
  <1>4. SubSeq(q, 1, p) \o SubSeq(q, p + 1, Len(q)) = SubSeq(q, 1, Len(q))
    BY <1>1, ConcatAdjacentSubSeq, Zenon
  <1>5. SubSeq(q, 1, Len(q)) = q
    BY SubSeqFull
  <1> QED BY <1>2, <1>3, <1>4, <1>5

\* Concatenation, of units.
LEMMA Joined == \A a, b \in Seq(Units) : a \o b \in Seq(Units) /\ Len(a \o b) = Len(a) + Len(b)
  BY ConcatProperties

\* It is associative.
LEMMA Associated == \A a, b, d \in Seq(Units) : (a \o b) \o d = a \o (b \o d)
  BY ConcatAssociative

\* What was sent is a beginning of the whole stream.
LEMMA SentPrefix ==
  ASSUME NEW c \in Clients, NEW p \in [req : Nat, pos : Nat], Sending(p)
  PROVE  /\ SentBy(c, p) \in Seq(Units)
         /\ \E w \in Seq(Units) : StreamOf(c, Len(Requests)) = SentBy(c, p) \o w
  <1>1. PICK N \in Nat, r \in Nat : N = Len(Requests) /\ r = p.req
    BY Constants
  <1>2. CASE r \in 1..N /\ p.pos \in 1..ReqSize(r)
    <2>1. PICK a, x : a = StreamOf(c, r - 1) /\ x = HeaderOf(c, r) \o PayloadOf(c, r)
      OBVIOUS
    <2>2. r - 1 \in 0..N /\ r \in 0..N /\ r - 1 \in 0..(N - 1) /\ (r - 1) + 1 = r /\ N \in r..N
      BY <1>2
    <2>3. a \in Seq(Units) /\ x \in Seq(Units) /\ Len(x) = ReqSize(r) /\ StreamOf(c, r) = a \o x
      BY <1>1, <1>2, <2>1, <2>2, RequestUnits, StreamStep
    <2>4. PICK w \in Seq(Units) : StreamOf(c, N) = (a \o x) \o w
      BY <1>1, <2>2, <2>3, StreamPrefix
    <2>5. PICK k : k = p.pos - 1
      OBVIOUS
    <2>6. k \in 0..Len(x)
      BY <1>2, <2>3, <2>5
    <2>7. PICK u, v : u = SubSeq(x, 1, k) /\ v = SubSeq(x, k + 1, Len(x))
      OBVIOUS
    <2>8. u \in Seq(Units) /\ v \in Seq(Units) /\ u \o v = x
      BY <2>3, <2>6, <2>7, Cut, ZenonT(60)
    <2>9. SentBy(c, p) = a \o u
      <3>1. ~(p.req > Len(Requests))
        BY <1>1, <1>2
      <3> QED BY <1>1, <2>1, <2>5, <2>7, <3>1 DEF SentBy
    <2>10. (a \o (u \o v)) \o w = (a \o u) \o (v \o w)
      <3>1. a \in Seq(Units) /\ u \in Seq(Units) /\ v \in Seq(Units) /\ w \in Seq(Units)
        BY <2>3, <2>8
      <3>2. (a \o u) \o v = a \o (u \o v)
        BY <3>1, Associated, ZenonT(40)
      <3>3. PICK au \in Seq(Units) : au = a \o u
        BY <3>1, Joined
      <3>4. (au \o v) \o w = au \o (v \o w)
        BY <3>1, Associated, Zenon
      <3> QED BY <3>2, <3>3, <3>4
    <2>11. a \o u \in Seq(Units) /\ v \o w \in Seq(Units)
      BY <2>3, <2>8, Joined, Zenon
    <2> QED BY <1>1, <2>4, <2>8, <2>9, <2>10, <2>11
  <1>3. CASE r = N + 1
    <2>1. PICK a : a = StreamOf(c, N)
      OBVIOUS
    <2>2. a \in Seq(Units) /\ a \o <<>> = a /\ <<>> \in Seq(Units)
      BY <1>1, <2>1, StreamStep, ConcatEmptySeq, EmptySeq
    <2>3. SentBy(c, p) = a \o <<>>
      <3>1. p.req - 1 = N /\ p.req > Len(Requests)
        BY <1>1, <1>3
      <3> QED BY <2>1, <3>1 DEF SentBy
    <2> QED BY <1>1, <2>1, <2>2, <2>3
  <1> QED BY <1>1, <1>2, <1>3 DEF Sending

\* Two sequences that end up the same agree as far as both go.
LEMMA Agree ==
  ASSUME NEW S, NEW q \in Seq(S), NEW y \in Seq(S), NEW x \in Seq(S), NEW z \in Seq(S), q \o y = x \o z
  PROVE  \A j \in 1..Len(q) : j <= Len(x) => q[j] = x[j]
  <1>1. \A j \in 1..(Len(q) + Len(y)) : (q \o y)[j] = IF j <= Len(q) THEN q[j] ELSE y[j - Len(q)]
    BY ConcatProperties
  <1>2. \A j \in 1..(Len(x) + Len(z)) : (x \o z)[j] = IF j <= Len(x) THEN x[j] ELSE z[j - Len(x)]
    BY ConcatProperties
  <1>3. Len(q) \in Nat /\ Len(y) \in Nat /\ Len(x) \in Nat /\ Len(z) \in Nat
    OBVIOUS
  <1>4. ASSUME NEW j \in 1..Len(q), j <= Len(x) PROVE q[j] = x[j]
    <2>1. j \in 1..(Len(q) + Len(y)) /\ j \in 1..(Len(x) + Len(z)) /\ j <= Len(q)
      BY <1>3, <1>4
    <2>2. (q \o y)[j] = q[j]
      BY <1>1, <2>1
    <2>3. (x \o z)[j] = x[j]
      BY <1>2, <1>4, <2>1
    <2> QED BY <2>2, <2>3
  <1> QED BY <1>4

\* What follows n whole requests in what was sent is the next request, as far
\* as it goes: each unit is the one of its place.
LEMMA Ahead ==
  ASSUME NEW c \in Clients, NEW p \in [req : Nat, pos : Nat], Sending(p), NEW n \in 0..Len(Requests),
         NEW q \in Seq(Units), q # <<>>, StreamOf(c, n) \o q = SentBy(c, p)
  PROVE  /\ n + 1 \in 1..Len(Requests)
         /\ \A j \in 1..Len(q) : j <= ReqSize(n + 1) => q[j] = Unit(c, n + 1, j)
  <1>1. PICK N, a : N = Len(Requests) /\ a = StreamOf(c, n)
    OBVIOUS
  <1>2. a \in Seq(Units) /\ N \in Nat
    BY <1>1, StreamStep, Constants
  <1>3. PICK y \in Seq(Units) : StreamOf(c, N) = (a \o q) \o y
    BY <1>1, SentPrefix
  <1>4. (a \o q) \o y = a \o (q \o y) /\ q \o y \in Seq(Units)
    <2>1. a \in Seq(Units) /\ q \in Seq(Units) /\ y \in Seq(Units)
      BY <1>2
    <2>2. (a \o q) \o y = a \o (q \o y)
      BY <2>1, Associated, Zenon
    <2>3. q \o y \in Seq(Units)
      BY <2>1, Joined, Zenon
    <2> QED BY <2>2, <2>3
  <1>5. n # N
    <2>1. SUFFICES ASSUME n = N PROVE FALSE
      OBVIOUS
    <2>2. PICK qy \in Seq(Units) : qy = q \o y
      BY <1>4
    <2>3. a \o qy = a
      BY <1>1, <1>3, <1>4, <2>1, <2>2
    <2>4. qy = <<>>
      BY <1>2, <2>3, ConcatSimplifications
    <2>5. q = <<>>
      BY <2>2, <2>4, ConcatSimplifications
    <2> QED BY <2>5
  <1>6. n + 1 \in 1..N /\ n \in 0..(N - 1) /\ n + 1 \in 0..N /\ N \in (n + 1)..N
    BY <1>1, <1>2, <1>5
  <1>7. PICK x : x = HeaderOf(c, n + 1) \o PayloadOf(c, n + 1)
    OBVIOUS
  <1>8. /\ x \in Seq(Units) /\ Len(x) = ReqSize(n + 1) /\ StreamOf(c, n + 1) = a \o x
        /\ \A j \in 1..ReqSize(n + 1) : x[j] = Unit(c, n + 1, j)
    BY <1>1, <1>6, <1>7, RequestUnits, StreamStep
  <1>9. PICK z \in Seq(Units) : StreamOf(c, N) = (a \o x) \o z
    BY <1>1, <1>6, <1>8, StreamPrefix
  <1>10. (a \o x) \o z = a \o (x \o z) /\ x \o z \in Seq(Units)
    <2>1. a \in Seq(Units) /\ x \in Seq(Units) /\ z \in Seq(Units)
      BY <1>2, <1>8
    <2>2. (a \o x) \o z = a \o (x \o z)
      BY <2>1, Associated, ZenonT(40)
    <2>3. x \o z \in Seq(Units)
      BY <2>1, Joined, Zenon
    <2> QED BY <2>2, <2>3
  <1>11. q \o y = x \o z
    <2>1. PICK qy \in Seq(Units), xz \in Seq(Units) : qy = q \o y /\ xz = x \o z
      BY <1>4, <1>10
    <2>2. a \o qy = a \o xz
      BY <1>3, <1>4, <1>9, <1>10, <2>1
    <2>3. qy = xz
      BY <1>2, <2>2, ConcatSimplifications
    <2> QED BY <2>1, <2>3
  <1>12. \A j \in 1..Len(q) : j <= Len(x) => q[j] = x[j]
    BY <1>8, <1>11, Agree
  <1>13. ASSUME NEW j \in 1..Len(q), j <= ReqSize(n + 1) PROVE q[j] = Unit(c, n + 1, j)
    <2>1. j \in 1..ReqSize(n + 1) /\ j <= Len(x)
      BY <1>1, <1>6, <1>8, <1>13, RequestUnits
    <2> QED BY <1>8, <1>12, <2>1
  <1> QED BY <1>1, <1>6, <1>13

\* A unit appended to the second of two pieces is appended to both.
LEMMA AppendedLast ==
  ASSUME NEW a \in Seq(Units), NEW u \in Seq(Units), NEW e \in Units
  PROVE  Append(u, e) \in Seq(Units) /\ a \o Append(u, e) = Append(a \o u, e)
  <1>1. <<e>> \in Seq(Units) /\ a \o u \in Seq(Units)
    BY Joined
  <1>2. Append(u, e) = u \o <<e>> /\ Append(u, e) \in Seq(Units)
    BY AppendIsConcat, AppendProperties
  <1>3. PICK au \in Seq(Units) : au = a \o u
    BY <1>1
  <1>4. Append(au, e) = au \o <<e>>
    BY AppendIsConcat
  <1>5. (a \o u) \o <<e>> = a \o (u \o <<e>>)
    BY <1>1, Associated, ZenonT(40)
  <1> QED BY <1>2, <1>3, <1>4, <1>5

\* The next unit of a peer continues what it sent, and leaves it within its stream.
LEMMA SentStep ==
  ASSUME NEW c \in Clients, NEW p \in [req : Nat, pos : Nat], Sending(p), p.req <= Len(Requests),
         NEW o, o = IF p.pos < ReqSize(p.req) THEN [req |-> p.req, pos |-> p.pos + 1]
                    ELSE [req |-> p.req + 1, pos |-> 1]
  PROVE  /\ Sending(o) /\ Unit(c, p.req, p.pos) \in Units
         /\ SentBy(c, o) = Append(SentBy(c, p), Unit(c, p.req, p.pos))
  <1>1. PICK N, r, k, x, a : /\ N = Len(Requests) /\ r = p.req /\ k = p.pos
                             /\ x = HeaderOf(c, r) \o PayloadOf(c, r) /\ a = StreamOf(c, r - 1)
    OBVIOUS
  <1>2. N \in Nat /\ r \in 1..N /\ k \in 1..ReqSize(r) /\ r \in Nat /\ k \in Nat
    <2>1. N \in Nat /\ r \in Nat /\ k \in Nat /\ r # N + 1
      BY <1>1, Constants
    <2> QED BY <1>1, <2>1 DEF Sending
  <1>3. r - 1 \in 0..N /\ r - 1 \in 0..(N - 1) /\ (r - 1) + 1 = r /\ r \in 0..N
    BY <1>2
  <1>4. /\ x \in Seq(Units) /\ Len(x) = ReqSize(r) /\ ReqSize(r) \in Nat
        /\ a \in Seq(Units) /\ StreamOf(c, r) = a \o x
        /\ \A j \in 1..ReqSize(r) : x[j] = Unit(c, r, j)
    BY <1>1, <1>2, <1>3, RequestUnits, StreamStep
  <1>5. PICK u, e : u = SubSeq(x, 1, k - 1) /\ e = Unit(c, r, k)
    OBVIOUS
  <1>6. u \in Seq(Units) /\ e \in Units /\ x[k] = e
    <2>1. k - 1 \in 0..Len(x)
      BY <1>2, <1>4
    <2>2. e \in Units
      BY <1>1, <1>2, <1>5 DEF Unit, Units
    <2> QED BY <1>2, <1>4, <1>5, <2>1, <2>2, Cut
  <1>7. SubSeq(x, 1, k) = Append(u, e)
    <2>1. k \in 1..Len(x) /\ 1 \in 1..k
      BY <1>2, <1>4
    <2>2. SubSeq(x, 1, k) = SubSeq(x, 1, k - 1) \o <<x[k]>>
      BY <1>4, <2>1, SubSeqRecursiveSecond
    <2>3. Append(u, e) = u \o <<e>>
      BY <1>6, AppendIsConcat
    <2> QED BY <1>5, <1>6, <2>2, <2>3
  <1>8. SentBy(c, p) = a \o u
    <2>1. ~(p.req > Len(Requests))
      BY <1>1, <1>2
    <2> QED BY <1>1, <1>5, <2>1 DEF SentBy
  <1>9. a \o Append(u, e) = Append(a \o u, e)
    BY <1>4, <1>6, AppendedLast, SMTT(30)
  <1>10. CASE k < ReqSize(r)
    <2>1. o.req = r /\ o.pos = k + 1
      BY <1>1, <1>10
    <2>2. Sending(o)
      BY <1>1, <1>2, <1>4, <1>10, <2>1, SMTT(30) DEF Sending
    <2>3. SentBy(c, o) = a \o SubSeq(x, 1, k)
      <3>1. ~(o.req > Len(Requests)) /\ o.pos - 1 = k
        BY <1>1, <1>2, <2>1, SMTT(30)
      <3> QED BY <1>1, <2>1, <3>1 DEF SentBy
    <2> QED BY <1>1, <1>5, <1>6, <1>7, <1>8, <1>9, <2>2, <2>3
  <1>11. CASE ~(k < ReqSize(r))
    <2>1. o.req = r + 1 /\ o.pos = 1 /\ k = Len(x)
      BY <1>1, <1>2, <1>4, <1>11, SMTT(30)
    <2>2. Sending(o)
      <3>1. r = N \/ r + 1 \in 1..N
        BY <1>2
      <3>2. r + 1 \in 1..N => 1 \in 1..ReqSize(r + 1)
        BY <1>1, RequestUnits, Constants
      <3> QED BY <1>1, <2>1, <3>1, <3>2 DEF Sending
    <2>3. SentBy(c, o) = StreamOf(c, r) \o <<>>
      <3>1. o.req - 1 = r /\ o.pos - 1 = 0
        BY <1>2, <2>1
      <3>2. \A y : SubSeq(y, 1, 0) = <<>>
        OBVIOUS
      <3> QED BY <3>1, <3>2 DEF SentBy
    <2>4. a \o x \in Seq(Units)
      BY <1>4, Joined
    <2>5. StreamOf(c, r) \o <<>> = StreamOf(c, r)
      BY <1>4, <2>4, ConcatEmptySeq
    <2>6. SubSeq(x, 1, k) = x
      BY <1>4, <2>1, SubSeqFull
    <2> QED BY <1>1, <1>4, <1>5, <1>6, <1>7, <1>8, <1>9, <2>2, <2>3, <2>5, <2>6
  <1> QED BY <1>10, <1>11

------------------------------------------------------------------------------
(* The inductive invariant *)

\* What a connection holds of a request that is not complete.
Partial(k) == IF k.state = "WRITING_RESPONSE" THEN <<>> ELSE k.hdr \o k.pay

\* The connection k of a peer that is at p in its stream, whose first units led
\* to these calls and got these units written, and whose others are in rest.
Serves(k, calls, written, rest, p) ==
  /\ k.state = "READING_PAYLOAD" =>
       /\ Len(k.hdr) = HeaderSize /\ k.need = Requests[k.hdr[1].req].payload
       /\ k.mode = Requests[k.hdr[1].req].mode
  /\ \E n \in 0..Len(Requests) :
       calls = CallsOf(k.client, n) /\ StreamOf(k.client, n) \o (Partial(k) \o rest) = SentBy(k.client, p)
  /\ written \o SubSeq(k.resp, k.out + 1, Len(k.resp)) = RepliesTo(calls)

\* Every connection is served in this sense, and one that was not accepted yet
\* has everything it sent in its queue.
FrameInv ==
  /\ \A c \in Clients : Sending(next[c]) /\ replied[c] \in Seq(Units)
  /\ \A c \in Clients \ accepted : processed[c] = <<>> /\ replied[c] = <<>> /\ inbox[c] = SentBy(c, next[c])
  /\ \A s \in InUse : LET c == conn[s].client
                      IN  Serves(conn[s], processed[c], replied[c], inbox[c], next[c])

------------------------------------------------------------------------------
(* The steps, for one connection *)

\* What a connection holds is made of units.
LEMMA PartialUnits ==
  ASSUME NEW k, Sound(k)
  PROVE  Partial(k) \in Seq(Units)
  <1>1. k.hdr \in Seq(Units) /\ k.pay \in Seq(Units) /\ <<>> \in Seq(Units)
    BY EmptySeq DEF Sound
  <1>2. k.hdr \o k.pay \in Seq(Units)
    BY <1>1, Joined, Zenon
  <1> QED BY <1>1, <1>2 DEF Partial

\* After n requests the buffers hold a header, complete, and some payload.
Framed(c, p, n, hdr, pay, rest) ==
  /\ c \in Clients /\ p \in [req : Nat, pos : Nat] /\ Sending(p) /\ n \in 0..Len(Requests)
  /\ hdr \in Seq(Units) /\ Len(hdr) = HeaderSize /\ pay \in Seq(Units) /\ rest \in Seq(Units)
  /\ StreamOf(c, n) \o ((hdr \o pay) \o rest) = SentBy(c, p)

\* A header that is complete is the header of the next request.
LEMMA HeaderFound ==
  ASSUME NEW c, NEW p, NEW n, NEW hdr, NEW pay, NEW rest, Framed(c, p, n, hdr, pay, rest)
  PROVE  /\ n + 1 \in 1..Len(Requests) /\ hdr # <<>> /\ hdr[1].req = n + 1 /\ hdr = HeaderOf(c, n + 1)
         /\ \A j \in 1..Len(pay) : j <= Requests[n + 1].payload => pay[j] = PayloadOf(c, n + 1)[j]
  <1>0. /\ c \in Clients /\ p \in [req : Nat, pos : Nat] /\ Sending(p) /\ n \in 0..Len(Requests)
        /\ hdr \in Seq(Units) /\ Len(hdr) = HeaderSize /\ pay \in Seq(Units) /\ rest \in Seq(Units)
        /\ StreamOf(c, n) \o ((hdr \o pay) \o rest) = SentBy(c, p)
    BY DEF Framed
  <1>1. PICK hp \in Seq(Units) : hp = hdr \o pay
    BY <1>0, Joined
  <1>2. PICK q \in Seq(Units) : q = hp \o rest
    BY <1>0, Joined
  <1>3. PICK H, P, R : H = Len(hdr) /\ P = Len(pay) /\ R = Len(rest)
    OBVIOUS
  <1>4. H \in Nat /\ H > 0 /\ H = HeaderSize /\ P \in Nat /\ R \in Nat /\ hdr # <<>>
    BY <1>0, <1>3, Constants
  <1>5. /\ Len(hp) = H + P
        /\ \A j \in 1..(H + P) : hp[j] = IF j <= H THEN hdr[j] ELSE pay[j - H]
    BY <1>0, <1>1, <1>3, ConcatProperties, ZenonT(40)
  <1>6. /\ Len(q) = (H + P) + R
        /\ \A j \in 1..((H + P) + R) : q[j] = IF j <= H + P THEN hp[j] ELSE rest[j - (H + P)]
    <2>1. /\ Len(hp \o rest) = Len(hp) + Len(rest)
          /\ \A j \in 1..(Len(hp) + Len(rest)) :
               (hp \o rest)[j] = IF j <= Len(hp) THEN hp[j] ELSE rest[j - Len(hp)]
      BY <1>0, ConcatProperties, Zenon
    <2> QED BY <1>2, <1>3, <1>5, <2>1, Zenon
  <1>7. q # <<>> /\ StreamOf(c, n) \o q = SentBy(c, p)
    <2>1. q # <<>>
      BY <1>4, <1>6
    <2> QED BY <1>0, <1>1, <1>2, <2>1
  <1>8. /\ n + 1 \in 1..Len(Requests)
        /\ \A j \in 1..Len(q) : j <= ReqSize(n + 1) => q[j] = Unit(c, n + 1, j)
    BY <1>0, <1>7, Ahead
  <1>9. PICK h, y : h = HeaderOf(c, n + 1) /\ y = PayloadOf(c, n + 1)
    OBVIOUS
  <1>10. /\ h \in Seq(Units) /\ Len(h) = HeaderSize /\ ReqSize(n + 1) \in Nat /\ HeaderSize <= ReqSize(n + 1)
         /\ ReqSize(n + 1) = HeaderSize + Requests[n + 1].payload /\ Requests[n + 1].payload \in Nat
         /\ \A j \in 1..HeaderSize : h[j] = Unit(c, n + 1, j)
         /\ \A j \in 1..Requests[n + 1].payload : y[j] = Unit(c, n + 1, HeaderSize + j)
    <2>1. /\ h \in Seq(Units) /\ Len(h) = HeaderSize /\ ReqSize(n + 1) \in Nat /\ HeaderSize <= ReqSize(n + 1)
          /\ Requests[n + 1].payload \in Nat
      BY <1>0, <1>8, <1>9, RequestUnits, Constants
    <2>2. /\ \A j \in 1..HeaderSize : h[j] = Unit(c, n + 1, j)
          /\ \A j \in 1..Requests[n + 1].payload : y[j] = Unit(c, n + 1, HeaderSize + j)
      BY <1>9, Zenon DEF HeaderOf, PayloadOf
    <2> QED BY <2>1, <2>2 DEF ReqSize
  <1>11. ASSUME NEW j \in 1..H PROVE hdr[j] = h[j]
    <2>1. j \in 1..Len(q) /\ j \in 1..(H + P) /\ j \in 1..((H + P) + R) /\ j <= ReqSize(n + 1) /\ j <= H
          /\ j <= H + P /\ j \in 1..HeaderSize
      BY <1>4, <1>6, <1>10
    <2>2. q[j] = hdr[j]
      BY <1>5, <1>6, <2>1
    <2> QED BY <1>8, <1>10, <2>1, <2>2
  <1>12. hdr = h
    BY <1>0, <1>3, <1>4, <1>10, <1>11, SeqEqual
  <1>13. hdr[1].req = n + 1
    <2>1. hdr[1] = Unit(c, n + 1, 1)
      BY <1>4, <1>10, <1>12
    <2> QED BY <2>1 DEF Unit
  <1>14. ASSUME NEW j \in 1..P, j <= Requests[n + 1].payload PROVE pay[j] = y[j]
    <2>1. PICK i : i = H + j
      OBVIOUS
    <2>2. i \in 1..Len(q) /\ i \in 1..(H + P) /\ i \in 1..((H + P) + R) /\ i <= ReqSize(n + 1) /\ ~(i <= H)
          /\ i <= H + P /\ i - H = j /\ j \in 1..Requests[n + 1].payload /\ i = HeaderSize + j
      <3>1. PICK L, Z : L = Requests[n + 1].payload /\ Z = ReqSize(n + 1)
        OBVIOUS
      <3>2. L \in Nat /\ Z = H + L /\ j <= L /\ H \in Nat /\ P \in Nat /\ R \in Nat
        BY <1>4, <1>10, <1>14, <3>1
      <3>3. i \in 1..((H + P) + R) /\ i \in 1..(H + P) /\ i <= Z /\ ~(i <= H) /\ i <= H + P /\ i - H = j
            /\ j \in 1..L
        BY <2>1, <3>2
      <3> QED BY <1>4, <1>6, <2>1, <3>1, <3>3
    <2>3. q[i] = pay[j]
      BY <1>5, <1>6, <2>2
    <2> QED BY <1>8, <1>10, <2>2, <2>3
  <1> QED BY <1>3, <1>4, <1>8, <1>9, <1>12, <1>13, <1>14

\* The buffers hold the next request, and the rest is what follows it.
Found(c, p, n, hdr, pay, rest) ==
  /\ n + 1 \in 1..Len(Requests) /\ hdr # <<>> /\ hdr[1].req = n + 1
  /\ hdr = HeaderOf(c, n + 1) /\ pay = PayloadOf(c, n + 1)
  /\ StreamOf(c, n + 1) \o (<<>> \o rest) = SentBy(c, p)

\* So it is when the payload has the size its header announces.
LEMMA RequestFound ==
  ASSUME NEW c, NEW p, NEW n, NEW hdr, NEW pay, NEW rest, Framed(c, p, n, hdr, pay, rest),
         Len(pay) = Requests[hdr[1].req].payload
  PROVE  Found(c, p, n, hdr, pay, rest)
  <1>0. /\ c \in Clients /\ p \in [req : Nat, pos : Nat] /\ Sending(p) /\ n \in 0..Len(Requests)
        /\ hdr \in Seq(Units) /\ Len(hdr) = HeaderSize /\ pay \in Seq(Units) /\ rest \in Seq(Units)
        /\ StreamOf(c, n) \o ((hdr \o pay) \o rest) = SentBy(c, p)
    BY DEF Framed
  <1>1. /\ n + 1 \in 1..Len(Requests) /\ hdr # <<>> /\ hdr[1].req = n + 1 /\ hdr = HeaderOf(c, n + 1)
        /\ \A j \in 1..Len(pay) : j <= Requests[n + 1].payload => pay[j] = PayloadOf(c, n + 1)[j]
    BY HeaderFound
  <1>2. PICK y : y = PayloadOf(c, n + 1)
    OBVIOUS
  <1>3. y \in Seq(Units) /\ Len(y) = Requests[n + 1].payload /\ Len(pay) = Len(y) /\ Len(y) \in Nat
    BY <1>0, <1>1, <1>2, RequestUnits, SMTT(30)
  <1>4. \A j \in 1..Len(pay) : pay[j] = y[j]
    BY <1>1, <1>2, <1>3
  <1>5. pay = y
    BY <1>0, <1>3, <1>4, SeqEqual
  <1>6. n \in 0..(Len(Requests) - 1)
    BY <1>0, <1>1, Constants
  <1>7. PICK a, x : a = StreamOf(c, n) /\ x = hdr \o pay
    OBVIOUS
  <1>8. a \in Seq(Units) /\ StreamOf(c, n + 1) = a \o x
    BY <1>0, <1>1, <1>2, <1>5, <1>6, <1>7, StreamStep
  <1>9. x \in Seq(Units)
    BY <1>0, <1>7, Joined
  <1>10. (a \o x) \o rest = a \o (x \o rest)
    <2>1. a \in Seq(Units) /\ x \in Seq(Units) /\ rest \in Seq(Units)
      BY <1>0, <1>8, <1>9
    <2> QED BY <2>1, Associated, Zenon
  <1>11. <<>> \o rest = rest
    BY <1>0, ConcatEmptySeq
  <1> QED BY <1>0, <1>1, <1>2, <1>5, <1>7, <1>8, <1>10, <1>11 DEF Found

\* A unit that arrives is added at the end of what is still to be read.
LEMMA SendServes ==
  ASSUME NEW k, Sound(k), k.client \in Clients, NEW calls, NEW written, NEW rest \in Seq(Units),
         NEW p, NEW o, NEW e \in Units, SentBy(k.client, o) = Append(SentBy(k.client, p), e),
         Serves(k, calls, written, rest, p)
  PROVE  Serves(k, calls, written, Append(rest, e), o)
  <1>1. PICK n \in 0..Len(Requests) :
          calls = CallsOf(k.client, n) /\ StreamOf(k.client, n) \o (Partial(k) \o rest) = SentBy(k.client, p)
    BY Zenon DEF Serves
  <1>2. PICK a, q : a = StreamOf(k.client, n) /\ q = Partial(k)
    OBVIOUS
  <1>3. a \in Seq(Units) /\ q \in Seq(Units)
    BY <1>2, PartialUnits, StreamStep
  <1>4. PICK u \in Seq(Units) : u = q \o rest
    BY <1>3, Joined
  <1>5. q \o Append(rest, e) = Append(u, e)
    BY <1>3, <1>4, AppendedLast
  <1>6. a \o Append(u, e) = Append(a \o u, e)
    BY <1>3, AppendedLast
  <1>7. StreamOf(k.client, n) \o (Partial(k) \o Append(rest, e)) = SentBy(k.client, o)
    BY <1>1, <1>2, <1>4, <1>5, <1>6
  <1> QED BY <1>1, <1>7, Zenon DEF Serves

\* A connection just accepted has everything the peer sent before it.
LEMMA NewServes ==
  ASSUME NEW c \in Clients, NEW p \in [req : Nat, pos : Nat], Sending(p), NEW k, k = NewConnection(c)
  PROVE  Serves(k, <<>>, <<>>, SentBy(c, p), p)
  <1>1. /\ k.client = c /\ k.state = "READING_HEADER" /\ k.hdr = <<>> /\ k.pay = <<>> /\ k.resp = <<>>
        /\ k.out = 0
    BY DEF NewConnection
  <1>2. PICK t : t = SentBy(c, p)
    OBVIOUS
  <1>3. t \in Seq(Units)
    BY <1>2, SentPrefix
  <1>4. <<>> \o <<>> = <<>>
    OBVIOUS
  <1>5. Partial(k) = <<>>
    BY <1>1, <1>4 DEF Partial
  <1>6. <<>> \o t = t /\ <<>> \o (<<>> \o t) = t
    BY <1>3, ConcatEmptySeq
  <1>7. StreamOf(c, 0) = <<>> /\ CallsOf(c, 0) = <<>> /\ 0 \in 0..Len(Requests)
    BY StreamStep, CallsStep, Constants
  <1>8. RepliesTo(<<>>) = <<>>
    BY FlattenEmpty DEF RepliesTo
  <1>9. <<>> \o SubSeq(<<>>, 0 + 1, Len(<<>>)) = <<>>
    OBVIOUS
  <1> QED BY <1>1, <1>2, <1>5, <1>6, <1>7, <1>8, <1>9, Zenon DEF Serves

\* readHeader() and readPayload() move units from the queue into the buffers.
LEMMA TakenServes ==
  ASSUME NEW o \in ConnectionType, Sound(o), o.client \in Clients, o.state # "WRITING_RESPONSE",
         NEW units \in Seq(Units), NEW rest \in Seq(Units), NEW p, NEW calls, NEW written,
         o.state = "READING_HEADER" => Len(o.hdr) + Len(units) <= HeaderSize,
         Serves(o, calls, written, units \o rest, p),
         NEW k, k = IF o.state = "READING_HEADER" THEN ReadHeader(o, units) ELSE ReadPayload(o, units)
  PROVE  Serves(k, calls, written, rest, p)
  <1>1. /\ o.hdr \in Seq(Units) /\ o.pay \in Seq(Units) /\ o.resp = <<>> /\ o.out = 0
        /\ o.state = "READING_HEADER" => o.pay = <<>>
        /\ o.state \in {"READING_HEADER", "READING_PAYLOAD"}
    BY DEF Sound, ConnectionType
  <1>2. PICK n \in 0..Len(Requests) :
          /\ calls = CallsOf(o.client, n)
          /\ StreamOf(o.client, n) \o (Partial(o) \o (units \o rest)) = SentBy(o.client, p)
    BY Zenon DEF Serves
  <1>3. Partial(o) = o.hdr \o o.pay
    BY DEF Partial
  <1>4. written \o SubSeq(o.resp, o.out + 1, Len(o.resp)) = RepliesTo(calls)
    BY Zenon DEF Serves
  <1>5. PICK h, y : h = o.hdr /\ y = o.pay
    OBVIOUS
  <1>6. h \in Seq(Units) /\ y \in Seq(Units) /\ units \in Seq(Units) /\ rest \in Seq(Units)
    BY <1>1, <1>5
  <1>7. SUFFICES /\ k.client = o.client /\ k.state # "WRITING_RESPONSE" /\ k.resp = o.resp /\ k.out = o.out
                 /\ (k.hdr \o k.pay) \o rest = (h \o y) \o (units \o rest)
                 /\ k.state = "READING_PAYLOAD" =>
                      /\ Len(k.hdr) = HeaderSize /\ k.need = Requests[k.hdr[1].req].payload
                      /\ k.mode = Requests[k.hdr[1].req].mode
    <2>1. Partial(k) = k.hdr \o k.pay
      BY <1>7 DEF Partial
    <2>2. Partial(k) \o rest = Partial(o) \o (units \o rest)
      BY <1>3, <1>5, <1>7, <2>1
    <2> QED BY <1>2, <1>4, <1>7, <2>2, Zenon DEF Serves
  <1>8. CASE o.state = "READING_HEADER"
    <2>1. PICK m : m = h \o units
      OBVIOUS
    <2>2. m \in Seq(Units) /\ Len(m) = Len(h) + Len(units) /\ Len(m) <= HeaderSize /\ Len(m) \in Nat
      BY <1>5, <1>6, <1>8, <2>1, Joined
    <2>3. k = IF Len(m) < HeaderSize THEN [o EXCEPT !.hdr = m]
              ELSE [o EXCEPT !.hdr = m, !.state = "READING_PAYLOAD", !.need = Requests[m[1].req].payload,
                             !.mode = Requests[m[1].req].mode]
      BY <1>5, <1>8, <2>1 DEF ReadHeader
    <2>4. /\ k.client = o.client /\ k.resp = o.resp /\ k.out = o.out /\ k.hdr = m /\ k.pay = y
          /\ k.state \in {"READING_HEADER", "READING_PAYLOAD"}
          /\ k.state = "READING_PAYLOAD" =>
               /\ ~(Len(m) < HeaderSize) /\ k.need = Requests[m[1].req].payload
               /\ k.mode = Requests[m[1].req].mode
      BY <1>5, <1>8, <2>3 DEF ConnectionType
    <2>5. y = <<>> /\ m \o <<>> = m /\ h \o <<>> = h
      BY <1>1, <1>5, <1>6, <1>8, <2>2, ConcatEmptySeq
    <2>6. (h \o units) \o rest = h \o (units \o rest)
      BY <1>6, Associated, ZenonT(40)
    <2>7. (k.hdr \o k.pay) \o rest = (h \o y) \o (units \o rest)
      BY <2>1, <2>4, <2>5, <2>6
    <2>8. k.state = "READING_PAYLOAD" => Len(k.hdr) = HeaderSize
      BY <2>2, <2>4, Constants
    <2> QED BY <2>4, <2>7, <2>8
  <1>9. CASE o.state = "READING_PAYLOAD"
    <2>1. k = [o EXCEPT !.pay = y \o units]
      BY <1>5, <1>9 DEF ReadPayload
    <2>2. /\ k.client = o.client /\ k.state = o.state /\ k.resp = o.resp /\ k.out = o.out /\ k.hdr = h
          /\ k.pay = y \o units /\ k.need = o.need /\ k.mode = o.mode
      BY <1>5, <2>1 DEF ConnectionType
    <2>3. /\ Len(o.hdr) = HeaderSize /\ o.need = Requests[o.hdr[1].req].payload
          /\ o.mode = Requests[o.hdr[1].req].mode
      BY <1>9, Zenon DEF Serves
    <2>4. PICK hy \in Seq(Units) : hy = h \o y
      BY <1>6, Joined
    <2>5. (h \o y) \o units = h \o (y \o units)
      BY <1>6, Associated, ZenonT(40)
    <2>6. (hy \o units) \o rest = hy \o (units \o rest)
      BY <1>6, Associated, Zenon
    <2>7. (k.hdr \o k.pay) \o rest = (h \o y) \o (units \o rest)
      BY <2>2, <2>4, <2>5, <2>6
    <2> QED BY <1>5, <1>9, <2>2, <2>3, <2>7
  <1> QED BY <1>1, <1>8, <1>9

\* What flush() leaves of a connection.
LEMMA FlushFields ==
  ASSUME NEW k
  PROVE  /\ Flush(k).client = k.client /\ Flush(k).state = "READING_HEADER" /\ Flush(k).hdr = <<>>
         /\ Flush(k).pay = <<>> /\ Flush(k).resp = <<>> /\ Flush(k).out = 0 /\ Partial(Flush(k)) = <<>>
  <1>1. Flush(k) = [client |-> k.client, state |-> "READING_HEADER", hdr |-> <<>>, pay |-> <<>>,
                    need |-> 0, mode |-> k.mode, resp |-> <<>>, out |-> 0]
    BY DEF Flush, NewConnection
  <1>2. PICK f : f = Flush(k)
    OBVIOUS
  <1>3. f.client = k.client /\ f.state = "READING_HEADER" /\ f.hdr = <<>> /\ f.pay = <<>>
        /\ f.resp = <<>> /\ f.out = 0
    BY <1>1, <1>2
  <1>4. <<>> \o <<>> = <<>>
    OBVIOUS
  <1> QED BY <1>2, <1>3, <1>4 DEF Partial

\* The request x in k is the next of the stream, everything before it is
\* answered, and after runTask() the connection holds the units that answer it.
Handles(k, calls, written, rest, p, x, more) ==
  /\ Serves(RunTask(k), more, written, rest, p)
  /\ calls \in Seq(Done) /\ written = RepliesTo(calls)
  /\ Processes(k) => Len(calls) < Len(Whole(k.client)) /\ x = Whole(k.client)[Len(calls) + 1]

\* So it is when runTask() is called.
LEMMA TaskServes ==
  ASSUME NEW k \in ConnectionType, k.client \in Clients, k.hdr \in Seq(Units), k.pay \in Seq(Units),
         k.resp = <<>>, k.out = 0, Complete(k), NEW rest \in Seq(Units),
         NEW p \in [req : Nat, pos : Nat], Sending(p), NEW calls, NEW written \in Seq(Units),
         Serves(k, calls, written, rest, p),
         NEW x, x = [hdr |-> k.hdr, pay |-> k.pay],
         NEW more, more = IF Processes(k) THEN Append(calls, x) ELSE calls
  PROVE  Handles(k, calls, written, rest, p, x, more)
  <1>1. PICK c \in Clients, h \in Seq(Units), y \in Seq(Units) : c = k.client /\ h = k.hdr /\ y = k.pay
    OBVIOUS
  <1>2. PICK n \in 0..Len(Requests) :
          calls = CallsOf(c, n) /\ StreamOf(c, n) \o (Partial(k) \o rest) = SentBy(c, p)
    BY <1>1, Zenon DEF Serves
  <1>3. /\ k.state = "READING_PAYLOAD" /\ Len(y) = k.need
        /\ Len(h) = HeaderSize /\ k.need = Requests[h[1].req].payload /\ k.mode = Requests[h[1].req].mode
    BY <1>1 DEF Complete, Serves
  <1>4. Partial(k) = h \o y
    BY <1>1, <1>3 DEF Partial
  <1>5. Framed(c, p, n, h, y, rest)
    BY <1>2, <1>3, <1>4, Zenon DEF Framed
  <1>6. /\ n + 1 \in 1..Len(Requests) /\ h # <<>> /\ h[1].req = n + 1
        /\ h = HeaderOf(c, n + 1) /\ y = PayloadOf(c, n + 1)
        /\ StreamOf(c, n + 1) \o (<<>> \o rest) = SentBy(c, p)
    <2>1. Len(y) = Requests[h[1].req].payload
      BY <1>3
    <2>2. Found(c, p, n, h, y, rest)
      BY <1>5, <2>1, RequestFound
    <2> QED BY <2>2, Zenon DEF Found
  <1>7. n \in 0..(Len(Requests) - 1) /\ n + 1 \in 0..Len(Requests)
    BY <1>6, Constants
  <1>8. x = RequestOf(c, n + 1) /\ x \in Done /\ x.hdr = h
    <2>1. x = RequestOf(c, n + 1)
      BY <1>1, <1>6 DEF RequestOf
    <2> QED BY <1>1, <1>6, <2>1, RequestUnits
  <1>9. k.mode = Requests[n + 1].mode /\ k.mode \in {"FAST", "SLOW", "READ_STREAM", "WRITE_STREAM"}
    BY <1>3, <1>6, Constants
  <1> HIDE DEF Done
  <1>10. /\ calls \in Seq(Done) /\ CallsOf(c, n + 1) \in Seq(Done)
         /\ CallsOf(c, n + 1) = calls \o (IF k.mode = "SLOW" THEN <<>> ELSE <<x>>)
    BY <1>2, <1>7, <1>8, <1>9, CallsStep
  <1>11. more = CallsOf(c, n + 1)
    <2>1. calls \o <<>> = calls /\ Append(calls, x) = calls \o <<x>>
      BY <1>8, <1>10, ConcatEmptySeq, AppendIsConcat
    <2> QED BY <1>10, <2>1 DEF Processes
  <1>12. written = RepliesTo(calls)
    <2>1. written \o SubSeq(<<>>, 0 + 1, Len(<<>>)) = RepliesTo(calls)
      BY Zenon DEF Serves
    <2>2. SubSeq(<<>>, 0 + 1, Len(<<>>)) = <<>>
      OBVIOUS
    <2>3. written \o <<>> = written
      BY ConcatEmptySeq
    <2> QED BY <2>1, <2>2, <2>3
  <1>13. /\ RepliesTo(calls) \in Seq(Units) /\ Answer(x) \in Seq(Units)
         /\ RepliesTo(Append(calls, x)) = RepliesTo(calls) \o Answer(x)
    BY <1>8, <1>10, RepliesStep
  <1>14. Answer(x) = IF k.mode = "WRITE_STREAM" THEN <<>> ELSE ReplyTo(h)
    BY <1>6, <1>8, <1>9 DEF Answer
  <1>15. Processes(k) => Len(calls) < Len(Whole(k.client)) /\ x = Whole(k.client)[Len(calls) + 1]
    <2>1. SUFFICES ASSUME k.mode # "SLOW"
                   PROVE  Len(calls) < Len(Whole(c)) /\ x = Whole(c)[Len(calls) + 1]
      BY <1>1 DEF Processes
    <2>2. PICK w \in Seq(Done) : Whole(c) = CallsOf(c, n + 1) \o w
      BY <1>7, CallsPrefix
    <2>3. CallsOf(c, n + 1) = Append(calls, x)
      BY <1>8, <1>10, <2>1, AppendIsConcat
    <2>a. calls \in Seq(Done) /\ x \in Done
      BY <1>8, <1>10
    <2>4. PICK b \in Seq(Done) : b = Append(calls, x)
      BY <2>a, AppendProperties
    <2>5. Len(b) = Len(calls) + 1 /\ b[Len(calls) + 1] = x /\ Len(calls) \in Nat
      BY <2>a, <2>4, AppendProperties
    <2>6. Len(b \o w) = Len(b) + Len(w) /\ Len(w) \in Nat /\ (b \o w)[Len(b)] = b[Len(b)]
      <3>1. Len(w) \in Nat /\ Len(b) \in 1..(Len(b) + Len(w)) /\ Len(b) <= Len(b)
        BY <2>5, SMTT(30)
      <3> QED BY <3>1, ConcatProperties
    <2> QED BY <2>2, <2>3, <2>4, <2>5, <2>6, SMTT(30)
  <1>16. ASSUME NEW t, t.client = c, Partial(t) = <<>>, t.state # "READING_PAYLOAD",
                written \o SubSeq(t.resp, t.out + 1, Len(t.resp)) = RepliesTo(more)
         PROVE  Serves(t, more, written, rest, p)
    BY <1>6, <1>7, <1>11, <1>16, Zenon DEF Serves
  <1>17. Serves(RunTask(k), more, written, rest, p)
    <2>1. CASE k.mode \in {"FAST", "READ_STREAM"}
      <3>1. PICK r, t : r = ReplyTo(h) /\ t = [k EXCEPT !.state = "WRITING_RESPONSE", !.resp = r]
        OBVIOUS
      <3>2. RunTask(k) = t
        BY <1>1, <2>1, <3>1, Zenon DEF RunTask
      <3>3. t.client = c /\ t.state = "WRITING_RESPONSE" /\ t.resp = r /\ t.out = 0
        BY <1>1, <3>1 DEF ConnectionType
      <3>4. Partial(t) = <<>>
        BY <3>3 DEF Partial
      <3>5. r \in Seq(Units) /\ r = Answer(x) /\ more = Append(calls, x)
        BY <1>13, <1>14, <2>1, <3>1 DEF Processes
      <3>6. SubSeq(r, 0 + 1, Len(r)) = r
        BY <3>5, SubSeqFull
      <3>7. written \o SubSeq(t.resp, t.out + 1, Len(t.resp)) = RepliesTo(more)
        BY <1>12, <1>13, <3>3, <3>5, <3>6
      <3> QED BY <1>16, <3>2, <3>3, <3>4, <3>7
    <2>2. CASE k.mode = "SLOW"
      <3>1. PICK t : t = [k EXCEPT !.state = "WRITING_RESPONSE"]
        OBVIOUS
      <3>2. RunTask(k) = t
        BY <2>2, <3>1, Zenon DEF RunTask
      <3>3. t.client = c /\ t.state = "WRITING_RESPONSE" /\ t.resp = <<>> /\ t.out = 0
        BY <1>1, <3>1 DEF ConnectionType
      <3>4. Partial(t) = <<>>
        BY <3>3 DEF Partial
      <3>5. SubSeq(<<>>, 0 + 1, Len(<<>>)) = <<>> /\ written \o <<>> = written /\ more = calls
        BY <2>2, ConcatEmptySeq DEF Processes
      <3>6. written \o SubSeq(t.resp, t.out + 1, Len(t.resp)) = RepliesTo(more)
        BY <1>12, <3>3, <3>5
      <3> QED BY <1>16, <3>2, <3>3, <3>4, <3>6
    <2>3. CASE k.mode = "WRITE_STREAM"
      <3>1. PICK t : t = Flush(k)
        OBVIOUS
      <3>2. RunTask(k) = t
        BY <2>3, <3>1, Zenon DEF RunTask
      <3>3. t.client = c /\ t.state = "READING_HEADER" /\ t.resp = <<>> /\ t.out = 0 /\ Partial(t) = <<>>
        BY <1>1, <3>1, FlushFields
      <3>4. SubSeq(<<>>, 0 + 1, Len(<<>>)) = <<>> /\ written \o <<>> = written
        BY ConcatEmptySeq
      <3>5. more = Append(calls, x) /\ Answer(x) = <<>>
        BY <1>14, <2>3 DEF Processes
      <3>6. written \o SubSeq(t.resp, t.out + 1, Len(t.resp)) = RepliesTo(more)
        BY <1>12, <1>13, <3>3, <3>4, <3>5
      <3> QED BY <1>16, <3>2, <3>3, <3>6
    <2> QED BY <1>9, <2>1, <2>2, <2>3
  <1> QED BY <1>10, <1>12, <1>15, <1>17 DEF Handles

\* More of the response of o is written, in order, and k is o after it, or
\* flush() ends the request.
Writes(o, k, calls, written, t, rest, p) ==
  /\ t \in Seq(Units) /\ Serves(k, calls, t, rest, p)
  /\ k.out = Len(k.resp) => Serves(Flush(o), calls, t, rest, p)
  /\ \E v \in Seq(Units) : RepliesTo(calls) = written \o v
  /\ \E v \in Seq(Units) : RepliesTo(calls) = t \o v
  /\ \E v \in Seq(Units) : t = written \o v

\* writeResponse() takes w units off the front of what is left of the response.
LEMMA WriteServes ==
  ASSUME NEW o \in ConnectionType, Sound(o), o.state = "WRITING_RESPONSE", NEW w \in Nat,
         o.out + w <= Len(o.resp), NEW k, k = [o EXCEPT !.out = o.out + w], NEW rest, NEW p, NEW calls,
         NEW written \in Seq(Units), Serves(o, calls, written, rest, p),
         NEW t, t = written \o SubSeq(o.resp, o.out + 1, k.out)
  PROVE  Writes(o, k, calls, written, t, rest, p)
  <1>1. PICK r, b, e : r = o.resp /\ b = o.out /\ e = o.out + w
    OBVIOUS
  <1>2. r \in Seq(Units) /\ b \in Nat /\ e \in Nat /\ b <= e /\ e <= Len(r) /\ Len(r) \in Nat
    <2>1. r \in Seq(Units) /\ b \in Nat
      BY <1>1 DEF Sound, ConnectionType
    <2>a. e = b + w /\ e <= Len(r)
      BY <1>1, Zenon
    <2>2. e \in Nat /\ b <= e /\ e <= Len(r)
      BY <2>1, <2>a
    <2> QED BY <2>1, <2>2
  <1>3. /\ k.client = o.client /\ k.state = "WRITING_RESPONSE" /\ k.resp = r /\ k.out = e
        /\ k.hdr = o.hdr /\ k.pay = o.pay
    BY <1>1 DEF ConnectionType
  <1>4. PICK s1, s2, s3 : s1 = SubSeq(r, b + 1, e) /\ s2 = SubSeq(r, e + 1, Len(r)) /\ s3 = SubSeq(r, b + 1, Len(r))
    OBVIOUS
  <1>5. s1 \in Seq(Units) /\ s2 \in Seq(Units) /\ s3 \in Seq(Units) /\ s1 \o s2 = s3
    <2>1. s1 \in Seq(Units) /\ s2 \in Seq(Units) /\ s3 \in Seq(Units)
      <3>1. /\ \A i \in (b + 1)..e : r[i] \in Units
            /\ \A i \in (e + 1)..Len(r) : r[i] \in Units
            /\ \A i \in (b + 1)..Len(r) : r[i] \in Units
            /\ b + 1 \in Int /\ e + 1 \in Int /\ e \in Int /\ Len(r) \in Int
        BY <1>2
      <3> QED BY <1>4, <3>1, SubSeqProperties
    <2>2. b + 1 \in 1..(Len(r) + 1) /\ e \in ((b + 1) - 1)..Len(r) /\ Len(r) \in e..Len(r)
      BY <1>2
    <2>a. r \in Seq(Units)
      BY <1>2
    <2>3. SubSeq(r, b + 1, e) \o SubSeq(r, e + 1, Len(r)) = SubSeq(r, b + 1, Len(r))
      BY <2>a, <2>2, ConcatAdjacentSubSeq, Zenon
    <2> QED BY <1>4, <2>1, <2>3
  <1>6. t = written \o s1 /\ t \in Seq(Units)
    BY <1>1, <1>3, <1>4, <1>5, Joined
  <1>7. written \o s3 = RepliesTo(calls)
    BY <1>1, <1>4, Zenon DEF Serves
  <1>8. t \o s2 = RepliesTo(calls)
    <2>1. (written \o s1) \o s2 = written \o (s1 \o s2)
      BY <1>5, Associated, Zenon
    <2> QED BY <1>5, <1>6, <1>7, <2>1
  <1>9. PICK n \in 0..Len(Requests) :
          /\ calls = CallsOf(o.client, n)
          /\ StreamOf(o.client, n) \o (Partial(o) \o rest) = SentBy(o.client, p)
    BY Zenon DEF Serves
  <1>10. Partial(o) = <<>> /\ Partial(k) = <<>>
    BY <1>3 DEF Partial
  <1>11. Serves(k, calls, t, rest, p)
    <2>1. t \o SubSeq(k.resp, k.out + 1, Len(k.resp)) = RepliesTo(calls)
      BY <1>3, <1>4, <1>8
    <2>2. k.state # "READING_PAYLOAD"
      BY <1>3
    <2> QED BY <1>3, <1>9, <1>10, <2>1, <2>2, Zenon DEF Serves
  <1>12. ASSUME k.out = Len(k.resp) PROVE Serves(Flush(o), calls, t, rest, p)
    <2>1. PICK f : f = Flush(o)
      OBVIOUS
    <2>2. f.client = o.client /\ f.state = "READING_HEADER" /\ f.resp = <<>> /\ f.out = 0 /\ Partial(f) = <<>>
      BY <2>1, FlushFields
    <2>3. s2 = <<>>
      BY <1>2, <1>3, <1>4, <1>12
    <2>4. SubSeq(<<>>, 0 + 1, Len(<<>>)) = <<>>
      OBVIOUS
    <2>5. t \o SubSeq(f.resp, f.out + 1, Len(f.resp)) = RepliesTo(calls)
      BY <1>8, <2>2, <2>3, <2>4
    <2>6. f.state # "READING_PAYLOAD"
      BY <2>2
    <2>7. Serves(f, calls, t, rest, p)
      BY <1>9, <1>10, <2>2, <2>5, <2>6, Zenon DEF Serves
    <2> QED BY <2>1, <2>7
  <1> QED BY <1>5, <1>6, <1>7, <1>8, <1>11, <1>12 DEF Writes

------------------------------------------------------------------------------
(* The steps of the server *)

\* What the invariant of RequestServer says about a connection in use.
LEMMA InUseFacts ==
  ASSUME ServerInv, NEW s \in InUse
  PROVE  /\ s \in SlotSet /\ conn[s] \in ConnectionType /\ Sound(conn[s])
         /\ conn[s].client \in Clients /\ conn[s].client \in accepted /\ conn[s].client \in Held
         /\ inbox[conn[s].client] \in Seq(Units) /\ next[conn[s].client] \in [req : Nat, pos : Nat]
         /\ \A t \in InUse : conn[t].client = conn[s].client => t = s
  <1>1. s \in SlotSet
    BY DEF InUse
  <1>2. conn[s] \in ConnectionType /\ Sound(conn[s]) /\ conn[s].client \in Clients
    BY <1>1 DEF ServerInv, TypeOK, Buffers
  <1>3. conn[s].client \in Held
    BY DEF ServerInv, Pool
  <1>4. conn[s].client \in accepted
    BY <1>3 DEF Held
  <1>5. inbox[conn[s].client] \in Seq(Units) /\ next[conn[s].client] \in [req : Nat, pos : Nat]
    BY <1>2 DEF ServerInv, TypeOK, Buffers
  <1>6. \A t \in InUse : conn[t].client = conn[s].client => t = s
    BY DEF ServerInv, Pool
  <1> QED BY <1>1, <1>2, <1>3, <1>4, <1>5, <1>6

\* A step that leaves the connections, the queues and what was handled and
\* written alone.
LEMMA FrameKept ==
  ASSUME FrameInv, UNCHANGED <<conn, accepted, inbox, next, processed, replied>>
  PROVE  FrameInv'
  <1>1. InUse' = InUse
    BY DEF InUse
  <1> QED BY <1>1 DEF FrameInv

\* A step that changes the connection in s, which keeps its peer, and what
\* belongs to that peer.
LEMMA OneConnection ==
  ASSUME ServerInv, FrameInv, NEW s \in InUse, NEW c, c = conn[s].client, NEW k, k.client = c,
         NEW calls, NEW written \in Seq(Units), NEW rest, Serves(k, calls, written, rest, next[c]),
         conn' = [conn EXCEPT ![s] = k], processed' = [processed EXCEPT ![c] = calls],
         replied' = [replied EXCEPT ![c] = written], inbox' = [inbox EXCEPT ![c] = rest],
         UNCHANGED <<accepted, next>>
  PROVE  FrameInv'
  <1>1. /\ s \in SlotSet /\ c \in Clients /\ c \in accepted /\ c # None
        /\ \A t \in InUse : conn[t].client = c => t = s
    BY InUseFacts, Constants
  <1>2. InUse' = InUse /\ conn'[s] = k /\ \A t \in SlotSet : t # s => conn'[t] = conn[t]
    <2>1. InUse' = InUse \cup {s} /\ conn'[s] = k /\ \A t \in SlotSet : t # s => conn'[t] = conn[t]
      BY <1>1, Occupied DEF ServerInv
    <2> QED BY <2>1
  <1>3. /\ processed'[c] = calls /\ replied'[c] = written /\ inbox'[c] = rest
        /\ \A d \in Clients : d # c => processed'[d] = processed[d] /\ replied'[d] = replied[d] /\ inbox'[d] = inbox[d]
    BY <1>1 DEF ServerInv, TypeOK
  <1>4. ASSUME NEW d \in Clients PROVE Sending(next'[d]) /\ replied'[d] \in Seq(Units)
    BY <1>3 DEF FrameInv
  <1>5. ASSUME NEW d \in Clients \ accepted'
        PROVE  processed'[d] = <<>> /\ replied'[d] = <<>> /\ inbox'[d] = SentBy(d, next'[d])
    <2>1. d \in Clients \ accepted /\ d # c
      BY <1>1
    <2> QED BY <1>3, <2>1 DEF FrameInv
  <1>6. ASSUME NEW t \in InUse'
        PROVE  Serves(conn'[t], processed'[conn'[t].client], replied'[conn'[t].client],
                      inbox'[conn'[t].client], next'[conn'[t].client])
    <2>1. CASE t = s
      BY <1>2, <1>3, <2>1
    <2>2. CASE t # s
      <3>1. t \in InUse /\ t \in SlotSet /\ conn'[t] = conn[t] /\ conn[t].client # c /\ conn[t].client \in Clients
        BY <1>1, <1>2, <2>2, InUseFacts
      <3>2. Serves(conn[t], processed[conn[t].client], replied[conn[t].client], inbox[conn[t].client],
                   next[conn[t].client])
        BY <3>1 DEF FrameInv
      <3> QED BY <1>3, <3>1, <3>2
    <2> QED BY <2>1, <2>2
  <1> QED BY <1>4, <1>5, <1>6 DEF FrameInv

\* What a read comes to: units moved, and perhaps the next request of the
\* stream handled when everything before it is answered.
ReadComesTo(s, c, k, calls, rest) ==
  /\ s \in InUse /\ c = conn[s].client /\ k.client = c
  /\ Serves(k, calls, replied[c], rest, next[c])
  /\ conn' = [conn EXCEPT ![s] = k] /\ processed' = [processed EXCEPT ![c] = calls]
  /\ inbox' = [inbox EXCEPT ![c] = rest]
  /\ UNCHANGED <<peer, accepted, next, replied>>
  /\ \/ calls = processed[c]
     \/ /\ replied[c] = RepliesTo(processed[c]) /\ Len(processed[c]) < Len(Whole(c))
        /\ calls = Append(processed[c], Whole(c)[Len(processed[c]) + 1])

\* The case READ of run().
LEMMA ReadEffect ==
  ASSUME ServerInv, FrameInv, RunRead
  PROVE  \E s, c, k, calls, rest : ReadComesTo(s, c, k, calls, rest)
  <1> DEFINE S == Head(evs).ctx
             C == conn[S].client
             W == IF conn[S].state = "READING_HEADER" THEN HeaderSize - Len(conn[S].hdr)
                  ELSE conn[S].need - Len(conn[S].pay)
             K(n) == IF conn[S].state = "READING_HEADER" THEN ReadHeader(conn[S], SubSeq(inbox[C], 1, n))
                     ELSE ReadPayload(conn[S], SubSeq(inbox[C], 1, n))
             After(n) == IF Complete(K(n)) THEN RunTask(K(n)) ELSE K(n)
  <1>1. PICK n \in ReadSizes(C, W) :
          /\ inbox' = [inbox EXCEPT ![C] = SubSeq(inbox[C], n + 1, Len(inbox[C]))]
          /\ processed' = IF Complete(K(n)) /\ Processes(K(n))
                          THEN [processed EXCEPT ![C] = Append(processed[C], [hdr |-> K(n).hdr, pay |-> K(n).pay])]
                          ELSE processed
          /\ conn' = [conn EXCEPT ![S] = After(n)]
    BY ZenonT(40) DEF RunRead
  <1>2. PICK s, o, c, want, k, after, units, rest, calls, x, more :
          /\ s = Head(evs).ctx /\ o = conn[s] /\ c = o.client
          /\ want = IF o.state = "READING_HEADER" THEN HeaderSize - Len(o.hdr) ELSE o.need - Len(o.pay)
          /\ k = K(n) /\ after = After(n) /\ s = S /\ c = C /\ want = W
          /\ units = SubSeq(inbox[c], 1, n) /\ rest = SubSeq(inbox[c], n + 1, Len(inbox[c]))
          /\ calls = processed[c] /\ x = [hdr |-> k.hdr, pay |-> k.pay]
          /\ more = IF Complete(k) /\ Processes(k) THEN Append(calls, x) ELSE calls
    OBVIOUS
  <1>3. /\ Dispatching("READ") /\ UNCHANGED <<peer, accepted, next, replied>>
    BY DEF RunRead, srvVars
  <1>4. /\ k = IF o.state = "READING_HEADER" THEN ReadHeader(o, units) ELSE ReadPayload(o, units)
        /\ after = IF Complete(k) THEN RunTask(k) ELSE k
    BY <1>2, Zenon
  <1> HIDE DEF S, C, W, K, After
  <1>5. /\ n \in ReadSizes(c, want)
        /\ inbox' = [inbox EXCEPT ![c] = rest]
        /\ processed' = IF Complete(k) /\ Processes(k) THEN [processed EXCEPT ![c] = Append(calls, x)]
                        ELSE processed
        /\ conn' = [conn EXCEPT ![s] = after]
    BY <1>1, <1>2, Zenon
  <1>6. /\ s \in InUse /\ o.state # "WRITING_RESPONSE"
    BY <1>2, <1>3, FrontEvent
  <1>7. /\ s \in SlotSet /\ c \in Clients /\ o \in ConnectionType /\ Sound(o) /\ inbox[c] \in Seq(Units)
        /\ next[c] \in [req : Nat, pos : Nat]
    BY <1>2, <1>6, InUseFacts
  <1>8. /\ Sending(next[c]) /\ replied[c] \in Seq(Units)
        /\ Serves(o, calls, replied[c], inbox[c], next[c])
    BY <1>2, <1>6, <1>7 DEF FrameInv
  <1>9. /\ o.state \in {"READING_HEADER", "READING_PAYLOAD"} /\ o.need \in Nat
        /\ o.hdr \in Seq(Units) /\ o.pay \in Seq(Units) /\ HeaderSize \in Nat
        /\ o.state = "READING_HEADER" => Len(o.hdr) < HeaderSize
        /\ o.state = "READING_PAYLOAD" => Len(o.pay) < o.need
    BY <1>6, <1>7, Constants DEF Sound, ConnectionType
  <1>10. want \in Nat /\ n \in 0..Len(inbox[c]) /\ n <= want
    <2>1. want \in Nat
      BY <1>2, <1>9
    <2>2. PICK L \in Nat : L = Len(inbox[c])
      BY <1>7
    <2>3. Min({want, L}) \in Nat /\ Min({want, L}) <= want /\ Min({want, L}) <= L
      BY <2>1, Smaller
    <2>4. n = Min({want, L}) \/ n = 0
      BY <1>5, <2>2 DEF ReadSizes
    <2> QED BY <2>1, <2>2, <2>3, <2>4
  <1>11. /\ units \in Seq(Units) /\ rest \in Seq(Units) /\ Len(units) = n /\ units \o rest = inbox[c]
    <2>1. PICK q \in Seq(Units) : q = inbox[c]
      BY <1>7
    <2> QED BY <1>2, <1>10, <2>1, Cut
  <1>12. /\ o.state = "READING_HEADER" => Len(o.hdr) + Len(units) <= HeaderSize
         /\ o.state = "READING_PAYLOAD" => Len(o.pay) + Len(units) <= o.need
    <2>1. /\ o.state = "READING_HEADER" => want = HeaderSize - Len(o.hdr)
          /\ o.state = "READING_PAYLOAD" => want = o.need - Len(o.pay)
      BY <1>2
    <2>2. Len(units) \in Nat /\ Len(units) <= want
      BY <1>10, <1>11
    <2>3. Len(o.hdr) \in Nat /\ Len(o.pay) \in Nat /\ o.need \in Nat /\ HeaderSize \in Nat
      BY <1>9
    <2> QED BY <2>1, <2>2, <2>3
  <1>13. /\ k \in ConnectionType /\ k.client = c /\ k.hdr \in Seq(Units) /\ k.pay \in Seq(Units)
         /\ k.resp = <<>> /\ k.out = 0 /\ (Complete(k) => k.hdr # <<>>)
    <2>1. CASE o.state = "READING_HEADER"
      <3>1. k = ReadHeader(o, units) /\ Len(o.hdr) + Len(units) <= HeaderSize /\ o.client = c
        BY <1>2, <1>4, <1>12, <2>1, Zenon
      <3>2. /\ k \in ConnectionType /\ k.client = o.client /\ k.hdr \in Seq(Units) /\ k.pay \in Seq(Units)
            /\ k.resp = <<>> /\ k.out = 0 /\ (Complete(k) => k.hdr # <<>>)
        BY <1>7, <1>11, <2>1, <3>1, HeaderRead, Zenon
      <3> QED BY <3>1, <3>2, Zenon
    <2>2. CASE o.state = "READING_PAYLOAD"
      <3>1. k = ReadPayload(o, units) /\ Len(o.pay) + Len(units) <= o.need /\ o.client = c
        BY <1>2, <1>4, <1>12, <2>2, Zenon
      <3>2. /\ k \in ConnectionType /\ k.client = o.client /\ k.hdr \in Seq(Units) /\ k.pay \in Seq(Units)
            /\ k.resp = <<>> /\ k.out = 0 /\ (Complete(k) => k.hdr # <<>>)
        BY <1>7, <1>11, <2>2, <3>1, PayloadRead, Zenon
      <3> QED BY <3>1, <3>2, Zenon
    <2> QED BY <1>9, <2>1, <2>2
  <1>14. Serves(k, calls, replied[c], rest, next[c])
    <2>1. Serves(o, calls, replied[c], units \o rest, next[c])
      BY <1>8, <1>11
    <2>2. PICK p, w : p = next[c] /\ w = replied[c]
      OBVIOUS
    <2>3. o.client \in Clients
      BY <1>2, <1>7
    <2>4. Serves(k, calls, w, rest, p)
      BY <1>4, <1>6, <1>7, <1>11, <1>12, <2>1, <2>2, <2>3, TakenServes
    <2> QED BY <2>2, <2>4
  <1>15. CASE Complete(k)
    <2>1. /\ Serves(RunTask(k), more, replied[c], rest, next[c])
          /\ calls \in Seq(Done) /\ replied[c] = RepliesTo(calls)
          /\ Processes(k) => Len(calls) < Len(Whole(c)) /\ x = Whole(c)[Len(calls) + 1]
      <3>1. PICK p \in [req : Nat, pos : Nat], w \in Seq(Units) : p = next[c] /\ w = replied[c]
        BY <1>7, <1>8
      <3>2. more = IF Processes(k) THEN Append(calls, x) ELSE calls
        BY <1>2, <1>15
      <3>3. Sending(p) /\ Serves(k, calls, w, rest, p) /\ k.client \in Clients
        BY <1>7, <1>8, <1>13, <1>14, <3>1
      <3>4. x = [hdr |-> k.hdr, pay |-> k.pay]
        BY <1>2
      <3>5. Handles(k, calls, w, rest, p, x, more)
        BY <1>11, <1>13, <1>15, <3>2, <3>3, <3>4, TaskServes
      <3> QED BY <1>13, <3>1, <3>5 DEF Handles
    <2>2. after = RunTask(k) /\ RunTask(k).client = c
      <3>1. k.hdr # <<>> /\ k.client \in Clients
        BY <1>7, <1>13, <1>15
      <3>2. RunTask(k).client = k.client
        BY <1>13, <3>1, TaskIsSound
      <3> QED BY <1>4, <1>13, <1>15, <3>2
    <2>3. processed' = [processed EXCEPT ![c] = more]
      BY <1>2, <1>5, <1>7 DEF ServerInv, TypeOK
    <2>4. \/ more = calls
          \/ more = Append(calls, Whole(c)[Len(calls) + 1]) /\ Len(calls) < Len(Whole(c))
      BY <1>2, <2>1
    <2>5. ReadComesTo(s, c, after, more, rest)
      BY <1>2, <1>3, <1>5, <1>6, <2>1, <2>2, <2>3, <2>4, Zenon DEF ReadComesTo
    <2> QED BY <2>5
  <1>16. CASE ~Complete(k)
    <2>1. after = k /\ processed' = [processed EXCEPT ![c] = calls]
      BY <1>2, <1>4, <1>5, <1>7, <1>16 DEF ServerInv, TypeOK
    <2>2. ReadComesTo(s, c, after, calls, rest)
      BY <1>2, <1>3, <1>5, <1>6, <1>13, <1>14, <2>1, Zenon DEF ReadComesTo
    <2> QED BY <2>2
  <1> QED BY <1>15, <1>16

\* What a successful send() comes to: some more of the response is written.
WriteComesTo(s, c, k, written) ==
  /\ s \in InUse /\ c = conn[s].client /\ k.client = c /\ written \in Seq(Units)
  /\ Serves(k, processed[c], written, inbox[c], next[c])
  /\ conn' = [conn EXCEPT ![s] = k] /\ replied' = [replied EXCEPT ![c] = written]
  /\ UNCHANGED <<peer, accepted, inbox, next, processed>>
  /\ \E v \in Seq(Units) : RepliesTo(processed[c]) = replied[c] \o v
  /\ \E v \in Seq(Units) : RepliesTo(processed[c]) = written \o v
  /\ \E v \in Seq(Units) : written = replied[c] \o v

\* The case WRITE of run().
LEMMA WriteEffect ==
  ASSUME ServerInv, FrameInv, RunWrite
  PROVE  \/ UNCHANGED <<conn, peer, accepted, inbox, next, processed, replied>>
         \/ \E s, c, k, written : WriteComesTo(s, c, k, written)
  <1>1. PICK s : s = Head(evs).ctx
    OBVIOUS
  <1>2. PICK o, c, k, w : o = conn[s] /\ c = o.client /\ k = WriteResponse(o) /\ w = WriteSize(o)
    OBVIOUS
  <1>3. /\ Dispatching("WRITE") /\ UNCHANGED <<peer, accepted, inbox, next, processed>>
    BY DEF RunWrite
  <1>4. \/ w < 0 /\ UNCHANGED <<conn, replied>>
        \/ /\ w >= 0
           /\ replied' = [replied EXCEPT ![c] = replied[c] \o SubSeq(k.resp, o.out + 1, k.out)]
           /\ \/ k.out = Len(k.resp) /\ conn' = [conn EXCEPT ![s] = Flush(o)]
              \/ k.out # Len(k.resp) /\ conn' = [conn EXCEPT ![s] = k]
    BY <1>1, <1>2, Zenon DEF RunWrite
  <1>5. CASE w < 0 /\ UNCHANGED <<conn, replied>>
    BY <1>3, <1>5
  <1>6. CASE /\ w >= 0
             /\ replied' = [replied EXCEPT ![c] = replied[c] \o SubSeq(k.resp, o.out + 1, k.out)]
             /\ \/ k.out = Len(k.resp) /\ conn' = [conn EXCEPT ![s] = Flush(o)]
                \/ k.out # Len(k.resp) /\ conn' = [conn EXCEPT ![s] = k]
    <2>1. s \in InUse /\ o.state = "WRITING_RESPONSE"
      BY <1>1, <1>2, <1>3, FrontEvent
    <2>2. s \in SlotSet /\ c \in Clients /\ o \in ConnectionType /\ Sound(o)
      BY <1>2, <2>1, InUseFacts
    <2>3. replied[c] \in Seq(Units) /\ Serves(o, processed[c], replied[c], inbox[c], next[c])
      BY <1>2, <2>1, <2>2 DEF FrameInv
    <2>4. /\ o.resp \in Seq(Units) /\ o.out \in Nat /\ o.out <= Len(o.resp) /\ Len(o.resp) \in Nat
          /\ SendBuffer \in Nat /\ inflight[c] \in 0..SendBuffer
      BY <2>2, Constants DEF Sound, ConnectionType, ServerInv, TypeOK
    <2>5. w \in Nat /\ o.out + w <= Len(o.resp)
      <3>1. peer[c] # "reset"
        <4>1. peer[c] = "reset" => w = -1
          BY <1>2 DEF WriteSize
        <4> QED BY <1>6, <4>1
      <3>2. w = Min({Len(o.resp) - o.out, SendBuffer - inflight[c]})
        BY <1>2, <3>1 DEF WriteSize
      <3>3. PICK a \in Nat, b \in Nat : a = Len(o.resp) - o.out /\ b = SendBuffer - inflight[c]
        BY <2>4
      <3>4. w \in Nat /\ w <= a /\ w <= b
        BY <3>2, <3>3, Smaller
      <3> QED BY <2>4, <3>3, <3>4
    <2>6. k = [o EXCEPT !.out = o.out + w]
      <3>1. ~(WriteSize(o) < 0)
        BY <1>2, <2>5
      <3> QED BY <1>2, <3>1 DEF WriteResponse
    <2>7. k.resp = o.resp /\ k.client = c
      BY <1>2, <2>2, <2>6 DEF ConnectionType
    <2>8. PICK t, old, rest, p, calls :
            /\ t = old \o SubSeq(o.resp, o.out + 1, k.out) /\ old = replied[c] /\ rest = inbox[c]
            /\ p = next[c] /\ calls = processed[c]
      OBVIOUS
    <2>9. /\ t \in Seq(Units) /\ Serves(k, calls, t, rest, p)
          /\ k.out = Len(k.resp) => Serves(Flush(o), calls, t, rest, p)
          /\ \E v \in Seq(Units) : RepliesTo(calls) = old \o v
          /\ \E v \in Seq(Units) : RepliesTo(calls) = t \o v
          /\ \E v \in Seq(Units) : t = old \o v
      <3>1. old \in Seq(Units) /\ Serves(o, calls, old, rest, p) /\ t = old \o SubSeq(o.resp, o.out + 1, k.out)
        BY <2>3, <2>8
      <3>2. Writes(o, k, calls, old, t, rest, p)
        BY <2>1, <2>2, <2>5, <2>6, <3>1, WriteServes
      <3> QED BY <3>2, Zenon DEF Writes
    <2>10. replied' = [replied EXCEPT ![c] = t]
      BY <1>6, <2>7, <2>8
    <2>11. CASE k.out = Len(k.resp) /\ conn' = [conn EXCEPT ![s] = Flush(o)]
      <3>1. Flush(o).client = c
        BY <1>2, FlushFields
      <3>2. WriteComesTo(s, c, Flush(o), t)
        BY <1>2, <1>3, <2>1, <2>8, <2>9, <2>10, <2>11, <3>1, Zenon DEF WriteComesTo
      <3> QED BY <3>2
    <2>12. CASE conn' = [conn EXCEPT ![s] = k]
      <3>1. WriteComesTo(s, c, k, t)
        BY <1>2, <1>3, <2>1, <2>7, <2>8, <2>9, <2>10, <2>12, Zenon DEF WriteComesTo
      <3> QED BY <3>1
    <2> QED BY <1>6, <2>11, <2>12
  <1> QED BY <1>4, <1>5, <1>6

\* accept(): the connection starts with all its peer sent in the queue.
LEMMA AcceptFrame ==
  ASSUME ServerInv, FrameInv, RunAccept
  PROVE  FrameInv'
  <1>1. PICK c \in Queued :
          /\ accepted' = accepted \cup {c}
          /\ \/ Acquire(c)
             \/ conn' = conn
    BY Zenon DEF RunAccept
  <1>2. UNCHANGED <<inbox, next, processed, replied>>
    BY DEF RunAccept, histVars
  <1>3. c \in Clients /\ c \notin accepted /\ c # None
    BY Constants DEF Queued
  <1>4. /\ Sending(next[c]) /\ processed[c] = <<>> /\ replied[c] = <<>> /\ inbox[c] = SentBy(c, next[c])
        /\ next[c] \in [req : Nat, pos : Nat]
    BY <1>3 DEF FrameInv, ServerInv, TypeOK
  <1>5. ASSUME NEW d \in Clients \ accepted'
        PROVE  processed'[d] = <<>> /\ replied'[d] = <<>> /\ inbox'[d] = SentBy(d, next'[d])
    BY <1>1, <1>2 DEF FrameInv
  <1>6. ASSUME NEW d \in Clients PROVE Sending(next'[d]) /\ replied'[d] \in Seq(Units)
    BY <1>2 DEF FrameInv
  <1>7. ASSUME NEW t \in InUse, conn'[t] = conn[t]
        PROVE  Serves(conn'[t], processed'[conn'[t].client], replied'[conn'[t].client],
                      inbox'[conn'[t].client], next'[conn'[t].client])
    BY <1>2, <1>7 DEF FrameInv
  <1>8. CASE conn' = conn
    <2>1. InUse' = InUse
      BY <1>8 DEF InUse
    <2> QED BY <1>5, <1>6, <1>7, <1>8, <2>1 DEF FrameInv
  <1>9. CASE Acquire(c)
    <2>1. PICK s, k : s = Head(avail) /\ k = NewConnection(c)
      OBVIOUS
    <2>2. conn' = [conn EXCEPT ![s] = k] /\ avail # <<>>
      BY <1>9, <2>1 DEF Acquire
    <2>3. s \in SlotSet
      BY <2>1, <2>2 DEF ServerInv, TypeOK
    <2>4. k.client = c
      BY <2>1 DEF NewConnection
    <2>5. InUse' = InUse \cup {s} /\ conn'[s] = k /\ \A t \in SlotSet : t # s => conn'[t] = conn[t]
      BY <1>3, <2>2, <2>3, <2>4, Occupied DEF ServerInv
    <2>6. Serves(k, processed[c], replied[c], inbox[c], next[c])
      <3>1. PICK p \in [req : Nat, pos : Nat] : p = next[c]
        BY <1>4
      <3>2. Serves(k, <<>>, <<>>, SentBy(c, p), p)
        BY <1>3, <1>4, <2>1, <3>1, NewServes
      <3> QED BY <1>4, <3>1, <3>2
    <2>7. ASSUME NEW t \in InUse'
          PROVE  Serves(conn'[t], processed'[conn'[t].client], replied'[conn'[t].client],
                        inbox'[conn'[t].client], next'[conn'[t].client])
      <3>1. CASE t = s
        BY <1>2, <2>4, <2>5, <2>6, <3>1
      <3>2. CASE t # s
        <4>1. t \in InUse /\ conn'[t] = conn[t]
          BY <2>5, <3>2 DEF InUse
        <4> QED BY <1>7, <4>1
      <3> QED BY <3>1, <3>2
    <2> QED BY <1>5, <1>6, <2>7 DEF FrameInv
  <1> QED BY <1>1, <1>8, <1>9

\* disconnectClient() and release() end a connection and touch no other.
LEMMA DisconnectFrame ==
  ASSUME ServerInv, FrameInv, RunDisconnect
  PROVE  FrameInv'
  <1>1. PICK s : s = Head(evs).ctx
    OBVIOUS
  <1>2. /\ Dispatching("DISCONNECTED") /\ conn' = [conn EXCEPT ![s] = NoConnection]
        /\ UNCHANGED <<accepted, inbox, next, processed, replied>>
    BY <1>1 DEF RunDisconnect, Release, histVars
  <1>3. s \in SlotSet
    BY <1>1, <1>2, FrontEvent
  <1>4. InUse' = InUse \ {s} /\ \A t \in SlotSet : t # s => conn'[t] = conn[t]
    BY <1>2, <1>3, Vacated DEF ServerInv
  <1>5. \A t \in InUse' : t \in InUse /\ conn'[t] = conn[t]
    BY <1>4 DEF InUse
  <1> QED BY <1>2, <1>5 DEF FrameInv

\* A unit that arrives.
LEMMA SendFrame ==
  ASSUME ServerInv, FrameInv, NEW c \in Clients, PeerSend(c)
  PROVE  FrameInv'
  <1>1. PICK p, e, o : /\ p = next[c] /\ e = Unit(c, p.req, p.pos)
                       /\ o = IF p.pos < ReqSize(p.req) THEN [req |-> p.req, pos |-> p.pos + 1]
                              ELSE [req |-> p.req + 1, pos |-> 1]
    OBVIOUS
  <1>2. /\ p.req <= Len(Requests) /\ inbox' = [inbox EXCEPT ![c] = Append(inbox[c], e)]
        /\ next' = [next EXCEPT ![c] = o] /\ UNCHANGED <<conn, accepted, processed, replied>>
    BY <1>1 DEF PeerSend, runVars, histVars
  <1>3. p \in [req : Nat, pos : Nat] /\ Sending(p) /\ inbox[c] \in Seq(Units)
    BY <1>1 DEF FrameInv, ServerInv, TypeOK, Buffers
  <1>4. Sending(o) /\ e \in Units /\ SentBy(c, o) = Append(SentBy(c, p), e)
    BY <1>1, <1>2, <1>3, SentStep
  <1>5. /\ inbox'[c] = Append(inbox[c], e) /\ next'[c] = o
        /\ \A d \in Clients : d # c => inbox'[d] = inbox[d] /\ next'[d] = next[d]
    BY <1>2 DEF ServerInv, TypeOK
  <1>6. InUse' = InUse
    BY <1>2 DEF InUse
  <1>7. ASSUME NEW d \in Clients PROVE Sending(next'[d]) /\ replied'[d] \in Seq(Units)
    BY <1>2, <1>4, <1>5 DEF FrameInv
  <1>8. ASSUME NEW d \in Clients \ accepted'
        PROVE  processed'[d] = <<>> /\ replied'[d] = <<>> /\ inbox'[d] = SentBy(d, next'[d])
    <2>1. d \in Clients \ accepted
      BY <1>2
    <2>2. processed[d] = <<>> /\ replied[d] = <<>> /\ inbox[d] = SentBy(d, next[d])
      BY <2>1 DEF FrameInv
    <2> QED BY <1>1, <1>2, <1>4, <1>5, <2>2
  <1>9. ASSUME NEW s \in InUse
        PROVE  Serves(conn[s], processed[conn[s].client], replied[conn[s].client],
                      inbox'[conn[s].client], next'[conn[s].client])
    <2>1. PICK k, d : k = conn[s] /\ d = k.client
      OBVIOUS
    <2>2. Sound(k) /\ d \in Clients
      BY <2>1, InUseFacts
    <2>3. Serves(k, processed[d], replied[d], inbox[d], next[d])
      BY <2>1 DEF FrameInv
    <2>4. CASE d = c
      <3>1. PICK rest, calls, written : rest = inbox[c] /\ calls = processed[c] /\ written = replied[c]
        OBVIOUS
      <3>a. rest \in Seq(Units)
        BY <1>3, <3>1
      <3>2. Serves(k, calls, written, rest, p) /\ SentBy(k.client, o) = Append(SentBy(k.client, p), e)
        BY <1>1, <1>4, <2>1, <2>3, <2>4, <3>1
      <3>3. Serves(k, calls, written, Append(rest, e), o)
        BY <1>4, <2>1, <2>2, <3>a, <3>2, SendServes
      <3> QED BY <1>5, <2>1, <2>4, <3>1, <3>3
    <2>5. CASE d # c
      BY <1>5, <2>1, <2>2, <2>3, <2>5
    <2> QED BY <2>4, <2>5
  <1> QED BY <1>2, <1>6, <1>7, <1>8, <1>9 DEF FrameInv

------------------------------------------------------------------------------
(* The invariant holds *)

\* The steps that leave the connections and the streams alone.
LEMMA OtherFrame ==
  ASSUME \/ Open \/ CloseBegin \/ CloseJoin \/ RunCheck \/ RunPollFails \/ RunEndBatch \/ RunPoll
         \/ RunAcceptFails \/ RunSkip \/ UNCHANGED vars
         \/ \E c \in Clients : PeerConnect(c) \/ PeerReceive(c) \/ PeerHangup(c)
  PROVE  UNCHANGED <<conn, accepted, inbox, next, processed, replied>>
  BY DEF Open, CloseBegin, CloseJoin, RunCheck, RunPollFails, RunEndBatch, RunPoll, RunAcceptFails, RunSkip,
         PeerConnect, PeerReceive, PeerHangup, vars, srvVars, runVars, peerVars, histVars

\* Every step keeps the invariant.
LEMMA FrameStep ==
  ASSUME ServerInv, FrameInv, [Next]_vars
  PROVE  FrameInv'
  <1>1. CASE \/ Open \/ CloseBegin \/ CloseJoin \/ RunCheck \/ RunPollFails \/ RunEndBatch \/ RunPoll
             \/ RunAcceptFails \/ RunSkip \/ UNCHANGED vars
             \/ \E c \in Clients : PeerConnect(c) \/ PeerReceive(c) \/ PeerHangup(c)
    BY <1>1, OtherFrame, FrameKept
  <1>2. CASE \E c \in Clients : PeerSend(c)
    BY <1>2, SendFrame
  <1>3. CASE RunAccept
    BY <1>3, AcceptFrame
  <1>4. CASE RunDisconnect
    BY <1>4, DisconnectFrame
  <1>5. CASE RunRead
    <2>1. PICK s, c, k, calls, rest : ReadComesTo(s, c, k, calls, rest)
      BY <1>5, ReadEffect
    <2>2. /\ s \in InUse /\ c = conn[s].client /\ k.client = c
          /\ Serves(k, calls, replied[c], rest, next[c])
          /\ conn' = [conn EXCEPT ![s] = k] /\ processed' = [processed EXCEPT ![c] = calls]
          /\ inbox' = [inbox EXCEPT ![c] = rest] /\ UNCHANGED <<accepted, next, replied>>
      BY <2>1, Zenon DEF ReadComesTo
    <2>3. c \in Clients /\ replied[c] \in Seq(Units)
      BY <2>2, InUseFacts DEF FrameInv
    <2>4. PICK w \in Seq(Units) : w = replied[c]
      BY <2>3
    <2>5. replied' = [replied EXCEPT ![c] = w] /\ Serves(k, calls, w, rest, next[c])
      BY <2>2, <2>3, <2>4 DEF ServerInv, TypeOK
    <2> QED BY <2>2, <2>5, OneConnection
  <1>6. CASE RunWrite
    <2>1. CASE UNCHANGED <<conn, peer, accepted, inbox, next, processed, replied>>
      BY <2>1, FrameKept
    <2>2. CASE \E s, c, k, written : WriteComesTo(s, c, k, written)
      <3>1. PICK s, c, k, written : WriteComesTo(s, c, k, written)
        BY <2>2
      <3>2. /\ s \in InUse /\ c = conn[s].client /\ k.client = c /\ written \in Seq(Units)
            /\ Serves(k, processed[c], written, inbox[c], next[c])
            /\ conn' = [conn EXCEPT ![s] = k] /\ replied' = [replied EXCEPT ![c] = written]
            /\ UNCHANGED <<accepted, inbox, next, processed>>
        BY <3>1, Zenon DEF WriteComesTo
      <3>3. c \in Clients
        BY <3>2, InUseFacts
      <3>4. PICK calls, rest : calls = processed[c] /\ rest = inbox[c]
        OBVIOUS
      <3>5. processed' = [processed EXCEPT ![c] = calls] /\ inbox' = [inbox EXCEPT ![c] = rest]
        BY <3>2, <3>3, <3>4 DEF ServerInv, TypeOK
      <3>6. Serves(k, calls, written, rest, next[c])
        BY <3>2, <3>4
      <3> QED BY <3>2, <3>5, <3>6, OneConnection
    <2> QED BY <1>6, <2>1, <2>2, WriteEffect
  <1> QED BY <1>1, <1>2, <1>3, <1>4, <1>5, <1>6 DEF Next, RunStep, PeerStep

\* At the start nothing was sent, handled or written.
LEMMA FrameInit ==
  ASSUME Init
  PROVE  FrameInv
  <1>1. InUse = {}
    BY DEF Init, InUse
  <1>2. PICK p : p = [req |-> 1, pos |-> 1]
    OBVIOUS
  <1>3. p.req = 1 /\ p.pos = 1 /\ Len(Requests) \in Nat
    BY <1>2, Constants
  <1>4. Sending(p)
    <2>1. Len(Requests) = 0 \/ 1 \in 1..Len(Requests)
      BY <1>3
    <2>2. 1 \in 1..Len(Requests) => 1 \in 1..ReqSize(1)
      <3>1. 1 \in 1..Len(Requests) => Requests[1].payload \in Nat /\ HeaderSize \in Nat /\ HeaderSize > 0
        BY Constants
      <3> QED BY <3>1 DEF ReqSize
    <2> QED BY <1>3, <2>1, <2>2 DEF Sending
  <1>5. ASSUME NEW c \in Clients PROVE SentBy(c, p) = <<>>
    <2>1. StreamOf(c, 0) = <<>>
      BY StreamStep
    <2>2. \A y : SubSeq(y, 1, 0) = <<>>
      OBVIOUS
    <2>3. p.req - 1 = 0 /\ p.pos - 1 = 0 /\ <<>> \o <<>> = <<>>
      BY <1>3
    <2> QED BY <2>1, <2>2, <2>3 DEF SentBy
  <1>6. ASSUME NEW c \in Clients
        PROVE  next[c] = p /\ processed[c] = <<>> /\ replied[c] = <<>> /\ inbox[c] = <<>>
    BY <1>2 DEF Init
  <1>7. <<>> \in Seq(Units)
    BY EmptySeq
  <1> QED BY <1>1, <1>4, <1>5, <1>6, <1>7 DEF FrameInv

\* The invariant that ties the stream of every peer to the buffers of its
\* connection, the handler's calls and the units written holds in every
\* reachable state.
THEOREM FramingInvariant == Spec => [](ServerInv /\ FrameInv)
  <1>1. Init => ServerInv /\ FrameInv
    BY InitEstablishes, FrameInit
  <1>2. ServerInv /\ FrameInv /\ [Next]_vars => ServerInv' /\ FrameInv'
    BY StepPreserves, FrameStep
  <1> QED BY <1>1, <1>2, PTL DEF Spec

\* Partial writes neither lose, repeat nor mix responses, for every number of
\* connections, every sequence of requests, every size and every send buffer.
THEOREM ResponsesAreExact == Spec => []ResponsesExact
  <1>1. ASSUME FrameInv, NEW s \in InUse
        PROVE  replied[conn[s].client] \o SubSeq(conn[s].resp, conn[s].out + 1, Len(conn[s].resp))
                 = RepliesTo(processed[conn[s].client])
    BY <1>1, Zenon DEF FrameInv, Serves
  <1>2. FrameInv => ResponsesExact
    BY <1>1, Zenon DEF ResponsesExact
  <1> QED BY <1>2, FramingInvariant, PTL

\* Without SLOW requests every request leads to a call.
LEMMA AllCalled ==
  ASSUME \A r \in 1..Len(Requests) : Requests[r].mode # "SLOW",
         NEW c \in Clients, NEW n \in 0..Len(Requests)
  PROVE  UnitsOf(CallsOf(c, n)) = StreamOf(c, n)
  <1> DEFINE F(i) == [r \in 1..i |-> RequestOf(c, r)]
             I == {i \in Nat : i \in 0..Len(Requests) => CallsOf(c, i) = F(i)}
  <1>1. Len(Requests) \in Nat
    BY Constants
  <1>2. 0 \in I
    <2>1. CallsOf(c, 0) = <<>>
      BY CallsStep
    <2>2. F(0) = <<>>
      OBVIOUS
    <2> HIDE DEF F
    <2> QED BY <2>1, <2>2
  <1>3. ASSUME NEW i \in I PROVE i + 1 \in I
    <2>0. i \in Nat /\ i + 1 \in Nat
      OBVIOUS
    <2>1. SUFFICES ASSUME i + 1 \in 0..Len(Requests) PROVE CallsOf(c, i + 1) = F(i + 1)
      BY <2>0, Zenon
    <2>2. i \in 0..(Len(Requests) - 1) /\ i + 1 \in 1..Len(Requests) /\ i \in 0..Len(Requests)
      BY <1>1, <2>0, <2>1
    <2>3. CallsOf(c, i) = F(i)
      BY <1>3, <2>2
    <2>4. CallsOf(c, i + 1) = CallsOf(c, i) \o <<RequestOf(c, i + 1)>>
      BY <2>2, CallsStep
    <2>5. \A r \in 1..Len(Requests) : RequestOf(c, r) \in Done
      BY RequestUnits
    <2> HIDE DEF Done
    <2>6. F(i) \in [1..i -> Done] /\ F(i + 1) \in [1..(i + 1) -> Done] /\ \A r \in 1..i : F(i + 1)[r] = F(i)[r]
      <3>1. (\A r \in 1..i : r \in 1..Len(Requests)) /\ (\A r \in 1..(i + 1) : r \in 1..Len(Requests))
            /\ \A r \in 1..i : r \in 1..(i + 1)
        BY <1>1, <2>0, <2>2
      <3> QED BY <2>5, <3>1
    <2>7. F(i + 1)[i + 1] = RequestOf(c, i + 1)
      BY <2>0
    <2> HIDE DEF F
    <2>8. F(i + 1) = Append(F(i), F(i + 1)[i + 1]) /\ F(i + 1)[i + 1] \in Done
      BY <2>0, <2>6, FunctionIsAppend
    <2>9. F(i) \in Seq(Done)
      BY <2>0, <2>6, FunctionIsSeq
    <2>10. Append(F(i), F(i + 1)[i + 1]) = F(i) \o <<F(i + 1)[i + 1]>>
      BY <2>8, <2>9, AppendIsConcat
    <2> QED BY <2>3, <2>4, <2>7, <2>8, <2>10
  <1>4. \A i \in Nat : i \in I
    <2>1. I \in SUBSET Nat
      OBVIOUS
    <2> HIDE DEF I
    <2> QED BY <1>2, <1>3, <2>1, SetInduction, Zenon
  <1>5. CallsOf(c, n) = F(n)
    BY <1>1, <1>4
  <1> QED BY <1>5, Zenon DEF StreamOf

\* What a peer sent is what the handler was given, what the buffers hold of an
\* unfinished request, and what is still to be read.  A SLOW request is consumed
\* without a call of the handler, so the streams have none.
THEOREM NoneIsSkipped ==
  ASSUME \A r \in 1..Len(Requests) : Requests[r].mode # "SLOW"
  PROVE  Spec => []NoRequestSkipped
  <1>1. ASSUME ServerInv, FrameInv, NEW s \in InUse
        PROVE  LET k == conn[s]
                   held == IF k.state = "WRITING_RESPONSE" THEN <<>> ELSE k.hdr \o k.pay
               IN  UnitsOf(processed[k.client]) \o held \o inbox[k.client] = Sent(k.client)
    <2>1. PICK k, c, q, rest, p, calls :
            /\ k = conn[s] /\ c = k.client /\ q = Partial(k) /\ rest = inbox[c] /\ p = next[c]
            /\ calls = processed[c]
      OBVIOUS
    <2>2. Sound(k) /\ c \in Clients /\ rest \in Seq(Units)
      BY <1>1, <2>1, InUseFacts
    <2>3. Serves(k, calls, replied[c], rest, p)
      BY <1>1, <2>1 DEF FrameInv
    <2>4. PICK n \in 0..Len(Requests) : calls = CallsOf(c, n) /\ StreamOf(c, n) \o (q \o rest) = SentBy(c, p)
      BY <2>1, <2>3, Zenon DEF Serves
    <2>5. PICK a : a = StreamOf(c, n)
      OBVIOUS
    <2>6. a \in Seq(Units) /\ q \in Seq(Units) /\ rest \in Seq(Units)
      BY <2>1, <2>2, <2>5, PartialUnits, StreamStep
    <2>7. (a \o q) \o rest = a \o (q \o rest)
      BY <2>6, Associated, Zenon
    <2>8. UnitsOf(calls) = a
      BY <2>2, <2>4, <2>5, AllCalled
    <2>9. Sent(c) = SentBy(c, p)
      BY <2>1 DEF Sent, SentBy
    <2>10. (UnitsOf(calls) \o q) \o rest = Sent(c)
      BY <2>4, <2>5, <2>7, <2>8, <2>9
    <2> QED BY <2>1, <2>10 DEF Partial
  <1>2. ServerInv /\ FrameInv => NoRequestSkipped
    BY <1>1, Zenon DEF NoRequestSkipped
  <1> QED BY <1>2, FramingInvariant, PTL

------------------------------------------------------------------------------
(* The server implements the service *)

\* The front part of a concatenation.
LEMMA FrontPart ==
  ASSUME NEW a \in Seq(Units), NEW b \in Seq(Units)
  PROVE  SubSeq(a \o b, 1, Len(a)) = a
  <1>1. PICK z : z = a \o b
    OBVIOUS
  <1>2. z \in Seq(Units) /\ Len(z) = Len(a) + Len(b) /\ Len(a) \in Nat /\ Len(b) \in Nat
    BY <1>1, Joined
  <1>3. \A i \in 1..Len(a) : z[i] = a[i]
    BY <1>1, ConcatProperties
  <1>4. PICK y : y = SubSeq(z, 1, Len(a))
    OBVIOUS
  <1>5. y \in Seq(Units) /\ Len(y) = Len(a) /\ \A i \in 1..Len(a) : y[i] = z[i]
    BY <1>2, <1>4
  <1>6. y = a
    BY <1>3, <1>5, SeqEqual
  <1> QED BY <1>1, <1>4, <1>6

\* The links of a step that accepts no client and closes none that was
\* accepted.
LEMMA LinksKept ==
  ASSUME accepted' = accepted, \A c \in accepted : peer'[c] = "closed" <=> peer[c] = "closed"
  PROVE  [c \in Clients |-> Link(c)]' = [c \in Clients |-> Link(c)]
  <1>1. ASSUME NEW c \in Clients PROVE Link(c)' = Link(c)
    <2>1. CASE c \in accepted
      BY <2>1 DEF Link
    <2>2. CASE c \notin accepted
      BY <2>2 DEF Link
    <2> QED BY <2>1, <2>2
  <1> QED BY <1>1

\* A step that changes the link of one client.
LEMMA LinkChanged ==
  ASSUME NEW c \in Clients, NEW l, Link(c)' = l, \A d \in Clients : d # c => Link(d)' = Link(d)
  PROVE  [d \in Clients |-> Link(d)]' = [[d \in Clients |-> Link(d)] EXCEPT ![c] = l]
  OBVIOUS

\* The steps the service does not see.
LEMMA OtherService ==
  ASSUME ServerInv,
         \/ Open \/ CloseBegin \/ CloseJoin \/ RunCheck \/ RunPollFails \/ RunEndBatch \/ RunPoll
         \/ RunAcceptFails \/ RunSkip \/ UNCHANGED vars
         \/ \E c \in Clients : PeerConnect(c) \/ PeerReceive(c) \/ PeerHangup(c)
         \/ \E c \in Clients : PeerSend(c)
  PROVE  UNCHANGED Service!svcVars
  <1>1. UNCHANGED <<accepted, processed, replied>>
    <2>1. CASE \E c \in Clients : PeerSend(c)
      BY <2>1 DEF PeerSend, histVars
    <2> QED BY <2>1, OtherFrame
  <1>2. \A c \in accepted : c \in Clients
    BY DEF ServerInv, TypeOK
  <1>3. \A c \in accepted : peer'[c] = "closed" <=> peer[c] = "closed"
    <2>1. CASE CloseJoin
      <3>1. \A c \in Clients : c \in accepted => peer'[c] = peer[c]
        BY <2>1 DEF CloseJoin, Queued
      <3> QED BY <1>2, <3>1
    <2>2. CASE \E c \in Clients : PeerConnect(c) \/ PeerHangup(c)
      <3>1. PICK c \in Clients, l \in {"up", "fin", "reset"} :
              peer[c] # "closed" /\ peer' = [peer EXCEPT ![c] = l]
        BY <2>2 DEF PeerConnect, PeerHangup
      <3>2. peer'[c] # "closed" /\ \A d \in Clients : d # c => peer'[d] = peer[d]
        BY <3>1 DEF ServerInv, TypeOK
      <3> QED BY <1>2, <3>1, <3>2
    <2>3. CASE peer' = peer
      BY <2>3
    <2>4. \/ CloseJoin \/ (\E c \in Clients : PeerConnect(c) \/ PeerHangup(c)) \/ peer' = peer
      BY DEF Open, CloseBegin, RunCheck, RunPollFails, RunEndBatch, RunPoll, RunAcceptFails, RunSkip,
             PeerReceive, PeerSend, vars, srvVars, runVars, peerVars, histVars
    <2> QED BY <2>1, <2>2, <2>3, <2>4
  <1>4. [c \in Clients |-> Link(c)]' = [c \in Clients |-> Link(c)]
    BY <1>1, <1>3, LinksKept
  <1> QED BY <1>1, <1>4 DEF Service!svcVars

\* accept() opens the link.
LEMMA AcceptService ==
  ASSUME ServerInv, RunAccept
  PROVE  \E c \in Clients : Service!Connect(c)
  <1>1. PICK c \in Queued : accepted' = accepted \cup {c}
    BY DEF RunAccept
  <1>2. UNCHANGED <<peer, processed, replied>> /\ c \in Clients /\ c \notin accepted /\ peer[c] # "closed"
    BY <1>1 DEF RunAccept, histVars, Queued
  <1>3. Link(c) = "none" /\ Link(c)' = "open"
    BY <1>1, <1>2 DEF Link
  <1>4. \A d \in Clients : d # c => Link(d)' = Link(d)
    BY <1>1, <1>2 DEF Link
  <1>5. [d \in Clients |-> Link(d)]' = [[d \in Clients |-> Link(d)] EXCEPT ![c] = "open"]
    BY <1>2, <1>3, <1>4, LinkChanged
  <1> QED BY <1>2, <1>3, <1>5 DEF Service!Connect

\* disconnectClient() closes it.
LEMMA DisconnectService ==
  ASSUME ServerInv, RunDisconnect
  PROVE  \E c \in Clients : Service!Disconnect(c)
  <1>1. PICK s, c : s = Head(evs).ctx /\ c = conn[s].client
    OBVIOUS
  <1>2. /\ Dispatching("DISCONNECTED") /\ peer' = [peer EXCEPT ![c] = "closed"]
        /\ UNCHANGED <<accepted, processed, replied>>
    BY <1>1 DEF RunDisconnect, DisconnectClient, histVars
  <1>3. s \in InUse
    BY <1>1, <1>2, FrontEvent
  <1>4. c \in Clients /\ c \in accepted /\ c \in Held
    BY <1>1, <1>3, InUseFacts
  <1>5. /\ peer[c] # "closed" /\ peer'[c] = "closed"
        /\ \A d \in Clients : d # c => peer'[d] = peer[d]
    BY <1>2, <1>4 DEF ServerInv, TypeOK, Held
  <1>6. Link(c) = "open" /\ Link(c)' = "closed"
    BY <1>2, <1>4, <1>5 DEF Link
  <1>7. \A d \in Clients : d # c => Link(d)' = Link(d)
    BY <1>2, <1>5 DEF Link
  <1>8. [d \in Clients |-> Link(d)]' = [[d \in Clients |-> Link(d)] EXCEPT ![c] = "closed"]
    BY <1>4, <1>6, <1>7, LinkChanged
  <1> QED BY <1>2, <1>4, <1>6, <1>8 DEF Service!Disconnect

\* A read hands the handler the next request, or nothing.
LEMMA ReadService ==
  ASSUME ServerInv, FrameInv, RunRead
  PROVE  (\E c \in Clients : Service!Handle(c)) \/ UNCHANGED Service!svcVars
  <1>1. PICK s, c, k, calls, rest : ReadComesTo(s, c, k, calls, rest)
    BY ReadEffect
  <1>2. /\ s \in InUse /\ c = conn[s].client /\ processed' = [processed EXCEPT ![c] = calls]
        /\ UNCHANGED <<peer, accepted, replied>>
        /\ \/ calls = processed[c]
           \/ /\ replied[c] = RepliesTo(processed[c]) /\ Len(processed[c]) < Len(Whole(c))
              /\ calls = Append(processed[c], Whole(c)[Len(processed[c]) + 1])
    BY <1>1, Zenon DEF ReadComesTo
  <1>3. c \in Clients /\ c \in accepted /\ c \in Held
    BY <1>2, InUseFacts
  <1>4. [d \in Clients |-> Link(d)]' = [d \in Clients |-> Link(d)]
    BY <1>2, LinksKept
  <1>5. Link(c) = "open"
    BY <1>3 DEF Link, Held
  <1>6. CASE calls = processed[c]
    <2>1. processed' = processed
      BY <1>2, <1>3, <1>6 DEF ServerInv, TypeOK
    <2> QED BY <1>2, <1>4, <2>1 DEF Service!svcVars
  <1>7. CASE /\ replied[c] = RepliesTo(processed[c]) /\ Len(processed[c]) < Len(Whole(c))
             /\ calls = Append(processed[c], Whole(c)[Len(processed[c]) + 1])
    <2>1. Service!Handle(c)
      BY <1>2, <1>3, <1>4, <1>5, <1>7 DEF Service!Handle
    <2> QED BY <1>3, <2>1
  <1> QED BY <1>2, <1>6, <1>7

\* A write puts out the next units of the responses, or nothing.
LEMMA WriteService ==
  ASSUME ServerInv, FrameInv, RunWrite
  PROVE  (\E c \in Clients : Service!Reply(c)) \/ UNCHANGED Service!svcVars
  <1>1. CASE UNCHANGED <<conn, peer, accepted, inbox, next, processed, replied>>
    <2>1. [d \in Clients |-> Link(d)]' = [d \in Clients |-> Link(d)]
      BY <1>1, LinksKept
    <2> QED BY <1>1, <2>1 DEF Service!svcVars
  <1>2. ASSUME NEW s, NEW c, NEW k, NEW written, WriteComesTo(s, c, k, written)
        PROVE  (\E d \in Clients : Service!Reply(d)) \/ UNCHANGED Service!svcVars
    <2>1. /\ s \in InUse /\ c = conn[s].client /\ written \in Seq(Units)
          /\ replied' = [replied EXCEPT ![c] = written] /\ UNCHANGED <<peer, accepted, processed>>
          /\ \E v \in Seq(Units) : RepliesTo(processed[c]) = replied[c] \o v
          /\ \E v \in Seq(Units) : RepliesTo(processed[c]) = written \o v
          /\ \E v \in Seq(Units) : written = replied[c] \o v
      BY <1>2, Zenon DEF WriteComesTo
    <2>2. c \in Clients /\ c \in accepted /\ c \in Held
      BY <2>1, InUseFacts
    <2>3. [d \in Clients |-> Link(d)]' = [d \in Clients |-> Link(d)]
      BY <2>1, LinksKept
    <2>4. Link(c) = "open"
      BY <2>2 DEF Link, Held
    <2>5. PICK all, before : all = RepliesTo(processed[c]) /\ before = replied[c]
      OBVIOUS
    <2>6. before \in Seq(Units)
      BY <2>2, <2>5, SMTT(30) DEF FrameInv
    <2>7. PICK u \in Seq(Units) : all = before \o u
      BY <2>1, <2>5
    <2>8. PICK v \in Seq(Units) : all = written \o v
      BY <2>1, <2>5
    <2>9. PICK w \in Seq(Units) : written = before \o w
      BY <2>1, <2>5
    <2>10. SubSeq(all, 1, Len(before)) = before
      BY <2>6, <2>7, FrontPart
    <2>11. SubSeq(all, 1, Len(written)) = written
      BY <2>1, <2>8, FrontPart
    <2>12. Len(all) = Len(written) + Len(v) /\ Len(written) = Len(before) + Len(w)
      BY <2>1, <2>6, <2>8, <2>9, Joined
    <2>13. Len(before) \in Nat /\ Len(v) \in Nat /\ Len(w) \in Nat /\ Len(written) \in Nat
      BY <2>1, <2>6, SMTT(30)
    <2>14. CASE Len(w) = 0
      <3>1. w = <<>>
        BY <2>14
      <3>2. written = before
        BY <2>6, <2>9, <3>1
      <3>3. replied' = replied
        BY <2>1, <2>2, <2>5, <3>2 DEF ServerInv, TypeOK
      <3> QED BY <2>1, <2>3, <3>3 DEF Service!svcVars
    <2>15. CASE Len(w) # 0
      <3>1. PICK n \in Len(before) + 1..Len(all) : n = Len(written)
        BY <2>12, <2>13, <2>15, SMTT(30)
      <3>2. replied' = [replied EXCEPT ![c] = SubSeq(all, 1, n)]
        BY <2>1, <2>11, <3>1
      <3>3. Service!Reply(c)
        BY <2>1, <2>3, <2>4, <2>2, <2>5, <2>10, <3>1, <3>2 DEF Service!Reply
      <3> QED BY <2>2, <3>3
    <2> QED BY <2>14, <2>15
  <1> QED BY <1>1, <1>2, WriteEffect

\* Every step of the server is a step of the service or leaves it alone.
LEMMA ServiceStep ==
  ASSUME ServerInv, FrameInv, [Next]_vars
  PROVE  [Service!Next]_(Service!svcVars)
  <1>1. CASE \/ Open \/ CloseBegin \/ CloseJoin \/ RunCheck \/ RunPollFails \/ RunEndBatch \/ RunPoll
             \/ RunAcceptFails \/ RunSkip \/ UNCHANGED vars
             \/ \E c \in Clients : PeerConnect(c) \/ PeerReceive(c) \/ PeerHangup(c)
             \/ \E c \in Clients : PeerSend(c)
    BY <1>1, OtherService
  <1>2. CASE RunAccept
    BY <1>2, AcceptService DEF Service!Next
  <1>3. CASE RunDisconnect
    BY <1>3, DisconnectService DEF Service!Next
  <1>4. CASE RunRead
    BY <1>4, ReadService DEF Service!Next
  <1>5. CASE RunWrite
    BY <1>5, WriteService DEF Service!Next
  <1> QED BY <1>1, <1>2, <1>3, <1>4, <1>5 DEF Next, RunStep, PeerStep

\* The request server implements the service, for every number of clients and
\* pool objects, every stream of requests in every mode, every size of header,
\* payload, response and send buffer and every number of calls of open(): the
\* handler is given exactly the requests a peer sent, whole, once and in order,
\* the next only after the last unit of the response before it, and the units
\* written are those of the responses.
THEOREM ServerImplementsService == Spec => RefinesService
  <1>1. Init => Service!Init
    <2> SUFFICES ASSUME Init PROVE Service!Init
      OBVIOUS
    <2>1. \A c \in Clients : Link(c) = "none"
      BY DEF Init, Link
    <2>2. processed = [c \in Clients |-> <<>>] /\ replied = [c \in Clients |-> <<>>]
      BY DEF Init
    <2> QED BY <2>1, <2>2 DEF Service!Init
  <1>2. ServerInv /\ FrameInv /\ [Next]_vars => [Service!Next]_(Service!svcVars)
    BY ServiceStep
  <1> QED BY <1>1, <1>2, FramingInvariant, PTL DEF Spec, RefinesService, Service!Spec
==============================================================================
