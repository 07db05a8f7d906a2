----------------------------- MODULE Mux_proofs -----------------------------
(***************************************************************************)
(* Proofs about Mux, for any calls, bodies, statuses and connections: its  *)
(* types, and that the frames of different calls never mix.                *)
(***************************************************************************)
EXTENDS Mux, TLAPS

(***************************************************************************)
(* Flows.  Numbered frames in a queue that many calls share: a first frame, *)
(* chunks numbered one by one and a last frame, as both directions of the  *)
(* multiplexer send them (internal/proxy/mux.go executeMux, runtime.js     *)
(* muxFetch).  A flow says what of them a queue may hold when the reader   *)
(* has taken the chunks up to lo and the writer has made those up to hi.   *)
(***************************************************************************)
\* A frame of call `of`, of some kind, with number n.
Framed(S) == \A fr \in S : fr.n \in Nat

Is(fr, f, k) == fr.of = f /\ fr.kind = k
Has(q, f, k) == \E i \in DOMAIN q : Is(q[i], f, k)
HasChunk(q, f, K, n) == \E i \in DOMAIN q : Is(q[i], f, K.chunk) /\ q[i].n = n

\* The chunks in the queue are not yet taken, in order, without a gap below any.
Numbered(q, f, K, lo, hi) ==
    \A i \in DOMAIN q : Is(q[i], f, K.chunk) =>
        /\ lo < q[i].n /\ q[i].n <= hi
        /\ \A j \in DOMAIN q : Is(q[j], f, K.chunk) /\ i < j => q[i].n < q[j].n
        /\ \A n \in Nat : lo < n /\ n < q[i].n => HasChunk(q, f, K, n)

\* While the writer is connected, and once the last frame is in, none is missing.
Whole(q, f, K, lo, hi, live) ==
    live \/ Has(q, f, K.last) =>
        \A n \in Nat : lo < n /\ n <= hi => HasChunk(q, f, K, n)

\* The first frame comes first and the last frame last.
FirstFirst(q, f, K, opened) ==
    /\ \A i \in DOMAIN q : Is(q[i], f, K.first) =>
          /\ ~opened
          /\ \A j \in DOMAIN q : Is(q[j], f, K.chunk) \/ Is(q[j], f, K.last) => i < j
          /\ \A j \in DOMAIN q : Is(q[j], f, K.first) => i = j
    /\ ~opened /\ (\E n \in Nat : HasChunk(q, f, K, n)) => Has(q, f, K.first)
    /\ ~opened /\ Has(q, f, K.last) => Has(q, f, K.first)
LastLast(q, f, K) ==
    \A i \in DOMAIN q : Is(q[i], f, K.last) =>
        \A j \in DOMAIN q : Is(q[j], f, K.chunk) => j < i

Flow(q, f, K, lo, hi, live, opened) ==
    /\ Numbered(q, f, K, lo, hi)
    /\ Whole(q, f, K, lo, hi, live)
    /\ FirstFirst(q, f, K, opened)
    /\ LastLast(q, f, K)

Relevant(fr, f, K) == fr.of = f /\ fr.kind \in {K.first, K.chunk, K.last}

\* The three kinds differ.
Distinct(K) == K.first # K.chunk /\ K.first # K.last /\ K.chunk # K.last

----------------------------------------------------------------------------
(* The reader takes the first frame of the queue.                          *)

\* What is left in a queue is what was behind its head.
LEMMA TailHas ==
  ASSUME NEW S, NEW q \in Seq(S), q # <<>>, NEW f, NEW k, NEW K, NEW n
  PROVE  /\ Tail(q) \in Seq(S)
         /\ DOMAIN Tail(q) = 1..(Len(q) - 1)
         /\ \A i \in DOMAIN Tail(q) : i + 1 \in DOMAIN q /\ Tail(q)[i] = q[i + 1]
         /\ Has(Tail(q), f, k) => Has(q, f, k)
         /\ HasChunk(Tail(q), f, K, n) => HasChunk(q, f, K, n)
         /\ Has(q, f, k) /\ ~Is(q[1], f, k) => Has(Tail(q), f, k)
         /\ HasChunk(q, f, K, n) /\ ~(Is(q[1], f, K.chunk) /\ q[1].n = n) => HasChunk(Tail(q), f, K, n)
<1>1. /\ Tail(q) \in Seq(S) /\ DOMAIN Tail(q) = 1..(Len(q) - 1)
      /\ \A i \in DOMAIN Tail(q) : i + 1 \in DOMAIN q /\ Tail(q)[i] = q[i + 1]
  OBVIOUS
<1>2. Has(Tail(q), f, k) => Has(q, f, k)
  BY <1>1 DEF Has
<1>3. HasChunk(Tail(q), f, K, n) => HasChunk(q, f, K, n)
  BY <1>1 DEF HasChunk
<1>4. \A i \in DOMAIN q : i # 1 => i - 1 \in DOMAIN Tail(q) /\ Tail(q)[i - 1] = q[i]
  OBVIOUS
<1>5. Has(q, f, k) /\ ~Is(q[1], f, k) => Has(Tail(q), f, k)
  BY <1>4 DEF Has
<1>6. HasChunk(q, f, K, n) /\ ~(Is(q[1], f, K.chunk) /\ q[1].n = n) => HasChunk(Tail(q), f, K, n)
  BY <1>4 DEF HasChunk
<1> QED
  BY <1>1, <1>2, <1>3, <1>5, <1>6

\* What is left of numbered chunks is numbered, from any point below the rest.
LEMMA TailNumbered ==
  ASSUME NEW S, NEW q \in Seq(S), q # <<>>, NEW f, NEW K,
         NEW lo \in Nat, NEW above \in Nat, NEW hi \in Nat, lo <= above,
         Numbered(q, f, K, lo, hi),
         \A i \in DOMAIN q : i # 1 /\ Is(q[i], f, K.chunk) => above < q[i].n,
         \A n \in Nat : above < n /\ HasChunk(q, f, K, n) => HasChunk(Tail(q), f, K, n)
  PROVE  Numbered(Tail(q), f, K, above, hi)
<1> DEFINE t == Tail(q)
<1>1. \A i \in DOMAIN t : i + 1 \in DOMAIN q /\ t[i] = q[i + 1] /\ i + 1 # 1 /\ i \in Nat
  BY TailHas
<1>2. \A n \in Nat : above < n /\ HasChunk(q, f, K, n) => HasChunk(t, f, K, n)
  OBVIOUS
<1> HIDE DEF t
<1> SUFFICES ASSUME NEW i \in DOMAIN t, Is(t[i], f, K.chunk)
             PROVE  /\ above < t[i].n /\ t[i].n <= hi
                    /\ \A j \in DOMAIN t : Is(t[j], f, K.chunk) /\ i < j => t[i].n < t[j].n
                    /\ \A n \in Nat : above < n /\ n < t[i].n => HasChunk(t, f, K, n)
  BY DEF Numbered, t
<1>3. above < t[i].n /\ t[i].n <= hi
  BY <1>1 DEF Numbered
<1>4. ASSUME NEW j \in DOMAIN t, Is(t[j], f, K.chunk), i < j PROVE t[i].n < t[j].n
  <2>1. /\ i + 1 \in DOMAIN q /\ t[i] = q[i + 1]
        /\ j + 1 \in DOMAIN q /\ t[j] = q[j + 1] /\ i + 1 < j + 1
    BY <1>1, <1>4
  <2> QED
    BY <1>4, <2>1 DEF Numbered
<1>5. ASSUME NEW n \in Nat, above < n, n < t[i].n PROVE HasChunk(t, f, K, n)
  <2>1. lo < n
    BY <1>5
  <2>2. HasChunk(q, f, K, n)
    BY <1>1, <1>5, <2>1 DEF Numbered
  <2> QED
    BY <1>2, <1>5, <2>2
<1> QED
  BY <1>3, <1>4, <1>5

\* Taking a frame of another call changes nothing for this one.
LEMMA FlowTailOther ==
  ASSUME NEW S, Framed(S), NEW q \in Seq(S), q # <<>>, NEW f, NEW K,
         NEW lo \in Nat, NEW hi \in Nat, NEW live \in BOOLEAN, NEW opened \in BOOLEAN,
         Flow(q, f, K, lo, hi, live, opened), ~Relevant(Head(q), f, K)
  PROVE  Flow(Tail(q), f, K, lo, hi, live, opened)
<1> DEFINE t == Tail(q)
<1>1. /\ t \in Seq(S) /\ DOMAIN t = 1..(Len(q) - 1)
      /\ \A i \in DOMAIN t : i + 1 \in DOMAIN q /\ t[i] = q[i + 1]
  BY TailHas
<1>2. /\ \A n : HasChunk(t, f, K, n) <=> HasChunk(q, f, K, n)
      /\ \A k \in {K.first, K.last} : Has(t, f, k) <=> Has(q, f, k)
  <2>1. \A k \in {K.first, K.chunk, K.last} : ~Is(q[1], f, k)
    BY DEF Relevant, Is
  <2> QED
    BY <2>1, TailHas
<1> HIDE DEF t
<1>3. Numbered(t, f, K, lo, hi)
  <2>1. \A i \in DOMAIN q : Is(q[i], f, K.chunk) => lo < q[i].n
    BY DEF Flow, Numbered
  <2> QED
    BY <1>2, <2>1, TailNumbered DEF Flow, t
<1>4. Whole(t, f, K, lo, hi, live)
  BY <1>2 DEF Flow, Whole
<1>5. FirstFirst(t, f, K, opened)
  BY <1>1, <1>2 DEF Flow, FirstFirst
<1>6. LastLast(t, f, K)
  BY <1>1 DEF Flow, LastLast
<1> QED
  BY <1>3, <1>4, <1>5, <1>6 DEF Flow, t

\* Taking the first frame opens the flow.
LEMMA FlowTailFirst ==
  ASSUME NEW S, Framed(S), NEW q \in Seq(S), q # <<>>, NEW f, NEW K, Distinct(K),
         NEW lo \in Nat, NEW hi \in Nat, NEW live \in BOOLEAN, NEW opened \in BOOLEAN,
         Flow(q, f, K, lo, hi, live, opened), Is(Head(q), f, K.first)
  PROVE  ~opened /\ Flow(Tail(q), f, K, lo, hi, live, TRUE)
<1> DEFINE t == Tail(q)
<1>1. /\ t \in Seq(S) /\ DOMAIN t = 1..(Len(q) - 1)
      /\ \A i \in DOMAIN t : i + 1 \in DOMAIN q /\ t[i] = q[i + 1]
  BY TailHas
<1>2. /\ \A n : HasChunk(t, f, K, n) <=> HasChunk(q, f, K, n)
      /\ Has(t, f, K.last) <=> Has(q, f, K.last)
  <2>1. ~Is(q[1], f, K.chunk) /\ ~Is(q[1], f, K.last)
    BY DEF Is, Distinct
  <2> QED
    BY <2>1, TailHas
<1>3. Is(q[1], f, K.first) /\ 1 \in DOMAIN q
  BY DEF Is
<1> HIDE DEF t
<1>4. Numbered(t, f, K, lo, hi)
  <2>1. \A i \in DOMAIN q : Is(q[i], f, K.chunk) => lo < q[i].n
    BY DEF Flow, Numbered
  <2> QED
    BY <1>2, <2>1, TailNumbered DEF Flow, t
<1>5. Whole(t, f, K, lo, hi, live)
  BY <1>2 DEF Flow, Whole
<1>6. ~opened /\ FirstFirst(t, f, K, TRUE)
  <2>1. ~ \E i \in DOMAIN t : Is(t[i], f, K.first)
    BY <1>1, <1>3 DEF Flow, FirstFirst
  <2> QED
    BY <2>1, <1>3 DEF Flow, FirstFirst
<1>7. LastLast(t, f, K)
  BY <1>1 DEF Flow, LastLast
<1> QED
  BY <1>4, <1>5, <1>6, <1>7 DEF Flow, t

\* Taking a chunk: it is the next one.
LEMMA FlowTailChunk ==
  ASSUME NEW S, Framed(S), NEW q \in Seq(S), q # <<>>, NEW f, NEW K, Distinct(K),
         NEW lo \in Nat, NEW hi \in Nat, NEW live \in BOOLEAN, NEW opened \in BOOLEAN,
         Flow(q, f, K, lo, hi, live, opened), Is(Head(q), f, K.chunk)
  PROVE  /\ opened /\ Head(q).n = lo + 1 /\ lo + 1 <= hi
         /\ Flow(Tail(q), f, K, lo + 1, hi, live, opened)
<1> DEFINE t == Tail(q)
<1>1. /\ t \in Seq(S) /\ DOMAIN t = 1..(Len(q) - 1)
      /\ \A i \in DOMAIN t : i + 1 \in DOMAIN q /\ t[i] = q[i + 1]
  BY TailHas
<1>2. Is(q[1], f, K.chunk) /\ 1 \in DOMAIN q /\ q[1].n \in Nat /\ q[1] = Head(q)
  BY DEF Is, Framed
<1>3. q[1].n = lo + 1 /\ lo + 1 <= hi
  <2>1. lo < q[1].n /\ q[1].n <= hi
    BY <1>2 DEF Flow, Numbered
  <2>2. ASSUME lo + 1 < q[1].n PROVE FALSE
    <3>1. PICK i \in DOMAIN q : Is(q[i], f, K.chunk) /\ q[i].n = lo + 1
      BY <1>2, <2>2 DEF Flow, Numbered, HasChunk
    <3>2. i # 1 /\ 1 < i
      BY <3>1, <2>2
    <3> QED
      BY <1>2, <2>2, <3>1, <3>2 DEF Flow, Numbered
  <2> QED
    BY <1>2, <2>1, <2>2
<1>4. opened
  BY <1>2 DEF Flow, FirstFirst, HasChunk, Has
<1>5. /\ \A n : n # lo + 1 => (HasChunk(t, f, K, n) <=> HasChunk(q, f, K, n))
      /\ \A k \in {K.first, K.last} : Has(t, f, k) <=> Has(q, f, k)
  <2>1. ~Is(q[1], f, K.first) /\ ~Is(q[1], f, K.last)
    BY <1>2 DEF Is, Distinct
  <2> QED
    BY <2>1, <1>3, TailHas
<1> HIDE DEF t
<1>6. Numbered(t, f, K, lo + 1, hi)
  <2>1. \A i \in DOMAIN q : i # 1 /\ Is(q[i], f, K.chunk) => lo + 1 < q[i].n
    BY <1>2, <1>3 DEF Flow, Numbered
  <2>2. \A n \in Nat : lo + 1 < n /\ HasChunk(q, f, K, n) => HasChunk(t, f, K, n)
    BY <1>5
  <2> QED
    BY <2>1, <2>2, TailNumbered DEF Flow, t
<1>7. Whole(t, f, K, lo + 1, hi, live)
  BY <1>5 DEF Flow, Whole
<1>8. FirstFirst(t, f, K, opened)
  BY <1>1, <1>4, <1>5 DEF Flow, FirstFirst
<1>9. LastLast(t, f, K)
  BY <1>1 DEF Flow, LastLast
<1> QED
  BY <1>2, <1>3, <1>4, <1>6, <1>7, <1>8, <1>9 DEF Flow, t

\* When the last frame is taken, every chunk has been.
LEMMA FlowHeadLast ==
  ASSUME NEW S, Framed(S), NEW q \in Seq(S), q # <<>>, NEW f, NEW K, Distinct(K),
         NEW lo \in Nat, NEW hi \in Nat, lo <= hi, NEW live \in BOOLEAN, NEW opened \in BOOLEAN,
         Flow(q, f, K, lo, hi, live, opened), Is(Head(q), f, K.last)
  PROVE  opened /\ lo = hi
<1>1. Is(q[1], f, K.last) /\ 1 \in DOMAIN q
  BY DEF Is
<1>2. opened
  BY <1>1 DEF Flow, FirstFirst, Has
<1>3. ASSUME lo < hi PROVE FALSE
  <2>1. HasChunk(q, f, K, hi)
    BY <1>1, <1>3 DEF Flow, Whole, Has
  <2> QED
    BY <1>1, <2>1 DEF Flow, LastLast, HasChunk
<1> QED
  BY <1>2, <1>3
----------------------------------------------------------------------------
(* The writer adds a frame at the end of the queue.                        *)

\* What is in a longer queue is what was there and the new frame.
LEMMA AppendHas ==
  ASSUME NEW S, NEW q \in Seq(S), NEW fr \in S, NEW f, NEW k, NEW K, NEW n
  PROVE  /\ Append(q, fr) \in Seq(S)
         /\ DOMAIN Append(q, fr) = 1..(Len(q) + 1) /\ DOMAIN q = 1..Len(q)
         /\ \A i \in DOMAIN q : i \in DOMAIN Append(q, fr) /\ Append(q, fr)[i] = q[i]
         /\ Append(q, fr)[Len(q) + 1] = fr
         /\ Has(Append(q, fr), f, k) <=> Has(q, f, k) \/ Is(fr, f, k)
         /\ HasChunk(Append(q, fr), f, K, n) <=>
               HasChunk(q, f, K, n) \/ (Is(fr, f, K.chunk) /\ fr.n = n)
<1> DEFINE t == Append(q, fr)
<1>1. /\ t \in Seq(S) /\ DOMAIN t = 1..(Len(q) + 1) /\ DOMAIN q = 1..Len(q)
      /\ \A i \in DOMAIN q : i \in DOMAIN t /\ t[i] = q[i]
      /\ t[Len(q) + 1] = fr /\ Len(q) \in Nat
  OBVIOUS
<1>2. \A i \in DOMAIN t : i \in DOMAIN q \/ i = Len(q) + 1
  BY <1>1
<1> HIDE DEF t
<1>3. Has(t, f, k) <=> Has(q, f, k) \/ Is(fr, f, k)
  BY <1>1, <1>2 DEF Has
<1>4. HasChunk(t, f, K, n) <=> HasChunk(q, f, K, n) \/ (Is(fr, f, K.chunk) /\ fr.n = n)
  BY <1>1, <1>2 DEF HasChunk
<1> QED
  BY <1>1, <1>3, <1>4 DEF t

\* Adding a frame of another call changes nothing for this one.
LEMMA FlowAppendOther ==
  ASSUME NEW S, Framed(S), NEW q \in Seq(S), NEW fr \in S, NEW f, NEW K,
         NEW lo \in Nat, NEW hi \in Nat, NEW live \in BOOLEAN, NEW opened \in BOOLEAN,
         Flow(q, f, K, lo, hi, live, opened), ~Relevant(fr, f, K)
  PROVE  Flow(Append(q, fr), f, K, lo, hi, live, opened)
<1> DEFINE t == Append(q, fr)
<1>1. \A k \in {K.first, K.chunk, K.last} : ~Is(fr, f, k)
  BY DEF Relevant, Is
<1>2. /\ \A n : HasChunk(t, f, K, n) <=> HasChunk(q, f, K, n)
      /\ Has(t, f, K.first) <=> Has(q, f, K.first)
      /\ Has(t, f, K.last) <=> Has(q, f, K.last)
  <2>1. \A n : HasChunk(t, f, K, n) <=> HasChunk(q, f, K, n)
    BY <1>1, AppendHas
  <2>2. Has(t, f, K.first) <=> Has(q, f, K.first)
    BY <1>1, AppendHas
  <2>3. Has(t, f, K.last) <=> Has(q, f, K.last)
    BY <1>1, AppendHas
  <2> QED
    BY <2>1, <2>2, <2>3
<1>3. /\ \A i \in DOMAIN t : i \in DOMAIN q \/ (i = Len(q) + 1 /\ t[i] = fr)
      /\ \A i \in DOMAIN q : i \in DOMAIN t /\ t[i] = q[i]
  BY AppendHas
<1> HIDE DEF t
<1>4. Numbered(t, f, K, lo, hi)
  BY <1>1, <1>2, <1>3 DEF Flow, Numbered
<1>5. Whole(t, f, K, lo, hi, live)
  BY <1>2 DEF Flow, Whole
<1>6. FirstFirst(t, f, K, opened)
  BY <1>1, <1>2, <1>3 DEF Flow, FirstFirst
<1>7. LastLast(t, f, K)
  BY <1>1, <1>3 DEF Flow, LastLast
<1> QED
  BY <1>4, <1>5, <1>6, <1>7 DEF Flow, t

\* A queue without frames of a call that has written nothing takes its first frame.
LEMMA FlowAppendFirst ==
  ASSUME NEW S, NEW q \in Seq(S), NEW fr \in S, NEW f, NEW K, Distinct(K),
         NEW live \in BOOLEAN,
         \A i \in DOMAIN q : ~Relevant(q[i], f, K), Is(fr, f, K.first)
  PROVE  Flow(Append(q, fr), f, K, 0, 0, live, FALSE)
<1> DEFINE t == Append(q, fr)
<1>1. /\ \A i \in DOMAIN t : (i \in DOMAIN q /\ t[i] = q[i]) \/ (i = Len(q) + 1 /\ t[i] = fr)
      /\ Has(t, f, K.first)
  <2>1. Has(t, f, K.first)
    BY AppendHas
  <2> QED
    BY <2>1, AppendHas
<1>2. \A i \in DOMAIN t : \/ ~Relevant(t[i], f, K)
                          \/ i = Len(q) + 1 /\ Is(t[i], f, K.first)
  BY <1>1
<1> HIDE DEF t
<1>3. \A i \in DOMAIN t : ~Is(t[i], f, K.chunk) /\ ~Is(t[i], f, K.last)
  BY <1>2 DEF Is, Relevant, Distinct
<1>4. Numbered(t, f, K, 0, 0) /\ LastLast(t, f, K)
  BY <1>3 DEF Numbered, LastLast
<1>5. Whole(t, f, K, 0, 0, live)
  BY DEF Whole
<1>6. FirstFirst(t, f, K, FALSE)
  BY <1>1, <1>2, <1>3 DEF FirstFirst, Is, Relevant
<1> QED
  BY <1>4, <1>5, <1>6 DEF Flow, t

\* The next chunk, on a connection that is up and before the last frame.
LEMMA FlowAppendChunk ==
  ASSUME NEW S, Framed(S), NEW q \in Seq(S), NEW fr \in S, NEW f, NEW K, Distinct(K),
         NEW lo \in Nat, NEW hi \in Nat, lo <= hi, NEW opened \in BOOLEAN,
         Flow(q, f, K, lo, hi, TRUE, opened), ~Has(q, f, K.last),
         opened \/ Has(q, f, K.first), Is(fr, f, K.chunk), fr.n = hi + 1
  PROVE  Flow(Append(q, fr), f, K, lo, hi + 1, TRUE, opened)
<1> DEFINE t == Append(q, fr)
<1>1. ~Is(fr, f, K.first) /\ ~Is(fr, f, K.last)
  BY DEF Is, Distinct
<1>2. /\ \A n : HasChunk(t, f, K, n) <=> HasChunk(q, f, K, n) \/ n = hi + 1
      /\ \A k \in {K.first, K.last} : Has(t, f, k) <=> Has(q, f, k)
  BY <1>1, AppendHas
<1>3. /\ \A i \in DOMAIN t : i \in DOMAIN q \/ (i = Len(q) + 1 /\ t[i] = fr)
      /\ \A i \in DOMAIN q : i \in 1..Len(q) /\ i \in DOMAIN t /\ t[i] = q[i] /\ q[i].n \in Nat
      /\ Len(q) \in Nat
  BY AppendHas DEF Framed
<1> HIDE DEF t
<1>4. Whole(t, f, K, lo, hi + 1, TRUE)
  <2> SUFFICES ASSUME NEW n \in Nat, lo < n, n <= hi + 1 PROVE HasChunk(t, f, K, n)
    BY DEF Whole
  <2> QED
    BY <1>2 DEF Flow, Whole
<1>5. Numbered(t, f, K, lo, hi + 1)
  <2> SUFFICES ASSUME NEW i \in DOMAIN t, Is(t[i], f, K.chunk)
               PROVE  /\ lo < t[i].n /\ t[i].n <= hi + 1
                      /\ \A j \in DOMAIN t : Is(t[j], f, K.chunk) /\ i < j => t[i].n < t[j].n
                      /\ \A n \in Nat : lo < n /\ n < t[i].n => HasChunk(t, f, K, n)
    BY DEF Numbered
  <2>1. CASE i \in DOMAIN q
    <3>1. lo < t[i].n /\ t[i].n <= hi /\ t[i].n \in Nat
      BY <1>3, <2>1 DEF Flow, Numbered
    <3>2. \A j \in DOMAIN t : Is(t[j], f, K.chunk) /\ i < j => t[i].n < t[j].n
      BY <1>3, <2>1, <3>1 DEF Flow, Numbered
    <3> QED
      BY <1>4, <3>1, <3>2 DEF Whole
  <2>2. CASE i = Len(q) + 1 /\ t[i] = fr
    BY <1>3, <1>4, <2>2 DEF Whole
  <2> QED
    BY <1>3, <2>1, <2>2
<1>6. FirstFirst(t, f, K, opened)
  BY <1>1, <1>2, <1>3 DEF Flow, FirstFirst
<1>7. LastLast(t, f, K)
  BY <1>1, <1>2, <1>3 DEF LastLast, Has
<1> QED
  BY <1>4, <1>5, <1>6, <1>7 DEF Flow, t

\* The last frame, on a connection that is up.
LEMMA FlowAppendLast ==
  ASSUME NEW S, Framed(S), NEW q \in Seq(S), NEW fr \in S, NEW f, NEW K, Distinct(K),
         NEW lo \in Nat, NEW hi \in Nat, NEW opened \in BOOLEAN,
         Flow(q, f, K, lo, hi, TRUE, opened),
         opened \/ Has(q, f, K.first), Is(fr, f, K.last)
  PROVE  Flow(Append(q, fr), f, K, lo, hi, TRUE, opened)
<1> DEFINE t == Append(q, fr)
<1>1. ~Is(fr, f, K.first) /\ ~Is(fr, f, K.chunk)
  BY DEF Is, Distinct
<1>2. /\ \A n : HasChunk(t, f, K, n) <=> HasChunk(q, f, K, n)
      /\ Has(t, f, K.first) <=> Has(q, f, K.first)
  BY <1>1, AppendHas
<1>3. /\ \A i \in DOMAIN t : i \in DOMAIN q \/ (i = Len(q) + 1 /\ t[i] = fr)
      /\ \A i \in DOMAIN q : i \in 1..Len(q) /\ i \in DOMAIN t /\ t[i] = q[i]
      /\ Len(q) \in Nat
  BY AppendHas
<1> HIDE DEF t
<1>4. Numbered(t, f, K, lo, hi)
  BY <1>1, <1>2, <1>3 DEF Flow, Numbered
<1>5. Whole(t, f, K, lo, hi, TRUE)
  BY <1>2 DEF Flow, Whole
<1>6. FirstFirst(t, f, K, opened)
  BY <1>1, <1>2, <1>3 DEF Flow, FirstFirst
<1>7. LastLast(t, f, K)
  BY <1>1, <1>3 DEF Flow, LastLast
<1> QED
  BY <1>4, <1>5, <1>6, <1>7 DEF Flow, t

\* A chunk made for a connection that is down goes nowhere.
LEMMA FlowLost ==
  ASSUME NEW S, Framed(S), NEW q \in Seq(S), NEW f, NEW K,
         NEW lo \in Nat, NEW hi \in Nat, NEW opened \in BOOLEAN,
         Flow(q, f, K, lo, hi, FALSE, opened), ~Has(q, f, K.last)
  PROVE  Flow(q, f, K, lo, hi + 1, FALSE, opened)
<1>1. \A i \in DOMAIN q : q[i].n \in Nat
  BY DEF Framed
<1> QED
  BY <1>1 DEF Flow, Numbered, Whole

\* The connection drops, and its end forgets what was in the queue.
LEMMA FlowDrops ==
  ASSUME NEW q, NEW f, NEW K, NEW lo, NEW hi, NEW live, NEW opened
  PROVE  /\ Flow(q, f, K, lo, hi, live, opened) => Flow(q, f, K, lo, hi, FALSE, opened)
         /\ Flow(<<>>, f, K, lo, hi, FALSE, opened)
  BY DEF Flow, Numbered, Whole, FirstFirst, LastLast, Has, HasChunk
\* No frame of a call that has written nothing.
LEMMA FlowNone ==
  ASSUME NEW q, NEW f, NEW K, NEW n \in Nat, NEW live, NEW opened,
         \A i \in DOMAIN q : ~Relevant(q[i], f, K)
  PROVE  /\ Flow(q, f, K, n, n, live, opened)
         /\ \A k \in {K.first, K.chunk, K.last} : ~Has(q, f, k)
<1>1. \A i \in DOMAIN q : ~Is(q[i], f, K.first) /\ ~Is(q[i], f, K.chunk) /\ ~Is(q[i], f, K.last)
  BY DEF Relevant, Is
<1> QED
  BY <1>1 DEF Flow, Numbered, Whole, FirstFirst, LastLast, Has, HasChunk

----------------------------------------------------------------------------
(* What a queue becomes by a step that concerns another call.              *)

Beside(q, t, f, K, S) ==
    \/ t = q
    \/ \E fr \in S : t = Append(q, fr) /\ ~Relevant(fr, f, K)
    \/ q # <<>> /\ t = Tail(q) /\ ~Relevant(Head(q), f, K)

\* A step beside a flow keeps it, and what the queue holds of the call.
LEMMA BesideKeeps ==
  ASSUME NEW S, Framed(S), NEW q \in Seq(S), NEW t, NEW f, NEW K, Beside(q, t, f, K, S)
  PROVE  /\ t \in Seq(S)
         /\ \A k \in {K.first, K.chunk, K.last} : Has(t, f, k) <=> Has(q, f, k)
         /\ \A lo, hi \in Nat : \A live, opened \in BOOLEAN :
               Flow(q, f, K, lo, hi, live, opened) => Flow(t, f, K, lo, hi, live, opened)
<1>1. CASE t = q
  BY <1>1
<1>2. ASSUME NEW fr \in S, t = Append(q, fr), ~Relevant(fr, f, K)
      PROVE  /\ t \in Seq(S)
             /\ \A k \in {K.first, K.chunk, K.last} : Has(t, f, k) <=> Has(q, f, k)
             /\ \A lo, hi \in Nat : \A live, opened \in BOOLEAN :
                   Flow(q, f, K, lo, hi, live, opened) => Flow(t, f, K, lo, hi, live, opened)
  <2>1. \A k \in {K.first, K.chunk, K.last} : ~Is(fr, f, k)
    BY <1>2 DEF Relevant, Is
  <2>2. t \in Seq(S)
    BY <1>2
  <2>3. \A k \in {K.first, K.chunk, K.last} : Has(t, f, k) <=> Has(q, f, k)
    <3> TAKE k \in {K.first, K.chunk, K.last}
    <3>1. Has(Append(q, fr), f, k) <=> Has(q, f, k) \/ Is(fr, f, k)
      BY AppendHas
    <3> QED
      BY <1>2, <2>1, <3>1
  <2>4. \A lo, hi \in Nat : \A live, opened \in BOOLEAN :
           Flow(q, f, K, lo, hi, live, opened) => Flow(Append(q, fr), f, K, lo, hi, live, opened)
    BY <1>2, FlowAppendOther
  <2> QED
    BY <1>2, <2>2, <2>3, <2>4
<1>3. CASE q # <<>> /\ t = Tail(q) /\ ~Relevant(Head(q), f, K)
  <2>1. \A k \in {K.first, K.chunk, K.last} : ~Is(q[1], f, k)
    BY <1>3 DEF Relevant, Is
  <2>2. t \in Seq(S)
    BY <1>3
  <2>3. \A k \in {K.first, K.chunk, K.last} : Has(t, f, k) <=> Has(q, f, k)
    <3> TAKE k \in {K.first, K.chunk, K.last}
    <3>1. (Has(Tail(q), f, k) => Has(q, f, k)) /\ (Has(q, f, k) /\ ~Is(q[1], f, k) => Has(Tail(q), f, k))
      BY <1>3, TailHas
    <3> QED
      BY <1>3, <2>1, <3>1
  <2> QED
    BY <1>3, <2>2, <2>3, FlowTailOther
<1> QED
  BY <1>1, <1>2, <1>3 DEF Beside

\* Two frames that concern another call, or one, or none.
LEMMA BesideTwice ==
  ASSUME NEW S, Framed(S), NEW q \in Seq(S), NEW a \in S, NEW b \in S, NEW f, NEW K,
         ~Relevant(a, f, K), ~Relevant(b, f, K),
         NEW t, t = q \/ t = Append(q, a) \/ t = Append(Append(q, a), b)
  PROVE  /\ \A k \in {K.first, K.chunk, K.last} : Has(t, f, k) <=> Has(q, f, k)
         /\ \A lo, hi \in Nat : \A live, opened \in BOOLEAN :
               Flow(q, f, K, lo, hi, live, opened) => Flow(t, f, K, lo, hi, live, opened)
<1> DEFINE u == Append(q, a)
           w == Append(u, b)
<1>1. u \in Seq(S) /\ w \in Seq(S) /\ (t = q \/ t = u \/ t = w)
  OBVIOUS
<1>2. Beside(q, u, f, K, S) /\ Beside(u, w, f, K, S)
  BY DEF Beside
<1> HIDE DEF u, w
<1>3. /\ \A k \in {K.first, K.chunk, K.last} : Has(u, f, k) <=> Has(q, f, k)
      /\ \A lo, hi \in Nat : \A live, opened \in BOOLEAN :
            Flow(q, f, K, lo, hi, live, opened) => Flow(u, f, K, lo, hi, live, opened)
  BY <1>1, <1>2, BesideKeeps
<1>4. /\ \A k \in {K.first, K.chunk, K.last} : Has(w, f, k) <=> Has(u, f, k)
      /\ \A lo, hi \in Nat : \A live, opened \in BOOLEAN :
            Flow(u, f, K, lo, hi, live, opened) => Flow(w, f, K, lo, hi, live, opened)
  BY <1>1, <1>2, BesideKeeps
<1>5. CASE t = q
  BY <1>5
<1>6. CASE t = u
  BY <1>3, <1>6
<1>7. CASE t = w
  BY <1>3, <1>4, <1>7
<1> QED
  BY <1>1, <1>5, <1>6, <1>7

----------------------------------------------------------------------------
(* Type correctness.                                                       *)

\* The frames the page and the server make.
LEMMA FrameTypes ==
  ASSUME NEW id \in Nat, NEW f \in Fetch, NEW n \in Nat
  PROVE  /\ \A k \in {START, CHUNK, END, CANCEL} : Frame(k, id, f, n) \in UpFrame
         /\ \A k \in {RESPONSE, RESPONSE_CHUNK, RESPONSE_END, RESPONSE_ERROR} :
               Frame(k, id, f, n) \in DownFrame
  BY DEF Frame, UpFrame, DownFrame

\* What is written is a natural number.
LEMMA WireType == \A k \in Nat : Wire(k) \in Nat
  BY MuxAssumption DEF Wire

\* An allocated identifier is new: not zero and below the next counter.
LEMMA KeyType ==
  ASSUME NEW n \in Nat
  PROVE  Key(n) \in Nat /\ NextIDAfter(n) \in Nat /\ Key(n) < NextIDAfter(n) /\ n < NextIDAfter(n)
<1>1. n % IdSpace \in Nat /\ n % IdSpace <= n
  BY MuxAssumption
<1> QED
  BY <1>1 DEF Key, NextIDAfter

\* A queue that takes frames stays a queue of frames.
LEMMA SendsTyped ==
  ASSUME NEW c
  PROVE  /\ \A frames \in Seq(UpFrame) : c2s \in [Conn -> Seq(UpFrame)] /\ SendUp(c, frames) =>
               c2s' \in [Conn -> Seq(UpFrame)]
         /\ \A frames \in Seq(DownFrame) : s2c \in [Conn -> Seq(DownFrame)] /\ SendDown(c, frames) =>
               s2c' \in [Conn -> Seq(DownFrame)]
<1>1. ASSUME NEW S, NEW Q \in [Conn -> Seq(S)], NEW frames \in Seq(S)
      PROVE  [Q EXCEPT ![c] = @ \o frames] \in [Conn -> Seq(S)]
  <2>1. c \in Conn => Q[c] \o frames \in Seq(S)
    OBVIOUS
  <2> QED
    BY <2>1
<1>2. ASSUME NEW frames \in Seq(UpFrame), c2s \in [Conn -> Seq(UpFrame)], SendUp(c, frames)
      PROVE  c2s' \in [Conn -> Seq(UpFrame)]
  BY <1>1, <1>2 DEF SendUp
<1>3. ASSUME NEW frames \in Seq(DownFrame), s2c \in [Conn -> Seq(DownFrame)], SendDown(c, frames)
      PROVE  s2c' \in [Conn -> Seq(DownFrame)]
  BY <1>1, <1>3 DEF SendDown
<1> QED
  BY <1>2, <1>3

\* The initial state is typed.
LEMMA InitTyped == Init => TypeOK
  BY MuxAssumption DEF Init, TypeOK, Conn

\* The page's calls.
LEMMA CallsTyped ==
  ASSUME TypeOK, NEW f \in Fetch,
         Fetching(f) \/ Begin(f) \/ Upload(f) \/ UploadEnds(f) \/ UploadThrows(f) \/ CancelStream(f)
  PROVE  TypeOK'
<1>t. /\ key \in [Fetch -> Nat] /\ sent \in [Fetch -> Nat] /\ nextID \in Nat
      /\ \A g \in Fetch : key[g] < nextID
      /\ c2s \in [Conn -> Seq(UpFrame)] /\ conn \in 0..MaxConn /\ MaxConn \in Nat
      /\ pc \in [Fetch -> {"idle", "await", "upload", "returned", "threw"}]
      /\ pending \subseteq Fetch /\ sock \in [Fetch -> 0..MaxConn]
  BY MuxAssumption DEF TypeOK
<1>1. CASE Fetching(f)
  <2>1. pc' \in [Fetch -> {"idle", "await", "upload", "returned", "threw"}]
    BY <1>1, <1>t DEF Fetching
  <2>2. CASE socket # "none" /\ UNCHANGED <<socket, conn>>
    BY <1>1, <2>1, <2>2 DEF Fetching, viewVars, netVars, serverVars, TypeOK
  <2>3. CASE conn < MaxConn /\ socket' = "connecting" /\ conn' = conn + 1
    <3>1. conn' \in Conn /\ conn' \in 0..MaxConn
      BY <1>t, <2>3 DEF Conn
    <3> QED
      BY <1>1, <2>1, <2>3, <3>1 DEF Fetching, viewVars, netVars, serverVars, TypeOK
  <2> QED
    BY <1>1, <2>2, <2>3 DEF Fetching
<1>2. CASE Begin(f)
  <2> DEFINE k == Key(nextID)
             frames == IF BodyLen[f] = 0
                       THEN <<Frame(START, Wire(k), f, 0), Frame(END, Wire(k), f, 0)>>
                       ELSE <<Frame(START, Wire(k), f, 0)>>
  <2>1. k \in Nat /\ nextID' \in Nat /\ k < nextID' /\ nextID < nextID'
    BY <1>2, <1>t, KeyType DEF Begin
  <2>2. frames \in Seq(UpFrame)
    <3>1. Frame(START, Wire(k), f, 0) \in UpFrame /\ Frame(END, Wire(k), f, 0) \in UpFrame
      BY <2>1, WireType, FrameTypes
    <3> QED
      BY <3>1
  <2>3. c2s' \in [Conn -> Seq(UpFrame)]
    <3>1. SendUp(conn, frames)
      BY <1>2 DEF Begin
    <3> QED
      BY <1>t, <2>2, <3>1, SendsTyped
  <2>4. key' = [key EXCEPT ![f] = k]
    BY <1>2 DEF Begin
  <2>5. pending' \subseteq Fetch /\ sock' \in [Fetch -> 0..MaxConn]
    BY <1>2, <1>t DEF Begin
  <2>6. pc' \in [Fetch -> {"idle", "await", "upload", "returned", "threw"}]
    BY <1>2, <1>t DEF Begin
  <2> HIDE DEF k, frames
  <2>7. key' \in [Fetch -> Nat] /\ \A g \in Fetch : key'[g] < nextID'
    BY <1>t, <2>1, <2>4
  <2> QED
    BY <1>2, <2>1, <2>3, <2>5, <2>6, <2>7 DEF Begin, viewVars, serverVars, TypeOK
<1>3. CASE Upload(f)
  <2>1. Frame(CHUNK, Wire(key[f]), f, sent[f] + 1) \in UpFrame
    <3>1. Wire(key[f]) \in Nat
      BY <1>t, WireType
    <3>2. sent[f] + 1 \in Nat
      <4>1. sent[f] \in Nat
        BY <1>t
      <4> QED
        BY <4>1
    <3> QED
      BY <3>1, <3>2, FrameTypes
  <2>2. c2s' \in [Conn -> Seq(UpFrame)] /\ sent' \in [Fetch -> Nat]
    <3>1. /\ SendUp(sock[f], <<Frame(CHUNK, Wire(key[f]), f, sent[f] + 1)>>)
          /\ sent' = [sent EXCEPT ![f] = @ + 1]
      BY <1>3 DEF Upload
    <3>2. <<Frame(CHUNK, Wire(key[f]), f, sent[f] + 1)>> \in Seq(UpFrame)
      BY <2>1
    <3>3. sent' \in [Fetch -> Nat]
      BY <1>t, <3>1
    <3> QED
      BY <1>t, <3>1, <3>2, <3>3, SendsTyped
  <2> QED
    BY <1>3, <2>2 DEF Upload, viewVars, serverVars, TypeOK
<1>4. CASE UploadEnds(f)
  <2>1. c2s' \in [Conn -> Seq(UpFrame)]
    <3>1. SendUp(sock[f], <<Frame(END, Wire(key[f]), f, 0)>>)
      BY <1>4 DEF UploadEnds
    <3>2. Frame(END, Wire(key[f]), f, 0) \in UpFrame
      BY <1>t, WireType, FrameTypes
    <3>3. <<Frame(END, Wire(key[f]), f, 0)>> \in Seq(UpFrame)
      BY <3>2
    <3> QED
      BY <1>t, <3>1, <3>3, SendsTyped
  <2> QED
    BY <1>4, <1>t, <2>1 DEF UploadEnds, viewVars, serverVars, TypeOK
<1>5. CASE UploadThrows(f)
  BY <1>5, <1>t DEF UploadThrows, viewVars, netVars, serverVars, TypeOK
<1>6. CASE CancelStream(f)
  <2>1. c2s' \in [Conn -> Seq(UpFrame)]
    <3>1. SendUp(sock[f], <<Frame(CANCEL, Wire(key[f]), f, 0)>>)
      BY <1>6 DEF CancelStream
    <3>2. Frame(CANCEL, Wire(key[f]), f, 0) \in UpFrame
      BY <1>t, WireType, FrameTypes
    <3>3. <<Frame(CANCEL, Wire(key[f]), f, 0)>> \in Seq(UpFrame)
      BY <3>2
    <3> QED
      BY <1>t, <3>1, <3>3, SendsTyped
  <2> QED
    BY <1>6, <2>1 DEF CancelStream, callVars, serverVars, TypeOK
<1> QED
  BY <1>1, <1>2, <1>3, <1>4, <1>5, <1>6

\* The message the page handles is a frame of the server.
LEMMA MessageTyped ==
  ASSUME TypeOK, NEW fr \in Message
  PROVE  /\ socket = "open" /\ conn \in Conn /\ s2c[conn] # <<>> /\ s2c[conn] \in Seq(DownFrame)
         /\ fr = Head(s2c[conn]) /\ fr \in DownFrame /\ fr.of \in Fetch /\ fr.n \in Nat
<1>1. socket = "open" /\ s2c[conn] # <<>> /\ fr = Head(s2c[conn])
  BY DEF Message
<1>2. conn \in Conn
  BY <1>1 DEF TypeOK
<1>3. s2c[conn] \in Seq(DownFrame)
  BY <1>2 DEF TypeOK
<1>4. fr \in DownFrame
  BY <1>1, <1>3
<1> QED
  BY <1>1, <1>2, <1>3, <1>4 DEF DownFrame

\* The page's socket and the messages on it.
LEMMA EventsTyped ==
  ASSUME TypeOK, \/ SocketOpens \/ SocketFails \/ SocketCloses
                 \/ HandleResponse \/ HandleChunk \/ HandleEnd \/ HandleError
  PROVE  TypeOK'
<1>1. CASE SocketOpens
  BY <1>1 DEF SocketOpens, callVars, viewVars, TypeOK
<1>2. CASE SocketFails
  BY <1>2 DEF SocketFails, viewVars, netVars, serverVars, TypeOK
<1>3. CASE SocketCloses
  <2>1. s2c' \in [Conn -> Seq(DownFrame)]
    BY <1>3 DEF SocketCloses, TypeOK
  <2> QED
    BY <1>3, <2>1 DEF SocketCloses, Failed, callVars, serverVars, TypeOK
<1>4. ASSUME NEW fr \in Message, NEW kind, Receive(kind, fr)
      PROVE  /\ s2c' \in [Conn -> Seq(DownFrame)]
             /\ UNCHANGED <<nextID, socket, conn, callVars, link, c2s, serverVars>>
  <2>1. s2c' = [s2c EXCEPT ![conn] = Tail(@)]
    BY <1>4 DEF Receive
  <2>2. s2c[conn] # <<>> /\ s2c[conn] \in Seq(DownFrame) /\ s2c \in [Conn -> Seq(DownFrame)]
    BY MessageTyped DEF TypeOK
  <2>3. Tail(s2c[conn]) \in Seq(DownFrame)
    BY <2>2
  <2>4. s2c' \in [Conn -> Seq(DownFrame)]
    BY <2>1, <2>2, <2>3
  <2> QED
    BY <1>4, <2>4 DEF Receive
<1>5. CASE HandleResponse
  <2>1. PICK fr \in Message :
          /\ Receive(RESPONSE, fr)
          /\ \E first \in SUBSET Fetch :
               /\ promise' = [f \in Fetch |-> IF f \in first THEN "resolved" ELSE promise[f]]
               /\ answer' = [f \in Fetch |-> IF f \in first THEN {fr.of} ELSE answer[f]]
          /\ stream' = [f \in Fetch |-> IF f \in Addressed(fr)
                                        THEN (IF Bodyless(fr.n) THEN "nobody" ELSE "open")
                                        ELSE stream[f]]
          /\ UNCHANGED <<pending, got>>
    BY <1>5 DEF HandleResponse, Addressed, TypeOK
  <2>2. promise' \in [Fetch -> {"pending", "resolved", "rejected"}]
    BY <2>1 DEF TypeOK
  <2>3. answer' \in [Fetch -> SUBSET Fetch]
    <3>1. {fr.of} \in SUBSET Fetch /\ answer \in [Fetch -> SUBSET Fetch]
      BY MessageTyped DEF TypeOK
    <3> QED
      BY <2>1, <3>1
  <2>4. stream' \in [Fetch -> {"none", "nobody", "open", "closed", "errored", "cancelled"}]
    BY <2>1 DEF TypeOK
  <2> QED
    BY <1>4, <2>1, <2>2, <2>3, <2>4 DEF callVars, serverVars, TypeOK
<1>6. CASE HandleChunk
  <2>1. PICK fr \in Message :
          /\ Receive(RESPONSE_CHUNK, fr)
          /\ got' = [f \in Fetch |-> IF f \in Addressed(fr) /\ stream[f] = "open"
                                     THEN Append(got[f], <<fr.of, fr.n>>) ELSE got[f]]
          /\ UNCHANGED <<pending, promise, answer, stream>>
    BY <1>6 DEF HandleChunk
  <2>2. got' \in [Fetch -> Seq(Fetch \X Nat)]
    <3>1. <<fr.of, fr.n>> \in Fetch \X Nat
      BY MessageTyped
    <3>2. \A f \in Fetch : got[f] \in Seq(Fetch \X Nat)
      BY DEF TypeOK
    <3>3. \A f \in Fetch : Append(got[f], <<fr.of, fr.n>>) \in Seq(Fetch \X Nat)
      BY <3>1, <3>2
    <3> QED
      BY <2>1, <3>2, <3>3
  <2> QED
    BY ZenonT(30), <1>4, <2>1, <2>2 DEF callVars, serverVars, TypeOK
<1>7. CASE HandleEnd
  BY <1>4, <1>7 DEF HandleEnd, callVars, serverVars, TypeOK
<1>8. CASE HandleError
  BY <1>4, <1>8 DEF HandleError, Failed, callVars, serverVars, TypeOK
<1> QED
  BY <1>1, <1>2, <1>3, <1>5, <1>6, <1>7, <1>8

\* The frame the read loop handles is a frame of the page.
LEMMA ArrivedTyped ==
  ASSUME TypeOK, NEW c \in Conn, NEW fr \in Arrived(c)
  PROVE  /\ serving[c] = "reading" /\ c2s[c] # <<>> /\ c2s[c] \in Seq(UpFrame)
         /\ fr = Head(c2s[c]) /\ fr \in UpFrame /\ fr.of \in Fetch /\ fr.n \in Nat /\ fr.id \in Nat
<1>1. serving[c] = "reading" /\ c2s[c] # <<>> /\ fr = Head(c2s[c]) /\ c2s[c] \in Seq(UpFrame)
  BY DEF Arrived, TypeOK
<1>2. fr \in UpFrame
  BY <1>1
<1> QED
  BY <1>1, <1>2 DEF UpFrame

\* The server's read loop.
LEMMA ReadsTyped ==
  ASSUME TypeOK, NEW c \in Conn,
         OnStart(c) \/ OnChunk(c) \/ OnEnd(c) \/ OnCancel(c) \/ ReadFails(c)
  PROVE  TypeOK'
<1> DEFINE Phase == {"none", "collecting", "executing", "responding", "ended", "failed", "dropped"}
<1>t. /\ phase \in [Fetch -> Phase] /\ body \in [Fetch -> Seq(Fetch \X Nat)]
      /\ s2c \in [Conn -> Seq(DownFrame)] /\ c2s \in [Conn -> Seq(UpFrame)]
      /\ key \in [Fetch -> Nat]
  BY DEF TypeOK
<1>1. ASSUME NEW fr \in Arrived(c), NEW kind, Read(c, kind, fr)
      PROVE  c2s' \in [Conn -> Seq(UpFrame)] /\ UNCHANGED <<pageVars, link, serving, produced>>
  <2>1. c2s' = [c2s EXCEPT ![c] = Tail(@)]
    BY <1>1 DEF Read
  <2>2. c2s[c] # <<>> /\ c2s[c] \in Seq(UpFrame)
    BY ArrivedTyped
  <2>3. Tail(c2s[c]) \in Seq(UpFrame)
    BY <2>2
  <2>4. c2s' \in [Conn -> Seq(UpFrame)]
    BY <1>t, <2>1, <2>3
  <2> QED
    BY <1>1, <2>4 DEF Read
<1>2. ASSUME NEW fr \in Arrived(c), NEW kind, Read(c, kind, fr),
             phase' \in [Fetch -> Phase],
             body' \in [Fetch -> Seq(Fetch \X Nat)],
             s2c' \in [Conn -> Seq(DownFrame)]
      PROVE  TypeOK'
  BY SMTT(30), <1>1, <1>2 DEF pageVars, callVars, viewVars, TypeOK
<1>3. CASE OnStart(c)
  <2>1. PICK fr \in Arrived(c) :
          /\ Read(c, START, fr)
          /\ \/ /\ phase' = [phase EXCEPT ![fr.of] = "collecting"]
                /\ UNCHANGED s2c
             \/ /\ phase' = [phase EXCEPT ![fr.of] = "failed"]
                /\ SendDown(c, <<Frame(RESPONSE_ERROR, fr.id, fr.of, 0)>>)
          /\ UNCHANGED body
    BY <1>3 DEF OnStart
  <2>2. Frame(RESPONSE_ERROR, fr.id, fr.of, 0) \in DownFrame
    BY ArrivedTyped, FrameTypes
  <2>3. <<Frame(RESPONSE_ERROR, fr.id, fr.of, 0)>> \in Seq(DownFrame)
    BY <2>2
  <2>4. s2c' \in [Conn -> Seq(DownFrame)]
    BY <1>t, <2>1, <2>3, SendsTyped
  <2>5. phase' \in [Fetch -> Phase] /\ body' \in [Fetch -> Seq(Fetch \X Nat)]
    BY <1>t, <2>1
  <2> QED
    BY <1>2, <2>1, <2>4, <2>5
<1>4. CASE OnChunk(c)
  <2>1. PICK fr \in Arrived(c) :
          /\ Read(c, CHUNK, fr)
          /\ \/ UNCHANGED <<phase, body, s2c>>
             \/ \E f \in States(c, fr.id) :
                  /\ body' = [body EXCEPT ![f] = Append(@, <<fr.of, fr.n>>)]
                  /\ UNCHANGED <<phase, s2c>>
             \/ \E f \in States(c, fr.id) :
                  /\ phase' = [phase EXCEPT ![f] = Overflow]
                  /\ SendDown(c, OverflowReply(f))
                  /\ UNCHANGED body
    BY <1>4 DEF OnChunk
  <2>2. <<fr.of, fr.n>> \in Fetch \X Nat
    BY ArrivedTyped
  <2>3. \A f \in Fetch : OverflowReply(f) \in Seq(DownFrame)
    <3> TAKE f \in Fetch
    <3>1. Frame(RESPONSE_ERROR, Wire(key[f]), f, 0) \in DownFrame
      BY <1>t, WireType, FrameTypes
    <3> QED
      BY <3>1 DEF OverflowReply
  <2>4. States(c, fr.id) \subseteq Fetch
    BY DEF States
  <2>5. body' \in [Fetch -> Seq(Fetch \X Nat)]
    <3>1. \A f \in Fetch : Append(body[f], <<fr.of, fr.n>>) \in Seq(Fetch \X Nat)
      BY <1>t, <2>2
    <3>2. CASE \E f \in Fetch : body' = [body EXCEPT ![f] = Append(@, <<fr.of, fr.n>>)]
      BY <1>t, <3>1, <3>2
    <3>3. CASE UNCHANGED body
      BY <1>t, <3>3
    <3> QED
      BY <2>1, <2>4, <3>2, <3>3
  <2>6. s2c' \in [Conn -> Seq(DownFrame)]
    BY <1>t, <2>1, <2>3, <2>4, SendsTyped
  <2>7. phase' \in [Fetch -> Phase]
    BY <1>t, <2>1 DEF Overflow
  <2> QED
    BY <1>2, <2>1, <2>5, <2>6, <2>7
<1>5. CASE OnEnd(c)
  BY <1>2, <1>5, <1>t DEF OnEnd
<1>6. CASE OnCancel(c)
  BY <1>2, <1>6, <1>t DEF OnCancel
<1>7. CASE ReadFails(c)
  <2>1. c2s' \in [Conn -> Seq(UpFrame)] /\ phase' \in [Fetch -> Phase]
    BY <1>7, <1>t DEF ReadFails
  <2> QED
    BY <1>7, <2>1 DEF ReadFails, pageVars, callVars, viewVars, TypeOK
<1> QED
  BY <1>3, <1>4, <1>5, <1>6, <1>7

\* The executors, and the connection that drops.
LEMMA ExecutorsTyped ==
  ASSUME TypeOK, NEW f \in Fetch,
         \/ ExecRefuses(f) \/ ExecResponds(f) \/ ExecStreams(f)
         \/ ExecEnds(f) \/ ExecInterrupted(f) \/ ExecCancelled(f)
  PROVE  TypeOK'
<1> DEFINE Phase == {"none", "collecting", "executing", "responding", "ended", "failed", "dropped"}
           Kinds == {RESPONSE, RESPONSE_CHUNK, RESPONSE_END, RESPONSE_ERROR}
<1>t. /\ s2c \in [Conn -> Seq(DownFrame)] /\ key \in [Fetch -> Nat]
      /\ phase \in [Fetch -> Phase] /\ produced \in [Fetch -> Nat]
  BY DEF TypeOK
<1>1. ASSUME NEW from, NEW to \in Phase, Executing(f, from, to),
             NEW k \in Kinds, NEW n \in Nat, SendDown(sock[f], <<Frame(k, Wire(key[f]), f, n)>>),
             produced' \in [Fetch -> Nat]
      PROVE  TypeOK'
  <2>1. Frame(k, Wire(key[f]), f, n) \in DownFrame
    BY <1>t, WireType, FrameTypes
  <2>2. <<Frame(k, Wire(key[f]), f, n)>> \in Seq(DownFrame)
    BY <2>1
  <2>3. s2c' \in [Conn -> Seq(DownFrame)]
    BY <1>1, <1>t, <2>2, SendsTyped
  <2>4. phase' \in [Fetch -> Phase]
    BY <1>1, <1>t DEF Executing
  <2> HIDE DEF Kinds
  <2> QED
    BY <1>1, <2>3, <2>4 DEF Executing, pageVars, callVars, viewVars, TypeOK
<1>2. CASE ExecRefuses(f)
  BY <1>1, <1>2, <1>t DEF ExecRefuses
<1>3. CASE ExecResponds(f)
  <2>1. PICK s \in Status : SendDown(sock[f], <<Frame(RESPONSE, Wire(key[f]), f, s)>>)
    BY <1>3 DEF ExecResponds
  <2>2. s \in Nat
    BY MuxAssumption DEF EMPTY, BODY, UNUSABLE, SWITCHING
  <2> QED
    BY <1>1, <1>3, <1>t, <2>1, <2>2 DEF ExecResponds
<1>4. CASE ExecStreams(f)
  <2>1. produced' \in [Fetch -> Nat]
    BY <1>4, <1>t DEF ExecStreams
  <2>2. produced[f] + 1 \in Nat
    BY <1>t
  <2> QED
    BY <1>1, <1>4, <2>1, <2>2 DEF ExecStreams
<1>5. CASE ExecEnds(f)
  BY <1>1, <1>5, <1>t DEF ExecEnds
<1>6. CASE ExecInterrupted(f)
  BY <1>1, <1>6, <1>t DEF ExecInterrupted, InterruptedKind
<1>7. CASE ExecCancelled(f)
  BY <1>7, <1>t DEF ExecCancelled, pageVars, callVars, viewVars, netVars, TypeOK
<1> QED
  BY <1>2, <1>3, <1>4, <1>5, <1>6, <1>7

\* Every step keeps the types.
LEMMA StepTyped == TypeOK /\ [Next]_vars => TypeOK'
<1> SUFFICES ASSUME TypeOK, [Next]_vars PROVE TypeOK'
  OBVIOUS
<1>1. CASE Page
  BY <1>1, CallsTyped, EventsTyped DEF Page
<1>2. CASE Server
  BY <1>2, ReadsTyped, ExecutorsTyped DEF Server
<1>3. CASE \E c \in Conn : LinkDrops(c)
  BY <1>3 DEF LinkDrops, pageVars, callVars, viewVars, serverVars, TypeOK
<1>4. CASE UNCHANGED vars
  BY <1>4 DEF vars, pageVars, callVars, viewVars, netVars, serverVars, TypeOK
<1> QED
  BY <1>1, <1>2, <1>3, <1>4 DEF Next

(* Every reachable state of page, connections and server is well-typed, and *)
(* every identifier in the page's table is below the counter.               *)
THEOREM TypeCorrect == Spec => []TypeOK
<1>1. Init => TypeOK
  BY InitTyped
<1>2. TypeOK /\ [Next]_vars => TypeOK'
  BY StepTyped
<1> QED
  BY <1>1, <1>2, PTL DEF Spec

----------------------------------------------------------------------------
(***************************************************************************)
(* Isolation.  As long as identifiers do not wrap (NoWrap), the calls on   *)
(* the wire have identifiers of their own, and every frame in flight       *)
(* carries that of its call: States and Addressed find that call or none.  *)
(***************************************************************************)
NoWrap == MaxId < IdSpace

\* Of a call that has no identifier yet, nothing exists anywhere.
Unborn(f) ==
    key[f] = 0 =>
        /\ pc[f] \in {"idle", "await", "threw"} /\ f \notin pending /\ sent[f] = 0
        /\ stream[f] = "none" /\ answer[f] = {} /\ got[f] = <<>>
        /\ phase[f] = "none" /\ body[f] = <<>> /\ produced[f] = 0

\* A call that has one has a connection, which was up.
Born(f) ==
    key[f] # 0 =>
        /\ pc[f] \notin {"idle", "await"}
        /\ sock[f] \in Conn /\ sock[f] <= conn
        /\ socket = "connecting" => sock[f] # conn
        /\ f \in pending => socket = "open" /\ sock[f] = conn

Carried(fr, c) == fr.id = key[fr.of] /\ key[fr.of] # 0 /\ sock[fr.of] = c

AllCarried ==
    \A c \in Conn : /\ \A i \in DOMAIN c2s[c] : Carried(c2s[c][i], c)
                    /\ \A i \in DOMAIN s2c[c] : Carried(s2c[c][i], c)

Isolated ==
    /\ nextID \in 1..(MaxId + 1)
    /\ \A f, g \in Fetch : key[f] = key[g] /\ key[f] # 0 => f = g
    /\ \A f \in Fetch : Unborn(f) /\ Born(f)
    /\ AllCarried

----------------------------------------------------------------------------
(* What the helpers come to.                                               *)

\* The queues after a send.
LEMMA SendOne ==
  ASSUME TypeOK, NEW d \in Conn, NEW fr
  PROVE  /\ fr \in UpFrame /\ SendUp(d, <<fr>>) =>
               \A c \in Conn : c2s'[c] = IF c = d /\ link[d] = "up" THEN Append(c2s[c], fr) ELSE c2s[c]
         /\ fr \in DownFrame /\ SendDown(d, <<fr>>) =>
               \A c \in Conn : s2c'[c] = IF c = d /\ link[d] = "up" THEN Append(s2c[c], fr) ELSE s2c[c]
<1>1. ASSUME NEW S, NEW q \in Seq(S), fr \in S PROVE q \o <<fr>> = Append(q, fr)
  BY <1>1
<1>2. c2s \in [Conn -> Seq(UpFrame)] /\ s2c \in [Conn -> Seq(DownFrame)]
  BY DEF TypeOK
<1>3. ASSUME fr \in UpFrame, SendUp(d, <<fr>>), NEW c \in Conn
      PROVE  c2s'[c] = IF c = d /\ link[d] = "up" THEN Append(c2s[c], fr) ELSE c2s[c]
  <2>1. c2s[d] \o <<fr>> = Append(c2s[d], fr)
    BY <1>1, <1>2, <1>3
  <2> QED
    BY <1>2, <1>3, <2>1 DEF SendUp
<1>4. ASSUME fr \in DownFrame, SendDown(d, <<fr>>), NEW c \in Conn
      PROVE  s2c'[c] = IF c = d /\ link[d] = "up" THEN Append(s2c[c], fr) ELSE s2c[c]
  <2>1. s2c[d] \o <<fr>> = Append(s2c[d], fr)
    BY <1>1, <1>2, <1>4
  <2> QED
    BY <1>2, <1>4, <2>1 DEF SendDown
<1> QED
  BY <1>3, <1>4

\* START and END sent together.
LEMMA SendBoth ==
  ASSUME TypeOK, NEW d \in Conn, NEW a \in UpFrame, NEW b \in UpFrame, SendUp(d, <<a, b>>)
  PROVE  \A c \in Conn : c2s'[c] = IF c = d /\ link[d] = "up"
                                   THEN Append(Append(c2s[c], a), b) ELSE c2s[c]
<1>1. c2s \in [Conn -> Seq(UpFrame)]
  BY DEF TypeOK
<1>2. ASSUME NEW q \in Seq(UpFrame) PROVE q \o <<a, b>> = Append(Append(q, a), b)
  OBVIOUS
<1>3. c2s[d] \o <<a, b>> = Append(Append(c2s[d], a), b)
  BY <1>1, <1>2
<1> QED
  BY <1>1, <1>3 DEF SendUp

\* Identifiers on the wire are the keys of the table.
LEMMA Identifiers ==
  ASSUME NoWrap, TypeOK, Isolated
  PROVE  /\ \A f \in Fetch : Wire(key[f]) = key[f]
         /\ nextID <= MaxId => Key(nextID) = nextID /\ NextIDAfter(nextID) = nextID + 1
                               /\ Wire(nextID) = nextID
<1>1. \A k \in Nat : k < IdSpace => k % IdSpace = k
  BY MuxAssumption
<1>2. /\ nextID \in Nat /\ nextID > 0 /\ nextID <= MaxId + 1 /\ MaxId \in Nat /\ IdSpace \in Nat
      /\ \A f \in Fetch : key[f] \in Nat /\ key[f] < nextID
  BY MuxAssumption DEF TypeOK, Isolated
<1>3. \A f \in Fetch : key[f] \in Nat /\ key[f] < IdSpace
  BY <1>2 DEF NoWrap
<1>4. \A f \in Fetch : Wire(key[f]) = key[f]
  BY <1>1, <1>3 DEF Wire
<1>5. ASSUME nextID <= MaxId PROVE nextID % IdSpace = nextID
  BY <1>1, <1>2, <1>5 DEF NoWrap
<1> QED
  BY <1>2, <1>4, <1>5 DEF Wire, Key, NextIDAfter

\* A frame from the page finds its own call, if that is still being collected.
LEMMA StatesOf ==
  ASSUME NoWrap, TypeOK, Isolated, NEW c \in Conn, NEW fr \in Arrived(c)
  PROVE  /\ States(c, fr.id) = {f \in {fr.of} : phase[f] = "collecting"}
         /\ sock[fr.of] = c /\ key[fr.of] # 0 /\ fr.id = key[fr.of]
<1>1. 1 \in DOMAIN c2s[c] /\ fr = c2s[c][1] /\ fr.of \in Fetch
  BY ArrivedTyped
<1>2. fr.id = key[fr.of] /\ key[fr.of] # 0 /\ sock[fr.of] = c
  BY <1>1 DEF Isolated, AllCarried, Carried
<1>3. \A f \in Fetch : Wire(key[f]) = key[f]
  BY Identifiers
<1>4. \A f \in Fetch : key[f] = key[fr.of] => f = fr.of
  BY <1>1, <1>2 DEF Isolated
<1> QED
  BY <1>1, <1>2, <1>3, <1>4 DEF States

\* A message finds its own call, if that is still in the table.
LEMMA AddressedOf ==
  ASSUME TypeOK, Isolated, NEW fr \in Message
  PROVE  /\ Addressed(fr) = pending \cap {fr.of}
         /\ sock[fr.of] = conn /\ key[fr.of] # 0 /\ fr.id = key[fr.of]
<1>1. conn \in Conn /\ 1 \in DOMAIN s2c[conn] /\ fr = s2c[conn][1] /\ fr.of \in Fetch
  BY MessageTyped
<1>2. fr.id = key[fr.of] /\ key[fr.of] # 0 /\ sock[fr.of] = conn
  BY <1>1 DEF Isolated, AllCarried, Carried
<1>3. \A f \in Fetch : key[f] = key[fr.of] => f = fr.of
  BY <1>1, <1>2 DEF Isolated
<1> QED
  BY <1>2, <1>3 DEF Addressed, TypeOK

----------------------------------------------------------------------------
(* Isolation is kept.                                                      *)

\* Every frame in a queue was there before or is carried by its own call.
Kept(q, Q, c) == \A i \in DOMAIN Q : (\E j \in DOMAIN q : Q[i] = q[j]) \/ Carried(Q[i], c)

\* The four things a step does to a queue keep it.
LEMMA KeptForms ==
  ASSUME NEW S, NEW q \in Seq(S), NEW c
  PROVE  /\ Kept(q, q, c) /\ Kept(q, <<>>, c)
         /\ q # <<>> => Kept(q, Tail(q), c)
         /\ \A fr \in S : Carried(fr, c) => Kept(q, Append(q, fr), c)
<1>1. Kept(q, q, c) /\ Kept(q, <<>>, c)
  BY DEF Kept
<1>2. q # <<>> => Kept(q, Tail(q), c)
  <2>1. q # <<>> => \A i \in DOMAIN Tail(q) : i + 1 \in DOMAIN q /\ Tail(q)[i] = q[i + 1]
    BY TailHas
  <2> QED
    BY <2>1 DEF Kept
<1>3. ASSUME NEW fr \in S, Carried(fr, c) PROVE Kept(q, Append(q, fr), c)
  <2>1. \A i \in DOMAIN Append(q, fr) : (i \in DOMAIN q /\ Append(q, fr)[i] = q[i]) \/ Append(q, fr)[i] = fr
    BY AppendHas
  <2> QED
    BY <1>3, <2>1 DEF Kept
<1> QED
  BY <1>1, <1>2, <1>3

\* While no call begins, keeping the queues keeps the frames carried.
LEMMA KeptCarried ==
  ASSUME Isolated, key' = key, sock' = sock,
         \A c \in Conn : Kept(c2s[c], c2s'[c], c) /\ Kept(s2c[c], s2c'[c], c)
  PROVE  AllCarried'
<1>1. \A c \in Conn : /\ \A i \in DOMAIN c2s'[c] : Carried(c2s'[c][i], c)
                      /\ \A i \in DOMAIN s2c'[c] : Carried(s2c'[c][i], c)
  BY DEF Isolated, AllCarried, Kept
<1> QED
  BY <1>1 DEF AllCarried, Carried

\* A frame a call makes on its connection is carried.
LEMMA MadeCarried ==
  ASSUME NoWrap, TypeOK, Isolated, NEW f \in Fetch, key[f] # 0, NEW k, NEW n
  PROVE  /\ Carried(Frame(k, Wire(key[f]), f, n), sock[f])
         /\ Frame(k, Wire(key[f]), f, n).of = f /\ Frame(k, Wire(key[f]), f, n).kind = k
         /\ Frame(k, Wire(key[f]), f, n).n = n
  BY Identifiers DEF Frame, Carried

\* No step but Begin makes a frame that is not its call's own.
CallsOn(f) == Fetching(f) \/ Upload(f) \/ UploadEnds(f) \/ UploadThrows(f) \/ CancelStream(f)

\* The steps of a call keep the queues.
LEMMA CallsKeep ==
  ASSUME NoWrap, TypeOK, Isolated, NEW f \in Fetch, CallsOn(f)
  PROVE  /\ key' = key /\ sock' = sock
         /\ \A c \in Conn : Kept(c2s[c], c2s'[c], c) /\ Kept(s2c[c], s2c'[c], c)
<1>t. c2s \in [Conn -> Seq(UpFrame)] /\ s2c \in [Conn -> Seq(DownFrame)] /\ key \in [Fetch -> Nat]
      /\ sent \in [Fetch -> Nat]
  BY DEF TypeOK
<1>1. key' = key /\ sock' = sock /\ s2c' = s2c
  BY DEF CallsOn, Fetching, Upload, UploadEnds, UploadThrows, CancelStream, callVars, netVars
<1>2. ASSUME UNCHANGED c2s, NEW c \in Conn PROVE Kept(c2s[c], c2s'[c], c)
  BY <1>2, <1>t, KeptForms
<1>3. ASSUME key[f] # 0, NEW k \in {START, CHUNK, END, CANCEL}, NEW n \in Nat,
             SendUp(sock[f], <<Frame(k, Wire(key[f]), f, n)>>), NEW c \in Conn
      PROVE  Kept(c2s[c], c2s'[c], c)
  <2> DEFINE fr == Frame(k, Wire(key[f]), f, n)
  <2>1. sock[f] \in Conn
    BY <1>3 DEF Isolated, Born
  <2>2. fr \in UpFrame /\ Carried(fr, sock[f])
    BY <1>3, <1>t, WireType, FrameTypes, MadeCarried
  <2> HIDE DEF fr
  <2>3. c2s'[c] = IF c = sock[f] /\ link[sock[f]] = "up" THEN Append(c2s[c], fr) ELSE c2s[c]
    BY <1>3, <2>1, <2>2, SendOne DEF fr
  <2> QED
    BY <1>t, <2>2, <2>3, KeptForms
<1>4. CASE Fetching(f) \/ UploadThrows(f)
  BY <1>1, <1>2, <1>4, <1>t, KeptForms DEF Fetching, UploadThrows, netVars
<1>5. CASE Upload(f)
  <2>1. key[f] # 0 /\ sent[f] + 1 \in Nat
    <3>1. key[f] # 0 /\ sent[f] \in Nat
      BY <1>5, <1>t DEF Upload, Isolated, Unborn
    <3> QED
      BY <3>1
  <2>2. SendUp(sock[f], <<Frame(CHUNK, Wire(key[f]), f, sent[f] + 1)>>)
    BY <1>5 DEF Upload
  <2> QED
    BY <1>1, <1>3, <1>t, <2>1, <2>2, KeptForms
<1>6. CASE UploadEnds(f)
  <2>1. key[f] # 0 /\ SendUp(sock[f], <<Frame(END, Wire(key[f]), f, 0)>>)
    BY <1>6 DEF UploadEnds, Isolated, Unborn
  <2> QED
    BY <1>1, <1>3, <1>t, <2>1, KeptForms
<1>7. CASE CancelStream(f)
  <2>1. key[f] # 0 /\ SendUp(sock[f], <<Frame(CANCEL, Wire(key[f]), f, 0)>>)
    BY <1>7 DEF CancelStream, Isolated, Unborn
  <2> QED
    BY <1>1, <1>3, <1>t, <2>1, KeptForms
<1> QED
  BY <1>4, <1>5, <1>6, <1>7 DEF CallsOn

Events == SocketOpens \/ SocketFails \/ SocketCloses
          \/ HandleResponse \/ HandleChunk \/ HandleEnd \/ HandleError

\* The page's events keep the queues.
LEMMA EventsKeep ==
  ASSUME TypeOK, Isolated, Events
  PROVE  /\ key' = key /\ sock' = sock
         /\ \A c \in Conn : Kept(c2s[c], c2s'[c], c) /\ Kept(s2c[c], s2c'[c], c)
<1>t. c2s \in [Conn -> Seq(UpFrame)] /\ s2c \in [Conn -> Seq(DownFrame)]
  BY DEF TypeOK
<1>1. key' = key /\ sock' = sock /\ c2s' = c2s
  BY DEF Events, SocketOpens, SocketFails, SocketCloses, HandleResponse, HandleChunk,
         HandleEnd, HandleError, Receive, callVars, netVars
<1>2. ASSUME NEW c \in Conn
      PROVE  s2c'[c] = s2c[c] \/ s2c'[c] = <<>> \/ (s2c[c] # <<>> /\ s2c'[c] = Tail(s2c[c]))
  <2>1. CASE SocketOpens \/ SocketFails
    BY <2>1 DEF SocketOpens, SocketFails, netVars
  <2>2. CASE SocketCloses
    BY <2>2, <1>t DEF SocketCloses
  <2>3. CASE \E fr \in Message : \E k : Receive(k, fr)
    BY <2>3, <1>t, MessageTyped DEF Receive
  <2> QED
    BY <2>1, <2>2, <2>3 DEF Events, HandleResponse, HandleChunk, HandleEnd, HandleError
<1> QED
  BY <1>t, <1>1, <1>2, KeptForms

Reads(c) == OnStart(c) \/ OnChunk(c) \/ OnEnd(c) \/ OnCancel(c) \/ ReadFails(c)

\* The read loop keeps the queues: its errors are carried by their calls.
LEMMA ReadsKeep ==
  ASSUME NoWrap, TypeOK, Isolated, NEW d \in Conn, Reads(d)
  PROVE  /\ key' = key /\ sock' = sock
         /\ \A c \in Conn : Kept(c2s[c], c2s'[c], c) /\ Kept(s2c[c], s2c'[c], c)
<1>t. c2s \in [Conn -> Seq(UpFrame)] /\ s2c \in [Conn -> Seq(DownFrame)] /\ key \in [Fetch -> Nat]
  BY DEF TypeOK
<1>1. key' = key /\ sock' = sock
  BY DEF Reads, OnStart, OnChunk, OnEnd, OnCancel, ReadFails, Read, pageVars, callVars
<1>2. ASSUME NEW c \in Conn PROVE Kept(c2s[c], c2s'[c], c)
  <2>1. CASE ReadFails(d)
    BY <2>1, <1>t, KeptForms DEF ReadFails
  <2>2. CASE \E fr \in Arrived(d) : \E k : Read(d, k, fr)
    <3>1. c2s'[c] = c2s[c] \/ (c2s[c] # <<>> /\ c2s'[c] = Tail(c2s[c]))
      BY <2>2, <1>t, ArrivedTyped DEF Read
    <3> QED
      BY <1>t, <3>1, KeptForms
  <2> QED
    BY <2>1, <2>2 DEF Reads, OnStart, OnChunk, OnEnd, OnCancel
<1>3. ASSUME NEW f \in Fetch, sock[f] = d, key[f] # 0, NEW c \in Conn,
             SendDown(d, <<Frame(RESPONSE_ERROR, Wire(key[f]), f, 0)>>)
      PROVE  Kept(s2c[c], s2c'[c], c)
  <2> DEFINE fr == Frame(RESPONSE_ERROR, Wire(key[f]), f, 0)
  <2>1. fr \in DownFrame /\ Carried(fr, d)
    BY <1>3, <1>t, WireType, FrameTypes, MadeCarried
  <2> HIDE DEF fr
  <2>2. s2c'[c] = IF c = d /\ link[d] = "up" THEN Append(s2c[c], fr) ELSE s2c[c]
    BY <1>3, <2>1, SendOne DEF fr
  <2> QED
    BY <1>t, <2>1, <2>2, KeptForms
<1>4. ASSUME NEW c \in Conn PROVE Kept(s2c[c], s2c'[c], c)
  <2>1. CASE UNCHANGED s2c
    BY <2>1, <1>t, KeptForms
  <2>2. CASE OnStart(d)
    <3>1. PICK fr \in Arrived(d) : \/ UNCHANGED s2c
                                   \/ SendDown(d, <<Frame(RESPONSE_ERROR, fr.id, fr.of, 0)>>)
      BY <2>2 DEF OnStart
    <3>2. fr.of \in Fetch /\ sock[fr.of] = d /\ key[fr.of] # 0 /\ fr.id = Wire(key[fr.of])
      BY ArrivedTyped, StatesOf, Identifiers
    <3> QED
      BY <1>3, <2>1, <3>1, <3>2
  <2>3. CASE OnChunk(d)
    <3>1. PICK fr \in Arrived(d) : \/ UNCHANGED s2c
                                   \/ \E f \in States(d, fr.id) : SendDown(d, OverflowReply(f))
      BY <2>3 DEF OnChunk
    <3>2. fr.of \in Fetch /\ sock[fr.of] = d /\ key[fr.of] # 0 /\ States(d, fr.id) \subseteq {fr.of}
      BY ArrivedTyped, StatesOf
    <3> QED
      BY <1>3, <2>1, <3>1, <3>2 DEF OverflowReply
  <2> QED
    BY <2>1, <2>2, <2>3 DEF Reads, OnEnd, OnCancel, ReadFails
<1> QED
  BY <1>1, <1>2, <1>4

Executes(f) == \/ ExecRefuses(f) \/ ExecResponds(f) \/ ExecStreams(f)
               \/ ExecEnds(f) \/ ExecInterrupted(f) \/ ExecCancelled(f)

\* What an executor sends: at most one frame of its own call.
LEMMA ExecutesSends ==
  ASSUME TypeOK, NEW f \in Fetch, Executes(f)
  PROVE  /\ phase[f] \in {"executing", "responding"}
         /\ UNCHANGED <<pageVars, link, c2s, serving, body>>
         /\ \/ UNCHANGED s2c
            \/ \E k \in {RESPONSE, RESPONSE_CHUNK, RESPONSE_END, RESPONSE_ERROR} : \E n \in Nat :
                  SendDown(sock[f], <<Frame(k, Wire(key[f]), f, n)>>)
<1>1. phase[f] \in {"executing", "responding"} /\ UNCHANGED <<pageVars, link, c2s, serving, body>>
  BY DEF Executes, ExecRefuses, ExecResponds, ExecStreams, ExecEnds, ExecInterrupted,
         ExecCancelled, Executing, netVars
<1>2. produced[f] + 1 \in Nat
  <2>1. produced[f] \in Nat
    BY DEF TypeOK
  <2> QED
    BY <2>1
<1>3. Status \subseteq Nat
  BY MuxAssumption DEF EMPTY, BODY, UNUSABLE, SWITCHING
<1> QED
  BY <1>1, <1>2, <1>3 DEF Executes, ExecRefuses, ExecResponds, ExecStreams, ExecEnds,
         ExecInterrupted, ExecCancelled, InterruptedKind, netVars

\* The executors keep the queues.
LEMMA ExecutesKeep ==
  ASSUME NoWrap, TypeOK, Isolated, NEW f \in Fetch, Executes(f)
  PROVE  /\ key' = key /\ sock' = sock
         /\ \A c \in Conn : Kept(c2s[c], c2s'[c], c) /\ Kept(s2c[c], s2c'[c], c)
<1>t. c2s \in [Conn -> Seq(UpFrame)] /\ s2c \in [Conn -> Seq(DownFrame)] /\ key \in [Fetch -> Nat]
  BY DEF TypeOK
<1>1. key' = key /\ sock' = sock /\ c2s' = c2s
  BY ExecutesSends DEF pageVars, callVars
<1>2. key[f] # 0 /\ sock[f] \in Conn
  BY ExecutesSends DEF Isolated, Unborn, Born
<1>3. ASSUME NEW k \in {RESPONSE, RESPONSE_CHUNK, RESPONSE_END, RESPONSE_ERROR}, NEW n \in Nat,
             SendDown(sock[f], <<Frame(k, Wire(key[f]), f, n)>>), NEW c \in Conn
      PROVE  Kept(s2c[c], s2c'[c], c)
  <2> DEFINE fr == Frame(k, Wire(key[f]), f, n)
  <2>1. fr \in DownFrame /\ Carried(fr, sock[f])
    BY <1>2, <1>t, WireType, FrameTypes, MadeCarried
  <2> HIDE DEF fr
  <2>2. s2c'[c] = IF c = sock[f] /\ link[sock[f]] = "up" THEN Append(s2c[c], fr) ELSE s2c[c]
    BY <1>2, <1>3, <2>1, SendOne DEF fr
  <2> QED
    BY <1>t, <2>1, <2>2, KeptForms
<1> QED
  BY <1>1, <1>3, <1>t, ExecutesSends, KeptForms

\* What is said of calls without and with an identifier is kept.
LEMMA CallsIsolated ==
  ASSUME NoWrap, TypeOK, Isolated, NEW f \in Fetch, CallsOn(f)
  PROVE  \A g \in Fetch : Unborn(g)' /\ Born(g)'
<1> SUFFICES ASSUME NEW g \in Fetch PROVE Unborn(g)' /\ Born(g)'
  OBVIOUS
<1>i. Unborn(g) /\ Born(g) /\ Unborn(f) /\ Born(f) /\ key' = key /\ sock' = sock
  BY CallsKeep DEF Isolated
<1>t. /\ pc \in [Fetch -> {"idle", "await", "upload", "returned", "threw"}]
      /\ sent \in [Fetch -> Nat] /\ conn \in Nat /\ sock \in [Fetch -> 0..MaxConn]
      /\ stream \in [Fetch -> {"none", "nobody", "open", "closed", "errored", "cancelled"}]
  BY DEF TypeOK
<1>1. CASE Fetching(f)
  <2>1. UNCHANGED <<pending, sent, stream, answer, got, phase, body, produced>>
    BY <1>1 DEF Fetching, viewVars, serverVars
  <2>2. pc'[g] = pc[g] \/ (g = f /\ key[g] = 0 /\ pc'[g] = "await")
    BY <1>1, <1>i, <1>t DEF Fetching, Born
  <2>3. Unborn(g)'
    BY <1>i, <2>1, <2>2 DEF Unborn
  <2>4. CASE UNCHANGED <<socket, conn>>
    BY <1>i, <2>1, <2>2, <2>3, <2>4 DEF Born
  <2>5. CASE socket = "none" /\ socket' = "connecting" /\ conn' = conn + 1
    <3>1. key[g] # 0 => sock[g] <= conn /\ sock[g] \in Nat /\ sock[g] # conn' /\ sock[g] <= conn'
      BY <1>i, <1>t, <2>5 DEF Born, Conn
    <3> QED
      BY <1>i, <2>1, <2>2, <2>3, <2>5, <3>1 DEF Born
  <2> QED
    BY <1>1, <2>4, <2>5 DEF Fetching
<1>2. CASE Upload(f)
  <2>1. key[f] # 0 /\ sent' = [sent EXCEPT ![f] = @ + 1]
    BY <1>2, <1>i DEF Upload, Unborn
  <2>2. key[g] = 0 => sent'[g] = sent[g]
    BY <1>t, <2>1
  <2> QED
    BY <1>2, <1>i, <2>2 DEF Upload, viewVars, serverVars, Unborn, Born
<1>3. CASE UploadEnds(f) \/ UploadThrows(f)
  <2>1. key[f] # 0 /\ (pc'[g] = pc[g] \/ (g = f /\ pc'[g] \in {"returned", "threw"}))
    BY <1>3, <1>i, <1>t DEF UploadEnds, UploadThrows, Unborn
  <2> QED
    BY <1>3, <1>i, <2>1 DEF UploadEnds, UploadThrows, viewVars, serverVars, Unborn, Born
<1>4. CASE CancelStream(f)
  <2>1. key[f] # 0 /\ (key[g] = 0 => stream'[g] = stream[g])
    BY <1>4, <1>i, <1>t DEF CancelStream, Unborn
  <2> QED
    BY <1>4, <1>i, <2>1 DEF CancelStream, callVars, serverVars, Unborn, Born
<1> QED
  BY <1>1, <1>2, <1>3, <1>4 DEF CallsOn

\* The page's events keep calls born or unborn.
LEMMA EventsIsolated ==
  ASSUME TypeOK, Isolated, Events
  PROVE  \A g \in Fetch : Unborn(g)' /\ Born(g)'
<1> SUFFICES ASSUME NEW g \in Fetch PROVE Unborn(g)' /\ Born(g)'
  OBVIOUS
<1>i. Unborn(g) /\ Born(g) /\ key' = key /\ sock' = sock
  BY EventsKeep DEF Isolated
<1>1. CASE SocketOpens
  BY <1>1, <1>i DEF SocketOpens, callVars, viewVars, Unborn, Born
<1>2. CASE SocketFails
  <2>1. pc'[g] = pc[g] \/ (pc[g] = "await" /\ pc'[g] = "threw")
    BY <1>2 DEF SocketFails
  <2> QED
    BY <1>2, <1>i, <2>1 DEF SocketFails, viewVars, serverVars, Unborn, Born
<1>3. CASE SocketCloses
  <2>1. stream'[g] = stream[g] \/ stream[g] = "open"
    BY <1>3 DEF SocketCloses, Failed, FailedOnClose
  <2> QED
    BY <1>3, <1>i, <2>1 DEF SocketCloses, callVars, serverVars, Unborn, Born
<1>4. ASSUME NEW fr \in Message, NEW k, Receive(k, fr), pending' \subseteq pending,
             g \notin pending => /\ stream'[g] = stream[g] /\ answer'[g] = answer[g]
                                 /\ got'[g] = got[g]
      PROVE  Unborn(g)' /\ Born(g)'
  BY <1>4, <1>i DEF Receive, callVars, serverVars, Unborn, Born
<1>5. CASE HandleResponse
  BY <1>4, <1>5 DEF HandleResponse, Addressed, TypeOK
<1>6. CASE HandleChunk
  BY <1>4, <1>6 DEF HandleChunk, Addressed, TypeOK
<1>7. CASE HandleEnd
  BY <1>4, <1>7 DEF HandleEnd, Addressed, TypeOK
<1>8. CASE HandleError
  BY <1>4, <1>8 DEF HandleError, Failed, Addressed, TypeOK
<1> QED
  BY <1>1, <1>2, <1>3, <1>5, <1>6, <1>7, <1>8 DEF Events

\* The server moves only calls that have an identifier.
LEMMA ServerIsolated ==
  ASSUME NoWrap, TypeOK, Isolated,
         (\E c \in Conn : Reads(c)) \/ (\E f \in Fetch : Executes(f))
  PROVE  \A g \in Fetch : Unborn(g)' /\ Born(g)'
<1> SUFFICES ASSUME NEW g \in Fetch PROVE Unborn(g)' /\ Born(g)'
  OBVIOUS
<1>i. Unborn(g) /\ Born(g)
  BY DEF Isolated
<1>t. /\ phase \in [Fetch -> {"none", "collecting", "executing", "responding",
                              "ended", "failed", "dropped"}]
      /\ body \in [Fetch -> Seq(Fetch \X Nat)] /\ produced \in [Fetch -> Nat]
  BY DEF TypeOK
<1>1. ASSUME UNCHANGED pageVars,
             key[g] = 0 => phase'[g] = phase[g] /\ body'[g] = body[g] /\ produced'[g] = produced[g]
      PROVE  Unborn(g)' /\ Born(g)'
  BY <1>1, <1>i DEF pageVars, callVars, viewVars, Unborn, Born
<1>2. ASSUME NEW c \in Conn, Reads(c) PROVE Unborn(g)' /\ Born(g)'
  <2>1. \A fr \in Arrived(c) : fr.of \in Fetch /\ key[fr.of] # 0 /\ States(c, fr.id) \subseteq {fr.of}
    BY StatesOf, ArrivedTyped
  <2>2. key[g] = 0 => phase[g] = "none"
    BY <1>i DEF Unborn
  <2>3. CASE OnStart(c)
    <3>1. PICK fr \in Arrived(c) :
            /\ UNCHANGED <<pageVars, produced, body>>
            /\ \E to \in {"collecting", "failed"} : phase' = [phase EXCEPT ![fr.of] = to]
      BY <2>3 DEF OnStart, Read
    <3>2. key[g] = 0 => g # fr.of
      BY <2>1
    <3> QED
      BY <1>1, <1>t, <3>1, <3>2
  <2>4. CASE OnChunk(c)
    <3>1. PICK fr \in Arrived(c) :
            /\ UNCHANGED <<pageVars, produced>>
            /\ \/ UNCHANGED <<phase, body>>
               \/ \E f \in States(c, fr.id) :
                    \/ UNCHANGED phase /\ \E b : body' = [body EXCEPT ![f] = b]
                    \/ UNCHANGED body /\ \E to : phase' = [phase EXCEPT ![f] = to]
      BY <2>4 DEF OnChunk, Read
    <3>2. key[g] = 0 => g \notin States(c, fr.id)
      BY <2>1
    <3> QED
      BY <1>1, <1>t, <3>1, <3>2
  <2>5. CASE OnEnd(c) \/ OnCancel(c)
    <3>1. PICK fr \in Arrived(c) :
            /\ UNCHANGED <<pageVars, produced, body>>
            /\ phase'[g] = phase[g] \/ g \in States(c, fr.id)
      BY <2>5 DEF OnEnd, OnCancel, Read
    <3>2. key[g] = 0 => g \notin States(c, fr.id)
      BY <2>1
    <3> QED
      BY <1>1, <3>1, <3>2
  <2>6. CASE ReadFails(c)
    BY <1>1, <2>2, <2>6 DEF ReadFails
  <2> QED
    BY <1>2, <2>3, <2>4, <2>5, <2>6 DEF Reads
<1>3. ASSUME NEW f \in Fetch, Executes(f) PROVE Unborn(g)' /\ Born(g)'
  <2>1. key[f] # 0 /\ UNCHANGED pageVars /\ UNCHANGED body
    BY <1>3, ExecutesSends DEF Isolated, Unborn
  <2>2. g # f => phase'[g] = phase[g] /\ produced'[g] = produced[g]
    BY <1>3, <1>t DEF Executes, ExecRefuses, ExecResponds, ExecStreams, ExecEnds,
              ExecInterrupted, ExecCancelled, Executing
  <2> QED
    BY <1>1, <2>1, <2>2
<1> QED
  BY <1>2, <1>3

\* A call that begins takes an identifier nobody has.
LEMMA BeginIsolated ==
  ASSUME NoWrap, TypeOK, Isolated, NEW f \in Fetch, Begin(f)
  PROVE  Isolated'
<1>t. /\ c2s \in [Conn -> Seq(UpFrame)] /\ s2c \in [Conn -> Seq(DownFrame)]
      /\ key \in [Fetch -> Nat] /\ sock \in [Fetch -> 0..MaxConn] /\ nextID \in Nat
      /\ pc \in [Fetch -> {"idle", "await", "upload", "returned", "threw"}]
      /\ conn \in Conn /\ \A g \in Fetch : key[g] < nextID
  BY DEF TypeOK, Begin
<1>k. /\ Key(nextID) = nextID /\ NextIDAfter(nextID) = nextID + 1 /\ Wire(nextID) = nextID
      /\ nextID <= MaxId /\ nextID > 0
  BY Identifiers DEF Begin, Isolated
<1>e. /\ pc[f] = "await" /\ socket = "open" /\ UNCHANGED <<socket, conn, sent, s2c>>
      /\ nextID' = nextID + 1
      /\ key' = [key EXCEPT ![f] = nextID] /\ sock' = [sock EXCEPT ![f] = conn]
      /\ pending' = {g \in pending : key[g] # nextID} \cup {f}
      /\ \E p \in {"returned", "upload"} : pc' = [pc EXCEPT ![f] = p]
      /\ UNCHANGED <<stream, answer, got, phase, body, produced>>
  BY <1>k DEF Begin, viewVars, serverVars
<1>f. key[f] = 0
  BY <1>e DEF Isolated, Born
<1>1. nextID' \in 1..(MaxId + 1)
  BY <1>e, <1>k, MuxAssumption DEF Isolated
<1>2. \A g, h \in Fetch : key'[g] = key'[h] /\ key'[g] # 0 => g = h
  <2> TAKE g, h \in Fetch
  <2>1. key[g] < nextID /\ key[h] < nextID /\ key[g] \in Nat /\ key[h] \in Nat
    BY <1>t
  <2> QED
    BY <1>t, <1>e, <2>1 DEF Isolated
<1>3. \A g \in Fetch : Unborn(g)' /\ Born(g)'
  <2> TAKE g \in Fetch
  <2>1. CASE g = f
    <3>1. key'[g] # 0 /\ pc'[g] \notin {"idle", "await"} /\ sock'[g] = conn
      BY <1>e, <1>k, <1>t, <2>1
    <3>2. conn \in Conn /\ conn' = conn /\ conn <= conn /\ socket' = "open"
      BY <1>e, <1>t, MuxAssumption DEF Conn
    <3> QED
      BY <3>1, <3>2 DEF Unborn, Born
  <2>2. CASE g # f
    <3>1. key'[g] = key[g] /\ sock'[g] = sock[g] /\ pc'[g] = pc[g] /\ (g \in pending' => g \in pending)
      BY <1>e, <1>t, <2>2
    <3>2. Unborn(g) /\ Born(g)
      BY DEF Isolated
    <3> QED
      BY <1>e, <3>1, <3>2 DEF Unborn, Born
  <2> QED
    BY <2>1, <2>2
<1>4. AllCarried'
  <2> DEFINE a == Frame(START, nextID, f, 0)
             b == Frame(END, nextID, f, 0)
  <2>1. a \in UpFrame /\ b \in UpFrame
    BY <1>t, FrameTypes
  <2>2. a.of = f /\ b.of = f /\ a.id = nextID /\ b.id = nextID
    BY DEF Frame
  <2>3. SendUp(conn, IF BodyLen[f] = 0 THEN <<a, b>> ELSE <<a>>)
    BY <1>k DEF Begin
  <2> HIDE DEF a, b
  <2>4. \A c \in Conn : \/ c2s'[c] = c2s[c]
                        \/ c = conn /\ c2s'[c] = Append(Append(c2s[c], a), b)
                        \/ c = conn /\ c2s'[c] = Append(c2s[c], a)
    <3>1. CASE BodyLen[f] = 0
      BY ZenonT(30), <1>t, <2>1, <2>3, <3>1, SendBoth
    <3>2. CASE BodyLen[f] # 0
      BY ZenonT(30), <1>t, <2>1, <2>3, <3>2, SendOne
    <3> QED
      BY <3>1, <3>2
  <2>5. ASSUME NEW q \in Seq(UpFrame), NEW i \in DOMAIN Append(Append(q, a), b)
        PROVE  (\E j \in DOMAIN q : Append(Append(q, a), b)[i] = q[j])
               \/ Append(Append(q, a), b)[i] = a \/ Append(Append(q, a), b)[i] = b
    BY <2>1, <2>5
  <2>6. ASSUME NEW q \in Seq(UpFrame), NEW i \in DOMAIN Append(q, a)
        PROVE  (\E j \in DOMAIN q : Append(q, a)[i] = q[j]) \/ Append(q, a)[i] = a
    BY <2>1, <2>6
  <2>7. \A c \in Conn : \A i \in DOMAIN c2s'[c] :
           \/ \E j \in DOMAIN c2s[c] : c2s'[c][i] = c2s[c][j]
           \/ c = conn /\ c2s'[c][i] = a
           \/ c = conn /\ c2s'[c][i] = b
    <3> TAKE c \in Conn
    <3>1. c2s[c] \in Seq(UpFrame)
      BY <1>t
    <3>2. CASE c2s'[c] = c2s[c]
      BY <3>2
    <3>3. CASE c = conn /\ c2s'[c] = Append(Append(c2s[c], a), b)
      BY <2>5, <3>1, <3>3
    <3>4. CASE c = conn /\ c2s'[c] = Append(c2s[c], a)
      BY <2>6, <3>1, <3>4
    <3> QED
      BY <2>4, <3>2, <3>3, <3>4
  <2>8. \A fr, c : Carried(fr, c) => fr.of # f
    BY <1>f DEF Carried
  <2>9. \A fr \in UpFrame \cup DownFrame : \A c : Carried(fr, c) =>
           fr.id = key'[fr.of] /\ key'[fr.of] # 0 /\ sock'[fr.of] = c
    <3>1. \A fr \in UpFrame \cup DownFrame : fr.of \in Fetch
      BY DEF UpFrame, DownFrame
    <3> QED
      BY <1>t, <1>e, <2>8, <3>1 DEF Carried
  <2>10. \A c \in Conn : \A i \in DOMAIN c2s'[c] :
            c2s'[c][i].id = key'[c2s'[c][i].of] /\ key'[c2s'[c][i].of] # 0 /\ sock'[c2s'[c][i].of] = c
    <3> TAKE c \in Conn
    <3> TAKE i \in DOMAIN c2s'[c]
    <3>1. CASE \E j \in DOMAIN c2s[c] : c2s'[c][i] = c2s[c][j]
      <4>1. PICK j \in DOMAIN c2s[c] : c2s'[c][i] = c2s[c][j]
        BY <3>1
      <4>2. c2s[c][j] \in UpFrame /\ Carried(c2s[c][j], c)
        BY <1>t DEF Isolated, AllCarried
      <4> QED
        BY <2>9, <4>1, <4>2
    <3>2. CASE c = conn /\ (c2s'[c][i] = a \/ c2s'[c][i] = b)
      <4>1. key'[f] = nextID /\ sock'[f] = conn /\ nextID # 0
        BY <1>t, <1>e, <1>k
      <4> QED
        BY <2>2, <3>2, <4>1
    <3> QED
      BY <2>7, <3>1, <3>2
  <2>11. \A c \in Conn : \A i \in DOMAIN s2c'[c] :
            s2c'[c][i].id = key'[s2c'[c][i].of] /\ key'[s2c'[c][i].of] # 0 /\ sock'[s2c'[c][i].of] = c
    <3> TAKE c \in Conn
    <3> TAKE i \in DOMAIN s2c'[c]
    <3>1. s2c'[c] = s2c[c] /\ s2c[c][i] \in DownFrame /\ Carried(s2c[c][i], c)
      BY <1>t, <1>e DEF Isolated, AllCarried
    <3> QED
      BY <2>9, <3>1
  <2> QED
    BY <2>10, <2>11 DEF AllCarried, Carried
<1> QED
  BY <1>1, <1>2, <1>3, <1>4 DEF Isolated

\* Every step keeps isolation while identifiers do not wrap.
LEMMA StepIsolated == NoWrap /\ TypeOK /\ Isolated /\ [Next]_vars => Isolated'
<1> SUFFICES ASSUME NoWrap, TypeOK, Isolated, [Next]_vars PROVE Isolated'
  OBVIOUS
<1>1. ASSUME nextID' = nextID, key' = key, sock' = sock,
             \A c \in Conn : Kept(c2s[c], c2s'[c], c) /\ Kept(s2c[c], s2c'[c], c),
             \A g \in Fetch : Unborn(g)' /\ Born(g)'
      PROVE  Isolated'
  <2>1. AllCarried'
    BY <1>1, KeptCarried
  <2> QED
    BY <1>1, <2>1 DEF Isolated
<1>2. ASSUME NEW f \in Fetch, CallsOn(f) PROVE Isolated'
  <2>1. nextID' = nextID
    BY <1>2 DEF CallsOn, Fetching, Upload, UploadEnds, UploadThrows, CancelStream
  <2> QED
    BY <1>1, <1>2, <2>1, CallsKeep, CallsIsolated
<1>3. CASE Events
  <2>1. nextID' = nextID
    BY <1>3 DEF Events, SocketOpens, SocketFails, SocketCloses, HandleResponse, HandleChunk,
           HandleEnd, HandleError, Receive
  <2> QED
    BY <1>1, <1>3, <2>1, EventsKeep, EventsIsolated
<1>4. ASSUME NEW c \in Conn, Reads(c) PROVE Isolated'
  <2>1. nextID' = nextID
    BY <1>4 DEF Reads, OnStart, OnChunk, OnEnd, OnCancel, ReadFails, Read, pageVars
  <2> QED
    BY <1>1, <1>4, <2>1, ReadsKeep, ServerIsolated
<1>5. ASSUME NEW f \in Fetch, Executes(f) PROVE Isolated'
  <2>1. nextID' = nextID
    BY <1>5, ExecutesSends DEF pageVars
  <2> QED
    BY <1>1, <1>5, <2>1, ExecutesKeep, ServerIsolated
<1>6. ASSUME UNCHANGED <<pageVars, c2s, s2c, serverVars>> PROVE Isolated'
  <2>1. UNCHANGED <<nextID, key, sock, c2s, s2c, socket, conn, pc, pending, sent, stream, answer,
                    got, phase, body, produced>>
    BY <1>6 DEF pageVars, callVars, viewVars, serverVars
  <2> QED
    BY <2>1 DEF Isolated, AllCarried, Carried, Unborn, Born
<1>7. CASE \E c \in Conn : LinkDrops(c)
  BY <1>6, <1>7 DEF LinkDrops
<1>8. CASE UNCHANGED vars
  BY <1>6, <1>8 DEF vars, netVars
<1> QED
  BY <1>2, <1>3, <1>4, <1>5, <1>7, <1>8, BeginIsolated
     DEF Next, Page, Server, CallsOn, Events, Reads, Executes

\* Nothing is in flight at first.
LEMMA InitIsolated == Init => Isolated
  BY MuxAssumption DEF Init, Isolated, Unborn, Born, AllCarried

\* While no identifier wraps, every frame in flight belongs to the call its
\* identifier names, on the connection of that call (runtime.js nextID and
\* pending, mux.go states).
THEOREM FramesIsolated ==
  ASSUME NoWrap
  PROVE  Spec => []Isolated
<1>1. Init => TypeOK /\ Isolated
  BY InitTyped, InitIsolated
<1>2. TypeOK /\ Isolated /\ [Next]_vars => (TypeOK /\ Isolated)'
  BY NoWrap, StepTyped, StepIsolated
<1> QED
  BY <1>1, <1>2, PTL DEF Spec

=============================================================================
