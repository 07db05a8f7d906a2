---------------------------- MODULE Page_proofs ----------------------------
(***************************************************************************)
(* Proofs about Page, for any number of writes, calls and targets, and     *)
(* queues, limits and caches of any size.                                  *)
(***************************************************************************)
EXTENDS Page, FiniteSetTheorems, TLAPS

----------------------------------------------------------------------------
(* The inductive invariant.                                                 *)

\* What a target set as HttpOnly is marked so in the jar: there VisibleCookies hides it.
Marked == jar.value \in Secret => jar.httpOnly

\* In compatibility mode one write is under way at a time, the first.
OneAtATime(w) ==
    \A i \in 1 .. Len(w) :
        /\ w[i].kind \in Faithful
        /\ w[i].at \in {"queued", "sent", "saved"}
        /\ i > 1 => w[i].at = "queued"

\* The jar is what the page sees, once it has saved all that the page wrote.
Settled(w) == w = <<>> \/ (Len(w) = 1 /\ w[1].at = "saved")

\* Otherwise the page sees its last write.
SeesItsLast(w, view, cookie) ==
    /\ Settled(w) => VisibleCookies(cookie) = view
    /\ w # <<>> => ViewAfter(w[Len(w)]) = view

InOrder ==
    compatibilityMode /\ ~ disturbed =>
        OneAtATime(writes) /\ SeesItsLast(writes, visibleCookies, jar)

\* A queue without repetitions, apart from what is asked for, and places counted right.
Places(queue, asked, count) ==
    /\ \A i, j \in 1 .. Len(queue) : queue[i] = queue[j] => i = j
    /\ \A i \in 1 .. Len(queue) : queue[i] \notin asked
    /\ IsFiniteSet(asked)
    /\ count = Cardinality(asked) /\ count <= Limit

LookupsStand ==
    /\ Places(resolutionQueue, active, activeResolutions)
    /\ resolvingURLs = ToSet(resolutionQueue) \cup active
    /\ compatibilityMode =>
          \A c \in Call : calls[c].state = "waiting" => calls[c].target \in resolvingURLs

IInv == TypeOK /\ HttpOnlyHidden /\ Marked /\ InOrder /\ LookupsStand

----------------------------------------------------------------------------
(* Sequences.                                                               *)

\* The elements of a sequence.
LEMMA Elements ==
  ASSUME NEW S, NEW s \in Seq(S)
  PROVE  /\ ToSet(s) = {s[i] : i \in 1 .. Len(s)}
         /\ \A i \in 1 .. Len(s) : s[i] \in ToSet(s)
         /\ ToSet(s) \subseteq S
<1>1. DOMAIN s = 1 .. Len(s)
  OBVIOUS
<1>2. ToSet(s) = {s[i] : i \in 1 .. Len(s)}
  BY <1>1 DEF ToSet
<1> QED
  BY <1>2

\* A sequence without repetitions has as many elements as places.
LEMMA CardinalityOfSequence ==
  ASSUME NEW S, NEW s \in Seq(S), \A i, j \in 1 .. Len(s) : s[i] = s[j] => i = j
  PROVE  IsFiniteSet(ToSet(s)) /\ Cardinality(ToSet(s)) = Len(s)
<1>1. Len(s) \in Nat /\ DOMAIN s = 1 .. Len(s)
  OBVIOUS
<1>2. IsFiniteSet(1 .. Len(s)) /\ Cardinality(1 .. Len(s)) = Len(s)
  <2>1. /\ IsFiniteSet(1 .. Len(s))
        /\ Cardinality(1 .. Len(s)) = IF 1 > Len(s) THEN 0 ELSE Len(s) - 1 + 1
    BY <1>1, FS_Interval
  <2> QED
    BY <1>1, <2>1
<1>3. s \in [1 .. Len(s) -> ToSet(s)]
  BY <1>1 DEF ToSet
<1>4. \A x \in ToSet(s) : \E i \in 1 .. Len(s) : s[i] = x
  BY <1>1 DEF ToSet
<1>5. s \in Bijection(1 .. Len(s), ToSet(s))
  BY <1>1, <1>3, <1>4 DEF Bijection, Injection, Surjection, IsInjective
<1>6. ExistsBijection(1 .. Len(s), ToSet(s))
  BY <1>5 DEF ExistsBijection
<1> QED
  BY <1>2, <1>6, FS_Bijection

\* Some places of a sequence.
LEMMA SomePlaces ==
  ASSUME NEW n \in Nat, NEW S \in SUBSET (1 .. n)
  PROVE  IsFiniteSet(S) /\ Cardinality(S) <= n
<1>1. IsFiniteSet(1 .. n) /\ Cardinality(1 .. n) = IF 1 > n THEN 0 ELSE n - 1 + 1
  BY FS_Interval
<1>2. Cardinality(1 .. n) = n
  BY <1>1
<1>3. IsFiniteSet(S) /\ Cardinality(S) <= Cardinality(1 .. n)
  BY <1>1, FS_Subset
<1> QED
  BY <1>2, <1>3

\* The elements of a finite set, put into a sequence: as many, each once.
LEMMA SequenceOfSet ==
  ASSUME NEW S, IsFiniteSet(S)
  PROVE  /\ Cardinality(S) \in Nat
         /\ SetToSeq(S) \in [1 .. Cardinality(S) -> S]
<1>1. Cardinality(S) \in Nat /\ ExistsBijection(1 .. Cardinality(S), S)
  BY FS_CardinalityType
<1>2. \E f \in [1 .. Cardinality(S) -> S] : IsInjective(f)
  BY <1>1 DEF ExistsBijection, Bijection, Injection
<1> QED
  BY <1>1, <1>2 DEF SetToSeq

\* What RemoveAt leaves.
LEMMA Removed ==
  ASSUME NEW S, NEW s \in Seq(S), NEW i \in 1 .. Len(s)
  PROVE  /\ RemoveAt(s, i) \in Seq(S)
         /\ Len(RemoveAt(s, i)) = Len(s) - 1
         /\ \A j \in 1 .. Len(s) - 1 : RemoveAt(s, i)[j] = IF j < i THEN s[j] ELSE s[j + 1]
<1> DEFINE front == SubSeq(s, 1, i - 1)
           back == SubSeq(s, i + 1, Len(s))
<1>1. /\ front \in Seq(S) /\ Len(front) = i - 1
      /\ \A j \in 1 .. i - 1 : front[j] = s[j]
  OBVIOUS
<1>2. /\ back \in Seq(S) /\ Len(back) = Len(s) - i
      /\ \A j \in 1 .. Len(s) - i : back[j] = s[i + j]
  OBVIOUS
<1>3. RemoveAt(s, i) = front \o back
  BY DEF RemoveAt
<1> HIDE DEF front, back
<1>4. /\ front \o back \in Seq(S)
      /\ Len(front \o back) = Len(s) - 1
  BY <1>1, <1>2
<1>5. ASSUME NEW j \in 1 .. Len(s) - 1
      PROVE  (front \o back)[j] = IF j < i THEN s[j] ELSE s[j + 1]
  BY <1>1, <1>2
<1> QED
  BY <1>3, <1>4, <1>5

----------------------------------------------------------------------------
(* The queue of resolutions.                                                *)

\* drainResolutions: it takes what there is room for and no more than there is.
LEMMA TakenBounds ==
  ASSUME PageAssumption, NEW queue \in Seq(Target), NEW count \in Nat, count <= Limit
  PROVE  /\ Taken(queue, count) \in 0 .. Len(queue)
         /\ count + Taken(queue, count) <= Limit
  BY DEF Taken, PageAssumption

\* The two parts of a queue.
LEMMA Parted ==
  ASSUME NEW S, NEW queue \in Seq(S), NEW n \in 0 .. Len(queue)
  PROVE  /\ SubSeq(queue, 1, n) \in Seq(S)
         /\ Len(SubSeq(queue, 1, n)) = n
         /\ \A i \in 1 .. n : SubSeq(queue, 1, n)[i] = queue[i]
         /\ SubSeq(queue, n + 1, Len(queue)) \in Seq(S)
         /\ Len(SubSeq(queue, n + 1, Len(queue))) = Len(queue) - n
         /\ \A i \in 1 .. Len(queue) - n : SubSeq(queue, n + 1, Len(queue))[i] = queue[n + i]
<1>1. Len(queue) \in Nat /\ n \in Nat /\ n <= Len(queue)
  OBVIOUS
<1>2. /\ SubSeq(queue, 1, n) \in Seq(S)
      /\ Len(SubSeq(queue, 1, n)) = n
      /\ \A i \in 1 .. n : SubSeq(queue, 1, n)[i] = queue[i]
  BY <1>1
<1>3. /\ SubSeq(queue, n + 1, Len(queue)) \in Seq(S)
      /\ Len(SubSeq(queue, n + 1, Len(queue))) = Len(queue) - n
  BY <1>1
<1>4. ASSUME NEW i \in 1 .. Len(queue) - n
      PROVE  SubSeq(queue, n + 1, Len(queue))[i] = queue[n + i]
  BY <1>1
<1> QED
  BY <1>2, <1>3, <1>4

\* What is taken and what rests.
Splits(S, queue, n, first, rest) ==
    /\ queue \in Seq(S) /\ first \in Seq(S) /\ rest \in Seq(S)
    /\ n \in 0 .. Len(queue)
    /\ Len(first) = n /\ \A i \in 1 .. n : first[i] = queue[i]
    /\ Len(rest) = Len(queue) - n /\ \A i \in 1 .. Len(queue) - n : rest[i] = queue[n + i]
    /\ \A i, j \in 1 .. Len(queue) : queue[i] = queue[j] => i = j

\* Together they are the queue, and they have nothing in common.
LEMMA PartsApart ==
  ASSUME NEW S, NEW queue, NEW n, NEW first, NEW rest, Splits(S, queue, n, first, rest)
  PROVE  /\ ToSet(first) \subseteq S
         /\ ToSet(rest) \cup ToSet(first) = ToSet(queue)
         /\ \A i, j \in 1 .. Len(first) : first[i] = first[j] => i = j
         /\ \A i, j \in 1 .. Len(rest) : rest[i] = rest[j] => i = j
         /\ \A i \in 1 .. Len(rest) : rest[i] \notin ToSet(first)
<1> USE DEF Splits
<1>1. Len(queue) \in Nat /\ n \in Nat /\ n <= Len(queue)
  OBVIOUS
<1>2. /\ ToSet(queue) = {queue[i] : i \in 1 .. Len(queue)}
      /\ ToSet(first) = {first[i] : i \in 1 .. Len(first)}
      /\ ToSet(rest) = {rest[i] : i \in 1 .. Len(rest)}
  BY Elements
<1>3. ASSUME NEW i \in 1 .. Len(first) PROVE i \in 1 .. Len(queue) /\ first[i] = queue[i]
  BY <1>1
<1>4. ASSUME NEW i \in 1 .. Len(rest) PROVE n + i \in 1 .. Len(queue) /\ rest[i] = queue[n + i]
  BY <1>1
<1>5. ASSUME NEW i \in 1 .. Len(queue)
      PROVE  \/ i \in 1 .. Len(first)
             \/ i - n \in 1 .. Len(rest) /\ rest[i - n] = queue[i]
  BY <1>1
<1>6. ToSet(first) \subseteq S
  BY <1>2
<1>7. ToSet(rest) \cup ToSet(first) = ToSet(queue)
  <2>1. ToSet(rest) \cup ToSet(first) \subseteq ToSet(queue)
    BY <1>2, <1>3, <1>4
  <2>2. ToSet(queue) \subseteq ToSet(rest) \cup ToSet(first)
    BY <1>2, <1>3, <1>5
  <2> QED
    BY <2>1, <2>2
<1>8. \A i, j \in 1 .. Len(first) : first[i] = first[j] => i = j
  BY <1>3
<1>9. ASSUME NEW i \in 1 .. Len(rest), NEW j \in 1 .. Len(rest), rest[i] = rest[j]
      PROVE  i = j
  <2>1. n + i = n + j
    BY <1>4, <1>9
  <2> QED
    BY <2>1, <1>1
<1>10. ASSUME NEW i \in 1 .. Len(rest), NEW j \in 1 .. Len(first)
       PROVE  rest[i] # first[j]
  <2>1. n + i # j
    BY <1>1
  <2> QED
    BY <2>1, <1>3, <1>4
<1> QED
  BY <1>2, <1>6, <1>7, <1>8, <1>9, <1>10

\* Draining keeps the places, and loses no target.
LEMMA Drains ==
  ASSUME PageAssumption, NEW queue \in Seq(Target), NEW asked \in SUBSET Target, NEW count \in Nat,
         Places(queue, asked, count)
  PROVE  LET n == Taken(queue, count)
             rest == SubSeq(queue, n + 1, Len(queue))
             taken == ToSet(SubSeq(queue, 1, n))
         IN  /\ rest \in Seq(Target) /\ taken \subseteq Target /\ count + n \in Nat
             /\ Places(rest, asked \cup taken, count + n)
             /\ ToSet(rest) \cup taken = ToSet(queue)
<1> DEFINE n == Taken(queue, count)
           first == SubSeq(queue, 1, n)
           rest == SubSeq(queue, n + 1, Len(queue))
           taken == ToSet(first)
<1>1. n \in 0 .. Len(queue) /\ count + n <= Limit
  BY TakenBounds DEF Places
<1> HIDE DEF n
<1>2. /\ first \in Seq(Target) /\ Len(first) = n
      /\ \A i \in 1 .. n : first[i] = queue[i]
      /\ rest \in Seq(Target) /\ Len(rest) = Len(queue) - n
      /\ \A i \in 1 .. Len(queue) - n : rest[i] = queue[n + i]
  BY <1>1, Parted
<1> HIDE DEF first, rest
<1>3. \A i, j \in 1 .. Len(queue) : queue[i] = queue[j] => i = j
  BY DEF Places
<1>4. /\ taken \subseteq Target
      /\ ToSet(rest) \cup taken = ToSet(queue)
      /\ \A i, j \in 1 .. Len(first) : first[i] = first[j] => i = j
      /\ \A i, j \in 1 .. Len(rest) : rest[i] = rest[j] => i = j
      /\ \A i \in 1 .. Len(rest) : rest[i] \notin taken
  <2> USE DEF taken
  <2>1. Splits(Target, queue, n, first, rest)
    BY <1>1, <1>2, <1>3 DEF Splits
  <2> QED
    BY <2>1, PartsApart
<1>5. IsFiniteSet(taken) /\ Cardinality(taken) = n
  BY <1>2, <1>4, CardinalityOfSequence
<1> HIDE DEF taken
<1>6. \A x \in ToSet(queue) : x \notin asked
  BY DEF Places, ToSet
<1>7. asked \cap taken = {}
  BY <1>4, <1>6
<1>8. IsFiniteSet(asked \cup taken) /\ Cardinality(asked \cup taken) = count + n
  <2>1. IsFiniteSet(asked) /\ Cardinality(asked) = count
    BY DEF Places
  <2>2. /\ IsFiniteSet(asked \cup taken)
        /\ Cardinality(asked \cup taken) = Cardinality(asked) + Cardinality(taken) - Cardinality(asked \cap taken)
    BY <2>1, <1>5, FS_Union
  <2>3. Cardinality(asked \cap taken) = 0
    BY <1>7, FS_EmptySet
  <2> QED
    BY <2>1, <2>2, <2>3, <1>5, <1>1
<1>9. \A i \in 1 .. Len(rest) : rest[i] \notin asked \cup taken
  <2>1. \A i \in 1 .. Len(rest) : rest[i] \in ToSet(rest)
    BY <1>2, Elements
  <2> QED
    BY <2>1, <1>4, <1>6
<1>10. Places(rest, asked \cup taken, count + n)
  BY <1>1, <1>4, <1>8, <1>9 DEF Places
<1>11. count + n \in Nat
  BY <1>1
<1> QED
  BY <1>2, <1>4, <1>10, <1>11 DEF n, first, rest, taken

----------------------------------------------------------------------------
(* The invariant begins, and what a step does not touch keeps it.           *)

Write == [kind : Kinds, value : Value, at : Stage]
Cookie == [value : Value \cup Secret \cup {Absent, Empty}, httpOnly : BOOLEAN]

\* The two parts of the type invariant.
CookieTypes ==
    /\ jar \in Cookie
    /\ visibleCookies \in Value \cup Secret \cup {Absent, Empty}
    /\ writes \in Seq(Write) /\ Len(writes) <= MaxWrites
    /\ news \subseteq Value \cup Secret \cup {Empty}
    /\ disturbed \in BOOLEAN

LookupTypes ==
    /\ calls \in [Call -> {NotCalled} \cup [state : {"waiting", "resolved", "rejected"}, target : Target]]
    /\ resolutionQueue \in Seq(Target) /\ active \subseteq Target /\ activeResolutions \in Nat
    /\ resolvingURLs \subseteq Target
    /\ resolvedURLs \in Seq(Target) /\ Len(resolvedURLs) <= CacheSize

LEMMA TypesParted ==
  TypeOK <=> (compatibilityMode \in BOOLEAN /\ part \in Parts) /\ CookieTypes /\ LookupTypes
  BY DEF TypeOK, CookieTypes, LookupTypes, Write, Cookie

Cookies == CookieTypes /\ HttpOnlyHidden /\ Marked /\ InOrder
Lookups == LookupTypes /\ LookupsStand

LEMMA InvariantParted ==
  IInv <=> (compatibilityMode \in BOOLEAN /\ part \in Parts) /\ Cookies /\ Lookups
  BY TypesParted DEF IInv, Cookies, Lookups

LEMMA InitInvariant ==
  ASSUME PageAssumption, Init
  PROVE  IInv
<1> USE DEF Init
<1>1. compatibilityMode \in BOOLEAN /\ part \in Parts
  BY DEF PageAssumption
<1>2. CookieTypes
  <2>1. jar \in Cookie
    BY DEF Cookie, NoCookie
  <2>2. writes \in Seq(Write) /\ Len(writes) = 0
    OBVIOUS
  <2>3. Len(writes) <= MaxWrites
    BY <2>2 DEF PageAssumption
  <2> QED
    BY <2>1, <2>2, <2>3 DEF CookieTypes
<1>3. HttpOnlyHidden
  BY DEF HttpOnlyHidden, PageAssumption
<1>4. Marked
  BY DEF Marked, NoCookie, PageAssumption
<1>5. InOrder
  BY DEF InOrder, OneAtATime, SeesItsLast, Settled, VisibleCookies, NoCookie
<1>6. LookupTypes
  <2>1. Len(resolvedURLs) = 0
    OBVIOUS
  <2> QED
    BY <2>1 DEF LookupTypes, PageAssumption
<1>7. LookupsStand
  <2>1. ToSet(<<>>) = {}
    BY DEF ToSet
  <2>2. IsFiniteSet({}) /\ Cardinality({}) = 0
    BY FS_EmptySet
  <2>3. Places(resolutionQueue, active, activeResolutions)
    BY <2>2 DEF Places, PageAssumption
  <2>4. \A c \in Call : calls[c].state # "waiting"
    BY DEF NotCalled
  <2> QED
    BY <2>1, <2>3, <2>4 DEF LookupsStand
<1> QED
  BY <1>1, <1>2, <1>3, <1>4, <1>5, <1>6, <1>7, InvariantParted DEF Cookies, Lookups

LEMMA LookupsKept ==
  ASSUME Lookups, UNCHANGED <<compatibilityMode, resolveVars>>
  PROVE  Lookups'
<1> USE DEF resolveVars
<1>1. LookupTypes'
  BY DEF Lookups, LookupTypes
<1>2. LookupsStand'
  BY DEF Lookups, LookupsStand, Places
<1> QED
  BY <1>1, <1>2 DEF Lookups

LEMMA CookiesKept ==
  ASSUME Cookies, UNCHANGED <<compatibilityMode, cookieVars>>
  PROVE  Cookies'
<1> USE DEF cookieVars
<1>1. CookieTypes' /\ HttpOnlyHidden' /\ Marked'
  BY DEF Cookies, CookieTypes, HttpOnlyHidden, Marked
<1>2. InOrder'
  BY DEF Cookies, InOrder, OneAtATime, SeesItsLast
<1> QED
  BY <1>1, <1>2 DEF Cookies

----------------------------------------------------------------------------
(* The cookie.                                                              *)

\* What the page sees of a jar that is marked is no secret.
LEMMA VisibleIsNoSecret ==
  ASSUME PageAssumption, jar \in Cookie, Marked
  PROVE  VisibleCookies(jar) \in Value \cup {Absent, Empty}
  BY DEF Cookie, Marked, VisibleCookies, PageAssumption

\* What a write does to the two sides.
LEMMA WriteDoes ==
  ASSUME PageAssumption, NEW w \in Write, jar \in Cookie
  PROVE  /\ ViewAfter(w) \in Value \cup {Absent}
         /\ JarAfter(w) \in Cookie
         /\ \/ JarAfter(w) = jar
            \/ JarAfter(w).value \in Value \cup {Absent, Empty}
         /\ w.kind \in Faithful => VisibleCookies(JarAfter(w)) = ViewAfter(w)
<1>1. w.kind \in {"set", "delete", "empty", "expired", "httpOnly"} /\ w.value \in Value
  BY DEF Write, PageAssumption
<1>2. NoCookie \in Cookie /\ NoCookie.value = Absent /\ ~ NoCookie.httpOnly
  BY DEF NoCookie, Cookie
<1>3. ViewAfter(w) \in Value \cup {Absent}
  BY <1>1 DEF ViewAfter
<1>4. CASE w.kind = "httpOnly"
  BY <1>3, <1>4 DEF JarAfter, Faithful
<1>5. CASE w.kind \in {"delete", "expired"}
  <2>1. JarAfter(w) = NoCookie
    BY <1>5 DEF JarAfter
  <2> QED
    BY <2>1, <1>2, <1>3, <1>5 DEF Faithful, ViewAfter, VisibleCookies
<1>6. CASE w.kind = "empty"
  <2>1. JarAfter(w) = [value |-> Empty, httpOnly |-> FALSE]
    BY <1>6 DEF JarAfter
  <2> QED
    BY <2>1, <1>3, <1>6 DEF Faithful, Cookie
<1>7. CASE w.kind = "set"
  <2>1. JarAfter(w) = [value |-> w.value, httpOnly |-> FALSE]
    BY <1>7 DEF JarAfter
  <2> QED
    BY <2>1, <1>1, <1>3, <1>7 DEF Faithful, Cookie, ViewAfter, VisibleCookies
<1> QED
  BY <1>1, <1>4, <1>5, <1>6, <1>7

\* A write on its way.
LEMMA Moved ==
  ASSUME NEW w \in Seq(Write), NEW i \in 1 .. Len(w), NEW at \in Stage
  PROVE  /\ [w EXCEPT ![i].at = at] \in Seq(Write)
         /\ Len([w EXCEPT ![i].at = at]) = Len(w)
         /\ \A j \in 1 .. Len(w) :
               /\ [w EXCEPT ![i].at = at][j].kind = w[j].kind
               /\ [w EXCEPT ![i].at = at][j].value = w[j].value
               /\ [w EXCEPT ![i].at = at][j].at = IF j = i THEN at ELSE w[j].at
<1> DEFINE r == [w[i] EXCEPT !.at = at]
<1>1. w[i] \in Write /\ Len(w) \in Nat
  OBVIOUS
<1>2. r \in Write /\ r.kind = w[i].kind /\ r.value = w[i].value /\ r.at = at
  BY <1>1 DEF Write
<1> HIDE DEF r
<1>3. /\ [w EXCEPT ![i] = r] \in Seq(Write)
      /\ Len([w EXCEPT ![i] = r]) = Len(w)
      /\ \A j \in 1 .. Len(w) : [w EXCEPT ![i] = r][j] = IF j = i THEN r ELSE w[j]
  BY <1>1, <1>2
<1>4. [w EXCEPT ![i].at = at] = [w EXCEPT ![i] = r]
  BY DEF r
<1> QED
  BY <1>2, <1>3, <1>4

LEMMA WriteCookieInv ==
  ASSUME PageAssumption, Cookies, NEW kind \in Kinds, NEW v \in Value, WriteCookie(kind, v)
  PROVE  Cookies'
<1> DEFINE w == [kind |-> kind, value |-> v, at |-> IF SentAtOnce THEN "sent" ELSE "queued"]
<1>1. /\ writes' = Append(writes, w)
      /\ visibleCookies' = IF kind \in {"delete", "empty"} THEN Absent ELSE v
      /\ disturbed' = (disturbed \/ kind \notin Faithful)
      /\ Len(writes) < MaxWrites
      /\ jar' = jar /\ news' = news /\ compatibilityMode' = compatibilityMode
  BY DEF WriteCookie, ViewAfter
<1>2. w \in Write /\ w.kind = kind /\ w.value = v /\ (compatibilityMode => w.at = "queued")
  BY DEF Write, Stage, SentAtOnce
<1> HIDE DEF w
<1>3. CookieTypes'
  <2>1. writes' \in Seq(Write) /\ Len(writes') = Len(writes) + 1
    BY <1>1, <1>2 DEF Cookies, CookieTypes
  <2>2. Len(writes') <= MaxWrites
    BY <1>1, <2>1 DEF Cookies, CookieTypes, PageAssumption
  <2>3. disturbed' \in BOOLEAN
    BY <1>1
  <2> QED
    BY <1>1, <2>1, <2>2, <2>3 DEF Cookies, CookieTypes
<1>4. HttpOnlyHidden' /\ Marked'
  BY <1>1 DEF Cookies, HttpOnlyHidden, Marked, PageAssumption
<1>5. InOrder'
  <2> SUFFICES ASSUME compatibilityMode', ~ disturbed'
               PROVE  OneAtATime(writes') /\ SeesItsLast(writes', visibleCookies', jar')
    BY DEF InOrder
  <2>1. compatibilityMode /\ ~ disturbed /\ kind \in Faithful
    BY <1>1
  <2>2. OneAtATime(writes) /\ writes \in Seq(Write)
    BY <2>1 DEF Cookies, InOrder, CookieTypes
  <2>3. /\ Len(writes') = Len(writes) + 1
        /\ \A i \in 1 .. Len(writes) : writes'[i] = writes[i]
        /\ writes'[Len(writes) + 1] = w
    BY <1>1, <1>2, <2>2
  <2>4. Len(writes) \in Nat
    BY <2>2
  <2>5. OneAtATime(writes')
    BY <1>2, <2>1, <2>2, <2>3, <2>4 DEF OneAtATime
  <2>6. ~ Settled(writes')
    BY <1>2, <2>1, <2>3, <2>4 DEF Settled
  <2>7. ViewAfter(writes'[Len(writes')]) = visibleCookies'
    BY <1>1, <1>2, <2>3 DEF ViewAfter
  <2> QED
    BY <2>5, <2>6, <2>7 DEF SeesItsLast
<1> QED
  BY <1>3, <1>4, <1>5 DEF Cookies

LEMMA SendCookieInv ==
  ASSUME PageAssumption, Cookies, NEW i \in DOMAIN writes, SendCookie(i)
  PROVE  Cookies'
<1>1. /\ writes[i].at = "queued"
      /\ \A j \in 1 .. i - 1 : writes[j].at = "lost"
      /\ writes' = [writes EXCEPT ![i].at = "sent"]
      /\ jar' = jar /\ visibleCookies' = visibleCookies /\ news' = news
      /\ disturbed' = disturbed /\ compatibilityMode' = compatibilityMode
  BY DEF SendCookie
<1>2. writes \in Seq(Write) /\ i \in 1 .. Len(writes) /\ Len(writes) \in Nat
  BY DEF Cookies, CookieTypes
<1>3. /\ writes' \in Seq(Write) /\ Len(writes') = Len(writes)
      /\ \A j \in 1 .. Len(writes) :
            /\ writes'[j].kind = writes[j].kind
            /\ writes'[j].value = writes[j].value
            /\ writes'[j].at = IF j = i THEN "sent" ELSE writes[j].at
  <2>1. "sent" \in Stage
    BY DEF Stage
  <2> QED
    BY <1>1, <1>2, <2>1, Moved
<1>5. CookieTypes' /\ HttpOnlyHidden' /\ Marked'
  BY <1>1, <1>3 DEF Cookies, CookieTypes, HttpOnlyHidden, Marked
<1>6. InOrder'
  <2> SUFFICES ASSUME compatibilityMode', ~ disturbed'
               PROVE  OneAtATime(writes') /\ SeesItsLast(writes', visibleCookies', jar')
    BY DEF InOrder
  <2>1. OneAtATime(writes) /\ SeesItsLast(writes, visibleCookies, jar)
    BY <1>1 DEF Cookies, InOrder
  <2>2. i = 1
    BY <1>1, <1>2, <2>1 DEF OneAtATime
  <2>3. OneAtATime(writes')
    BY <1>2, <1>3, <2>1, <2>2 DEF OneAtATime
  <2>4. ~ Settled(writes')
    BY <1>2, <1>3, <2>2 DEF Settled
  <2>5. ViewAfter(writes'[Len(writes')]) = ViewAfter(writes[Len(writes)])
    BY <1>2, <1>3 DEF ViewAfter
  <2>6. writes # <<>>
    BY <1>2
  <2> QED
    BY <1>1, <2>1, <2>3, <2>4, <2>5, <2>6 DEF SeesItsLast
<1> QED
  BY <1>5, <1>6 DEF Cookies

LEMMA SaveCookieInv ==
  ASSUME PageAssumption, Cookies, NEW i \in DOMAIN writes, SaveCookie(i)
  PROVE  Cookies'
<1>1. /\ writes[i].at \in {"sent", "lost"}
      /\ writes' = IF writes[i].at = "sent" THEN [writes EXCEPT ![i].at = "saved"] ELSE RemoveAt(writes, i)
      /\ \/ jar' = JarAfter(writes[i]) /\ disturbed' = disturbed
         \/ jar' = jar /\ disturbed' = TRUE
      /\ visibleCookies' = visibleCookies /\ news' = news /\ compatibilityMode' = compatibilityMode
  BY DEF SaveCookie
<1>2. writes \in Seq(Write) /\ i \in 1 .. Len(writes) /\ Len(writes) \in Nat /\ jar \in Cookie
  BY DEF Cookies, CookieTypes
<1>3. writes[i] \in Write
  BY <1>2
<1>4. /\ JarAfter(writes[i]) \in Cookie
      /\ JarAfter(writes[i]) = jar \/ JarAfter(writes[i]).value \in Value \cup {Absent, Empty}
      /\ writes[i].kind \in Faithful => VisibleCookies(JarAfter(writes[i])) = ViewAfter(writes[i])
  BY <1>2, <1>3, WriteDoes
<1>5. writes' \in Seq(Write) /\ Len(writes') <= MaxWrites
  <2>1. Len(writes) <= MaxWrites /\ MaxWrites \in Nat
    BY DEF Cookies, CookieTypes, PageAssumption
  <2>2. CASE writes[i].at = "sent"
    <3>1. "saved" \in Stage
      BY DEF Stage
    <3>2. writes' \in Seq(Write) /\ Len(writes') = Len(writes)
      BY <1>1, <1>2, <2>2, <3>1, Moved
    <3> QED
      BY <2>1, <3>2
  <2>3. CASE writes[i].at # "sent"
    <3>1. writes' \in Seq(Write) /\ Len(writes') = Len(writes) - 1
      BY <1>1, <1>2, <2>3, Removed
    <3> QED
      BY <1>2, <2>1, <3>1
  <2> QED
    BY <2>2, <2>3
<1>6. CookieTypes'
  <2>1. disturbed' \in BOOLEAN
    BY <1>1 DEF Cookies, CookieTypes
  <2>2. jar' \in Cookie
    BY <1>1, <1>2, <1>4
  <2> QED
    BY <1>1, <1>5, <2>1, <2>2 DEF Cookies, CookieTypes
<1>7. HttpOnlyHidden'
  BY <1>1 DEF Cookies, HttpOnlyHidden
<1>8. Marked'
  <2>1. JarAfter(writes[i]).value \in Value \cup {Absent, Empty} => JarAfter(writes[i]).value \notin Secret
    BY DEF PageAssumption
  <2> QED
    BY <1>1, <1>4, <2>1 DEF Cookies, Marked
<1>9. InOrder'
  <2> SUFFICES ASSUME compatibilityMode', ~ disturbed'
               PROVE  OneAtATime(writes') /\ SeesItsLast(writes', visibleCookies', jar')
    BY DEF InOrder
  <2>1. jar' = JarAfter(writes[i]) /\ compatibilityMode /\ ~ disturbed
    BY <1>1
  <2>2. OneAtATime(writes) /\ SeesItsLast(writes, visibleCookies, jar)
    BY <2>1 DEF Cookies, InOrder
  <2>3. i = 1 /\ writes[1].at = "sent" /\ writes[1].kind \in Faithful
    BY <1>1, <1>2, <2>2 DEF OneAtATime
  <2>4. /\ Len(writes') = Len(writes)
        /\ \A j \in 1 .. Len(writes) :
              /\ writes'[j].kind = writes[j].kind
              /\ writes'[j].value = writes[j].value
              /\ writes'[j].at = IF j = i THEN "saved" ELSE writes[j].at
    <3>1. "saved" \in Stage
      BY DEF Stage
    <3> QED
      BY <1>1, <1>2, <2>3, <3>1, Moved
  <2>5. OneAtATime(writes')
    BY <1>2, <2>2, <2>3, <2>4 DEF OneAtATime
  <2>6. ViewAfter(writes'[Len(writes')]) = ViewAfter(writes[Len(writes)])
    BY <1>2, <2>4 DEF ViewAfter
  <2>7. ViewAfter(writes[Len(writes)]) = visibleCookies
    BY <1>2, <2>2 DEF SeesItsLast
  <2>8. Settled(writes') => Len(writes) = 1
    BY <1>2, <2>4 DEF Settled
  <2>9. Settled(writes') => VisibleCookies(jar') = visibleCookies'
    BY <1>1, <1>4, <2>1, <2>3, <2>7, <2>8
  <2> QED
    BY <1>1, <2>5, <2>6, <2>7, <2>9 DEF SeesItsLast
<1> QED
  BY <1>6, <1>7, <1>8, <1>9 DEF Cookies

LEMMA FetchSettlesInv ==
  ASSUME PageAssumption, Cookies, NEW i \in DOMAIN writes, FetchSettles(i)
  PROVE  Cookies'
<1>1. /\ writes[i].at = "saved"
      /\ writes' = RemoveAt(writes, i)
      /\ jar' = jar /\ visibleCookies' = visibleCookies /\ news' = news
      /\ disturbed' = disturbed /\ compatibilityMode' = compatibilityMode
  BY DEF FetchSettles
<1>2. /\ writes \in Seq(Write) /\ i \in 1 .. Len(writes) /\ Len(writes) \in Nat
      /\ Len(writes) <= MaxWrites /\ MaxWrites \in Nat
  BY DEF Cookies, CookieTypes, PageAssumption
<1>3. /\ writes' \in Seq(Write)
      /\ Len(writes') = Len(writes) - 1
      /\ \A j \in 1 .. Len(writes) - 1 : writes'[j] = IF j < i THEN writes[j] ELSE writes[j + 1]
  BY <1>1, <1>2, Removed
<1>4. CookieTypes'
  <2>1. Len(writes') <= MaxWrites
    BY <1>2, <1>3
  <2> QED
    BY <1>1, <1>3, <2>1 DEF Cookies, CookieTypes
<1>5. HttpOnlyHidden' /\ Marked'
  BY <1>1 DEF Cookies, HttpOnlyHidden, Marked
<1>6. InOrder'
  <2> SUFFICES ASSUME compatibilityMode', ~ disturbed'
               PROVE  OneAtATime(writes') /\ SeesItsLast(writes', visibleCookies', jar')
    BY DEF InOrder
  <2>1. OneAtATime(writes) /\ SeesItsLast(writes, visibleCookies, jar)
    BY <1>1 DEF Cookies, InOrder
  <2>2. i = 1
    BY <1>1, <1>2, <2>1 DEF OneAtATime
  <2>3. \A j \in 1 .. Len(writes) - 1 : writes'[j] = writes[j + 1] /\ j + 1 \in 1 .. Len(writes) /\ j + 1 > 1
    BY <1>2, <1>3, <2>2
  <2>4. \A j \in 1 .. Len(writes) - 1 : writes'[j].at = "queued" /\ writes'[j].kind \in Faithful
    BY <2>1, <2>3 DEF OneAtATime
  <2>5. OneAtATime(writes')
    BY <1>2, <1>3, <2>4 DEF OneAtATime
  <2>6. CASE Len(writes) = 1
    <3>1. writes' = <<>>
      BY <1>3, <2>6
    <3>2. Settled(writes)
      BY <1>1, <2>2, <2>6 DEF Settled
    <3> QED
      BY <1>1, <2>1, <2>5, <3>1, <3>2 DEF SeesItsLast
  <2>7. CASE Len(writes) # 1
    <3>1. Len(writes) - 1 \in 1 .. Len(writes) - 1 /\ Len(writes) # 0
      <4>1. Len(writes) >= 1
        BY <1>2
      <4>2. Len(writes) - 1 >= 1 /\ Len(writes) - 1 \in Nat
        BY ONLY <1>2, <2>7, <4>1
      <4> QED
        BY ONLY <4>1, <4>2, <1>2
    <3>2. writes'[Len(writes')] = writes[Len(writes)]
      BY <1>2, <1>3, <2>3, <3>1
    <3>3. writes'[1].at = "queued" /\ Len(writes') # 0
      BY <1>2, <1>3, <2>4, <3>1
    <3>4. ~ Settled(writes')
      BY <3>3 DEF Settled
    <3>5. writes # <<>>
      BY <3>1
    <3> QED
      BY <1>1, <2>1, <2>5, <3>2, <3>4, <3>5 DEF SeesItsLast
  <2> QED
    BY <2>6, <2>7
<1> QED
  BY <1>4, <1>5, <1>6 DEF Cookies

LEMMA FetchFailsInv ==
  ASSUME PageAssumption, Cookies, NEW i \in DOMAIN writes, FetchFails(i)
  PROVE  Cookies'
<1>1. /\ writes' = [writes EXCEPT ![i].at = "lost"]
      /\ disturbed' = TRUE
      /\ jar' = jar /\ visibleCookies' = visibleCookies /\ news' = news
  BY DEF FetchFails
<1>2. "lost" \in Stage /\ writes \in Seq(Write) /\ i \in 1 .. Len(writes)
  BY DEF Cookies, CookieTypes, Stage
<1>3. writes' \in Seq(Write) /\ Len(writes') = Len(writes)
  BY <1>1, <1>2, Moved
<1> QED
  BY <1>1, <1>3 DEF Cookies, CookieTypes, HttpOnlyHidden, Marked, InOrder

\* A target sets the cookie, an HttpOnly one marked so.
LEMMA TargetSetsCookieInv ==
  ASSUME PageAssumption, Cookies, TargetSetsCookie
  PROVE  Cookies'
<1>1. /\ jar' \in [value : Value, httpOnly : {FALSE}] \cup [value : Secret, httpOnly : {TRUE}] \cup {NoCookie}
      /\ disturbed' = TRUE
      /\ visibleCookies' = visibleCookies /\ writes' = writes /\ news' = news
  BY DEF TargetSetsCookie
<1>2. jar' \in Cookie
  <2>1. [value : Value, httpOnly : {FALSE}] \subseteq Cookie
    BY DEF Cookie
  <2>2. [value : Secret, httpOnly : {TRUE}] \subseteq Cookie
    BY DEF Cookie
  <2>3. NoCookie \in Cookie
    BY DEF Cookie, NoCookie
  <2> QED
    BY <1>1, <2>1, <2>2, <2>3
<1>3. Marked'
  <2>1. CASE jar' \in [value : Value, httpOnly : {FALSE}]
    BY <2>1 DEF Marked, PageAssumption
  <2>2. CASE jar' \in [value : Secret, httpOnly : {TRUE}]
    BY <2>2 DEF Marked
  <2>3. CASE jar' = NoCookie
    BY <2>3 DEF Marked, NoCookie, PageAssumption
  <2> QED
    BY <1>1, <2>1, <2>2, <2>3
<1> QED
  BY <1>1, <1>2, <1>3 DEF Cookies, CookieTypes, HttpOnlyHidden, InOrder

LEMMA MuxReadsCookiesInv ==
  ASSUME PageAssumption, Cookies, MuxReadsCookies
  PROVE  Cookies'
<1>1. /\ VisibleCookies(jar) # Absent
      /\ news' = news \cup {VisibleCookies(jar)}
      /\ jar' = jar /\ visibleCookies' = visibleCookies /\ writes' = writes
      /\ disturbed' = disturbed /\ compatibilityMode' = compatibilityMode
  BY DEF MuxReadsCookies
<1>2. VisibleCookies(jar) \in Value \cup {Absent, Empty}
  BY VisibleIsNoSecret DEF Cookies, CookieTypes
<1>3. CookieTypes'
  BY <1>1, <1>2 DEF Cookies, CookieTypes
<1>4. HttpOnlyHidden'
  BY <1>1, <1>2 DEF Cookies, HttpOnlyHidden, PageAssumption
<1> QED
  BY <1>1, <1>3, <1>4 DEF Cookies, Marked, InOrder

LEMMA ResponseStartsInv ==
  ASSUME PageAssumption, Cookies, NEW v \in Value \cup Secret \cup {Empty}, ResponseStarts(v)
  PROVE  Cookies'
<1>1. /\ v \in news /\ news' = news \ {v}
      /\ visibleCookies' = IF v = Empty THEN Absent ELSE v
      /\ disturbed' = (disturbed \/ visibleCookies' # visibleCookies)
      /\ jar' = jar /\ writes' = writes /\ compatibilityMode' = compatibilityMode
  BY DEF ResponseStarts
<1>2. CookieTypes'
  <2>1. disturbed' \in BOOLEAN
    BY <1>1
  <2> QED
    BY <1>1, <2>1 DEF Cookies, CookieTypes
<1>3. HttpOnlyHidden'
  BY <1>1 DEF Cookies, HttpOnlyHidden, PageAssumption
<1>4. InOrder'
  <2>1. ~ disturbed' => ~ disturbed /\ visibleCookies' = visibleCookies
    BY <1>1
  <2> QED
    BY <1>1, <2>1 DEF Cookies, InOrder
<1> QED
  BY <1>1, <1>2, <1>3, <1>4 DEF Cookies, Marked

----------------------------------------------------------------------------
(* Another page.                                                            *)

LEMMA LoadPageCookies ==
  ASSUME PageAssumption, Cookies, LoadPage
  PROVE  Cookies'
<1> DEFINE left == SetToSeq(AtWork)
           n == Cardinality(AtWork)
<1>1. /\ visibleCookies' = VisibleCookies(jar)
      /\ writes' = [k \in DOMAIN left |-> [writes[left[k]] EXCEPT !.at = "lost"]]
      /\ disturbed' = (AtWork # {})
      /\ news' = {} /\ jar' = jar /\ compatibilityMode' = compatibilityMode
  BY DEF LoadPage
<1>2. /\ writes \in Seq(Write) /\ Len(writes) \in Nat
      /\ Len(writes) <= MaxWrites /\ MaxWrites \in Nat /\ jar \in Cookie
  BY DEF Cookies, CookieTypes, PageAssumption
<1>3. AtWork \in SUBSET (1 .. Len(writes))
  BY <1>2 DEF AtWork
<1>4. IsFiniteSet(AtWork) /\ n <= Len(writes)
  BY <1>2, <1>3, SomePlaces
<1>5. n \in Nat /\ left \in [1 .. n -> AtWork]
  BY <1>4, SequenceOfSet
<1>6. ASSUME NEW r \in Write PROVE [r EXCEPT !.at = "lost"] \in Write
  BY DEF Write, Stage
<1> HIDE DEF left, n
<1>7. writes' \in [1 .. n -> Write]
  <2>1. DOMAIN left = 1 .. n
    BY <1>5
  <2>2. ASSUME NEW k \in 1 .. n PROVE [writes[left[k]] EXCEPT !.at = "lost"] \in Write
    <3>1. left[k] \in 1 .. Len(writes)
      BY <1>3, <1>5
    <3>2. writes[left[k]] \in Write
      BY <1>2, <3>1
    <3> QED
      BY <1>6, <3>2
  <2> QED
    BY <1>1, <2>1, <2>2
<1>8. writes' \in Seq(Write) /\ Len(writes') = n
  BY <1>5, <1>7
<1>9. VisibleCookies(jar) \in Value \cup {Absent, Empty}
  BY <1>2, VisibleIsNoSecret DEF Cookies
<1>10. CookieTypes'
  <2>1. Len(writes') <= MaxWrites
    BY <1>2, <1>4, <1>5, <1>8
  <2>2. disturbed' \in BOOLEAN
    BY <1>1
  <2> QED
    BY <1>1, <1>2, <1>8, <1>9, <2>1, <2>2 DEF CookieTypes
<1>11. HttpOnlyHidden'
  BY <1>1, <1>9 DEF HttpOnlyHidden, PageAssumption
<1>12. Marked'
  BY <1>1 DEF Cookies, Marked
<1>13. InOrder'
  <2> SUFFICES ASSUME AtWork = {}
               PROVE  OneAtATime(writes') /\ SeesItsLast(writes', visibleCookies', jar')
    BY <1>1 DEF InOrder
  <2>1. n = 0
    BY FS_EmptySet DEF n
  <2>2. writes' = <<>>
    BY <1>8, <2>1
  <2>3. Len(writes') = 0
    BY <1>8, <2>1
  <2> QED
    BY <1>1, <2>2, <2>3 DEF OneAtATime, SeesItsLast
<1> QED
  BY <1>10, <1>11, <1>12, <1>13 DEF Cookies

LEMMA LoadPageLookups ==
  ASSUME PageAssumption, Lookups, LoadPage
  PROVE  Lookups'
<1>1. /\ calls' = [c \in Call |-> NotCalled]
      /\ resolutionQueue' = <<>> /\ active' = {} /\ activeResolutions' = 0
      /\ resolvingURLs' = {} /\ resolvedURLs' = <<>>
  BY DEF LoadPage
<1>2. LookupTypes'
  <2>1. Len(resolvedURLs') = 0
    BY <1>1
  <2> QED
    BY <1>1, <2>1 DEF LookupTypes, PageAssumption
<1>3. LookupsStand'
  <2>1. ToSet(<<>>) = {}
    BY DEF ToSet
  <2>2. IsFiniteSet({}) /\ Cardinality({}) = 0
    BY FS_EmptySet
  <2>3. Places(resolutionQueue', active', activeResolutions')
    BY <1>1, <2>2 DEF Places, PageAssumption
  <2>4. \A c \in Call : calls'[c].state # "waiting"
    BY <1>1 DEF NotCalled
  <2> QED
    BY <1>1, <2>1, <2>3, <2>4 DEF LookupsStand
<1> QED
  BY <1>2, <1>3 DEF Lookups

----------------------------------------------------------------------------
(* Lookups.                                                                 *)

Result == [state : {"waiting", "resolved", "rejected"}, target : Target]
Calls == [Call -> {NotCalled} \cup Result]

\* What a drain of the queue leaves.
LEMMA DrainKeeps ==
  ASSUME PageAssumption, NEW queue \in Seq(Target), NEW asked \in SUBSET Target, NEW count \in Nat,
         Places(queue, asked, count), Drain(queue, asked, count)
  PROVE  /\ resolutionQueue' \in Seq(Target) /\ active' \subseteq Target /\ activeResolutions' \in Nat
         /\ Places(resolutionQueue', active', activeResolutions')
         /\ ToSet(resolutionQueue') \cup active' = ToSet(queue) \cup asked
<1>1. /\ resolutionQueue' = SubSeq(queue, Taken(queue, count) + 1, Len(queue))
      /\ active' = asked \cup ToSet(SubSeq(queue, 1, Taken(queue, count)))
      /\ activeResolutions' = count + Taken(queue, count)
  BY DEF Drain
<1>2. /\ resolutionQueue' \in Seq(Target)
      /\ ToSet(SubSeq(queue, 1, Taken(queue, count))) \subseteq Target
      /\ activeResolutions' \in Nat
      /\ Places(resolutionQueue', active', activeResolutions')
      /\ ToSet(resolutionQueue') \cup ToSet(SubSeq(queue, 1, Taken(queue, count))) = ToSet(queue)
  BY <1>1, Drains
<1> QED
  BY <1>1, <1>2

\* A target at the end of the queue.
LEMMA Appended ==
  ASSUME NEW queue \in Seq(Target), NEW asked \in SUBSET Target, NEW count, NEW x \in Target,
         Places(queue, asked, count), x \notin ToSet(queue) \cup asked
  PROVE  /\ Append(queue, x) \in Seq(Target)
         /\ Places(Append(queue, x), asked, count)
         /\ ToSet(Append(queue, x)) = ToSet(queue) \cup {x}
<1> DEFINE longer == Append(queue, x)
<1>1. /\ longer \in Seq(Target) /\ Len(longer) = Len(queue) + 1 /\ Len(queue) \in Nat
      /\ longer[Len(queue) + 1] = x
      /\ \A i \in 1 .. Len(queue) : longer[i] = queue[i]
  OBVIOUS
<1> HIDE DEF longer
<1>2. \A i \in 1 .. Len(queue) : queue[i] # x /\ queue[i] \notin asked
  BY Elements DEF Places
<1>3. \A i, j \in 1 .. Len(longer) : longer[i] = longer[j] => i = j
  BY <1>1, <1>2 DEF Places
<1>4. \A i \in 1 .. Len(longer) : longer[i] \notin asked
  BY <1>1, <1>2
<1>5. Places(longer, asked, count)
  BY <1>3, <1>4 DEF Places
<1>6. ToSet(longer) = ToSet(queue) \cup {x}
  <2>1. /\ ToSet(longer) = {longer[i] : i \in 1 .. Len(longer)}
        /\ ToSet(queue) = {queue[i] : i \in 1 .. Len(queue)}
    BY <1>1, Elements
  <2> QED
    BY <1>1, <2>1
<1> QED
  BY <1>1, <1>5, <1>6 DEF longer

\* One lookup less.
LEMMA Released ==
  ASSUME NEW queue \in Seq(Target), NEW asked, NEW count \in Nat, NEW x \in asked,
         PageAssumption, Places(queue, asked, count)
  PROVE  count - 1 \in Nat /\ Places(queue, asked \ {x}, count - 1) /\ x \notin ToSet(queue)
<1>1. IsFiniteSet(asked) /\ count = Cardinality(asked) /\ count <= Limit /\ Limit \in Nat
  BY DEF Places, PageAssumption
<1>2. /\ IsFiniteSet(asked \ {x})
      /\ Cardinality(asked \ {x}) = Cardinality(asked) - 1
  BY <1>1, FS_RemoveElement
<1>3. Cardinality(asked \ {x}) \in Nat
  BY <1>2, FS_CardinalityType
<1>4. x \notin ToSet(queue)
  BY Elements DEF Places
<1> QED
  BY <1>1, <1>2, <1>3, <1>4 DEF Places

LEMMA ResolveURLInv ==
  ASSUME PageAssumption, Lookups, NEW c \in Call, NEW x \in Target, ResolveURL(c, x)
  PROVE  Lookups'
<1> USE DEF Calls, Result
<1>1. /\ calls \in Calls /\ resolutionQueue \in Seq(Target)
      /\ active \in SUBSET Target /\ activeResolutions \in Nat /\ resolvingURLs \in SUBSET Target
      /\ resolvedURLs \in Seq(Target) /\ Len(resolvedURLs) <= CacheSize
  BY DEF Lookups, LookupTypes
<1>2. /\ Places(resolutionQueue, active, activeResolutions)
      /\ resolvingURLs = ToSet(resolutionQueue) \cup active
      /\ compatibilityMode => \A d \in Call : calls[d].state = "waiting" => calls[d].target \in resolvingURLs
  BY DEF Lookups, LookupsStand
<1>3. /\ compatibilityMode /\ compatibilityMode' /\ resolvedURLs' = resolvedURLs
  BY DEF ResolveURL
<1>4. CASE /\ Gets(c, x)
           /\ UNCHANGED <<resolutionQueue, active, activeResolutions, resolvingURLs>>
  <2>1. calls' = [calls EXCEPT ![c] = [state |-> "resolved", target |-> x]]
    BY <1>4 DEF Gets
  <2>2. calls' \in Calls
    BY <1>1, <2>1
  <2>3. \A d \in Call : calls'[d].state = "waiting" => calls'[d].target \in resolvingURLs
    BY <1>1, <1>2, <1>3, <2>1
  <2> QED
    BY <1>1, <1>2, <1>3, <1>4, <2>2, <2>3 DEF Lookups, LookupTypes, LookupsStand
<1>5. CASE /\ Shared(x) /\ Waits(c, x)
           /\ UNCHANGED <<resolutionQueue, active, activeResolutions, resolvingURLs>>
  <2>1. calls' = [calls EXCEPT ![c] = [state |-> "waiting", target |-> x]] /\ x \in resolvingURLs
    BY <1>5 DEF Waits, Shared
  <2>2. calls' \in Calls
    BY <1>1, <2>1
  <2>3. \A d \in Call : calls'[d].state = "waiting" => calls'[d].target \in resolvingURLs
    BY <1>1, <1>2, <1>3, <2>1
  <2> QED
    BY <1>1, <1>2, <1>3, <1>5, <2>2, <2>3 DEF Lookups, LookupTypes, LookupsStand
<1>6. CASE /\ ~ Shared(x) /\ Waits(c, x)
           /\ resolvingURLs' = resolvingURLs \cup {x}
           /\ Drain(Append(resolutionQueue, x), active, activeResolutions)
  <2>1. calls' = [calls EXCEPT ![c] = [state |-> "waiting", target |-> x]] /\ x \notin resolvingURLs
    BY <1>6 DEF Waits, Shared
  <2>2. calls' \in Calls
    BY <1>1, <2>1
  <2>3. \A d \in Call : calls'[d].state = "waiting" => calls'[d].target \in resolvingURLs'
    BY <1>1, <1>2, <1>3, <1>6, <2>1
  <2>4. /\ Append(resolutionQueue, x) \in Seq(Target)
        /\ Places(Append(resolutionQueue, x), active, activeResolutions)
        /\ ToSet(Append(resolutionQueue, x)) = ToSet(resolutionQueue) \cup {x}
    BY <1>1, <1>2, <2>1, Appended
  <2>5. /\ resolutionQueue' \in Seq(Target) /\ active' \subseteq Target /\ activeResolutions' \in Nat
        /\ Places(resolutionQueue', active', activeResolutions')
        /\ ToSet(resolutionQueue') \cup active' = ToSet(Append(resolutionQueue, x)) \cup active
    BY <1>1, <1>6, <2>4, DrainKeeps
  <2>6. resolvingURLs' \subseteq Target /\ resolvingURLs' = ToSet(resolutionQueue') \cup active'
    BY <1>1, <1>2, <1>6, <2>4, <2>5
  <2> QED
    BY <1>1, <1>3, <2>2, <2>3, <2>5, <2>6 DEF Lookups, LookupTypes, LookupsStand
<1> QED
  BY <1>4, <1>5, <1>6 DEF ResolveURL

LEMMA ResolveDirectlyInv ==
  ASSUME PageAssumption, Lookups, NEW c \in Call, NEW x \in Target, ResolveDirectly(c, x)
  PROVE  Lookups'
<1>1. /\ calls' = [calls EXCEPT ![c] = [state |-> "waiting", target |-> x]]
      /\ ~ compatibilityMode /\ compatibilityMode' = compatibilityMode
      /\ UNCHANGED <<resolutionQueue, active, activeResolutions, resolvingURLs, resolvedURLs>>
  BY DEF ResolveDirectly, Waits
<1>2. LookupTypes'
  BY <1>1 DEF Lookups, LookupTypes
<1> QED
  BY <1>1, <1>2 DEF Lookups, LookupsStand, Places

LEMMA AnsweredInv ==
  ASSUME PageAssumption, Lookups, NEW c \in Call, Answered(c)
  PROVE  Lookups'
<1>1. PICK state \in {"resolved", "rejected"} : calls' = [calls EXCEPT ![c].state = state]
  BY DEF Answered
<1>2. /\ ~ compatibilityMode /\ compatibilityMode' = compatibilityMode /\ calls[c].state = "waiting"
      /\ UNCHANGED <<resolutionQueue, active, activeResolutions, resolvingURLs, resolvedURLs>>
  BY DEF Answered
<1>3. calls \in Calls
  BY DEF Lookups, LookupTypes, Calls, Result
<1>4. calls[c] \in Result
  BY <1>2, <1>3 DEF Calls, NotCalled
<1>5. [calls[c] EXCEPT !.state = state] \in Result
  BY <1>4 DEF Result
<1>6. calls' \in Calls
  BY <1>1, <1>3, <1>5 DEF Calls
<1>7. LookupTypes'
  BY <1>2, <1>6 DEF Lookups, LookupTypes, Calls, Result
<1> QED
  BY <1>2, <1>7 DEF Lookups, LookupsStand, Places

\* The cache makes room for one.
LEMMA CacheBounded ==
  ASSUME PageAssumption, NEW x \in Target, resolvedURLs \in Seq(Target), Len(resolvedURLs) <= CacheSize
  PROVE  Remembered(x) \in Seq(Target) /\ Len(Remembered(x)) <= CacheSize
<1>1. CacheSize \in Nat /\ CacheSize # 0
  BY DEF PageAssumption
<1>2. CASE Len(resolvedURLs) >= CacheSize
  <2>1. resolvedURLs # <<>> /\ Len(resolvedURLs) = CacheSize
    BY <1>1, <1>2
  <2>2. Tail(resolvedURLs) \in Seq(Target) /\ Len(Tail(resolvedURLs)) = CacheSize - 1
    BY <2>1
  <2> QED
    BY <1>1, <1>2, <2>2 DEF Remembered
<1>3. CASE ~ (Len(resolvedURLs) >= CacheSize)
  BY <1>1, <1>3 DEF Remembered
<1> QED
  BY <1>2, <1>3

LEMMA ResolutionSettlesInv ==
  ASSUME PageAssumption, Lookups, NEW x \in Target, ResolutionSettles(x)
  PROVE  Lookups'
<1>1. /\ calls \in Calls /\ resolutionQueue \in Seq(Target)
      /\ active \in SUBSET Target /\ activeResolutions \in Nat /\ resolvingURLs \in SUBSET Target
      /\ resolvedURLs \in Seq(Target) /\ Len(resolvedURLs) <= CacheSize
  BY DEF Lookups, LookupTypes, Calls, Result
<1>2. /\ Places(resolutionQueue, active, activeResolutions)
      /\ resolvingURLs = ToSet(resolutionQueue) \cup active
      /\ compatibilityMode => \A d \in Call : calls[d].state = "waiting" => calls[d].target \in resolvingURLs
  BY DEF Lookups, LookupsStand
<1>3. PICK state \in {"resolved", "rejected"} :
        /\ calls' = [c \in Call |-> IF calls[c].state = "waiting" /\ calls[c].target = x
                                    THEN [calls[c] EXCEPT !.state = state] ELSE calls[c]]
        /\ resolvedURLs' = IF state = "resolved" THEN Remembered(x) ELSE resolvedURLs
  BY DEF ResolutionSettles
<1>4. /\ x \in active /\ resolvingURLs' = resolvingURLs \ {x}
      /\ Drain(resolutionQueue, active \ {x}, activeResolutions - 1)
      /\ compatibilityMode' = compatibilityMode
  BY DEF ResolutionSettles, AfterOne
<1>5. resolvedURLs' \in Seq(Target) /\ Len(resolvedURLs') <= CacheSize
  BY <1>1, <1>3, CacheBounded
<1>6. ASSUME NEW c \in Call, calls[c].state = "waiting"
      PROVE  /\ [calls[c] EXCEPT !.state = state] \in Result
             /\ [calls[c] EXCEPT !.state = state].state # "waiting"
  <2>1. calls[c] \in Result
    BY <1>1, <1>6 DEF Calls, NotCalled
  <2> QED
    BY <2>1 DEF Result
<1>7. calls' \in Calls
  BY <1>1, <1>3, <1>6 DEF Calls
<1>8. ASSUME NEW c \in Call, calls'[c].state = "waiting"
      PROVE  calls[c].state = "waiting" /\ calls'[c] = calls[c] /\ calls[c].target # x
  BY <1>3, <1>6, <1>8
<1>9. /\ activeResolutions - 1 \in Nat
      /\ Places(resolutionQueue, active \ {x}, activeResolutions - 1)
      /\ x \notin ToSet(resolutionQueue)
  BY <1>1, <1>2, <1>4, Released
<1>10. /\ resolutionQueue' \in Seq(Target) /\ active' \subseteq Target /\ activeResolutions' \in Nat
       /\ Places(resolutionQueue', active', activeResolutions')
       /\ ToSet(resolutionQueue') \cup active' = ToSet(resolutionQueue) \cup (active \ {x})
  <2>1. active \ {x} \in SUBSET Target
    BY <1>1
  <2> QED
    BY <1>1, <1>4, <1>9, <2>1, DrainKeeps
<1>11. resolvingURLs' \subseteq Target /\ resolvingURLs' = ToSet(resolutionQueue') \cup active'
  BY <1>1, <1>2, <1>4, <1>9, <1>10
<1>12. LookupTypes'
  BY <1>5, <1>7, <1>10, <1>11 DEF LookupTypes, Calls, Result
<1>13. LookupsStand'
  BY <1>2, <1>4, <1>8, <1>10, <1>11 DEF LookupsStand
<1> QED
  BY <1>12, <1>13 DEF Lookups

----------------------------------------------------------------------------
(* Every step keeps the invariant.                                          *)

LEMMA StepInvariant ==
  ASSUME PageAssumption, IInv, [Next]_vars
  PROVE  IInv'
<1> SUFFICES (compatibilityMode' \in BOOLEAN /\ part' \in Parts) /\ Cookies' /\ Lookups'
  BY DEF IInv, Cookies, Lookups, TypeOK, CookieTypes, LookupTypes, Write, Cookie
<1>1. (compatibilityMode \in BOOLEAN /\ part \in Parts) /\ Cookies /\ Lookups
  BY InvariantParted
<1>2. compatibilityMode' = compatibilityMode /\ part' = part
  BY DEF Next, vars, WriteCookie, SendCookie, SaveCookie, FetchSettles, FetchFails, TargetSetsCookie,
         MuxReadsCookies, LoadPage, ResponseStarts, Answered, ResolveURL, ResolveDirectly, ResolutionSettles
<1>3. ASSUME NEW kind \in Kinds, NEW v \in Value, WriteCookie(kind, v) PROVE Cookies' /\ Lookups'
  BY <1>1, <1>3, WriteCookieInv, LookupsKept DEF WriteCookie
<1>4. ASSUME NEW i \in DOMAIN writes, SendCookie(i) PROVE Cookies' /\ Lookups'
  BY <1>1, <1>4, SendCookieInv, LookupsKept DEF SendCookie
<1>5. ASSUME NEW i \in DOMAIN writes, SaveCookie(i) PROVE Cookies' /\ Lookups'
  BY <1>1, <1>5, SaveCookieInv, LookupsKept DEF SaveCookie
<1>6. ASSUME NEW i \in DOMAIN writes, FetchSettles(i) PROVE Cookies' /\ Lookups'
  BY <1>1, <1>6, FetchSettlesInv, LookupsKept DEF FetchSettles
<1>7. ASSUME NEW i \in DOMAIN writes, FetchFails(i) PROVE Cookies' /\ Lookups'
  BY <1>1, <1>7, FetchFailsInv, LookupsKept DEF FetchFails
<1>8. CASE TargetSetsCookie
  BY <1>1, <1>2, <1>8, TargetSetsCookieInv, LookupsKept DEF TargetSetsCookie
<1>9. CASE MuxReadsCookies
  BY <1>1, <1>2, <1>9, MuxReadsCookiesInv, LookupsKept DEF MuxReadsCookies
<1>10. CASE LoadPage
  BY <1>1, <1>2, <1>10, LoadPageCookies, LoadPageLookups
<1>11. ASSUME NEW v \in Value \cup Secret \cup {Empty}, ResponseStarts(v) PROVE Cookies' /\ Lookups'
  BY <1>1, <1>11, ResponseStartsInv, LookupsKept DEF ResponseStarts
<1>12. ASSUME NEW c \in Call, Answered(c) PROVE Cookies' /\ Lookups'
  BY <1>1, <1>12, AnsweredInv, CookiesKept DEF Answered
<1>13. ASSUME NEW c \in Call, NEW x \in Target, ResolveURL(c, x) PROVE Cookies' /\ Lookups'
  BY <1>1, <1>13, ResolveURLInv, CookiesKept DEF ResolveURL
<1>14. ASSUME NEW c \in Call, NEW x \in Target, ResolveDirectly(c, x) PROVE Cookies' /\ Lookups'
  BY <1>1, <1>14, ResolveDirectlyInv, CookiesKept DEF ResolveDirectly
<1>15. ASSUME NEW x \in Target, ResolutionSettles(x) PROVE Cookies' /\ Lookups'
  BY <1>1, <1>15, ResolutionSettlesInv, CookiesKept DEF ResolutionSettles
<1>16. CASE UNCHANGED vars
  BY <1>1, <1>2, <1>16, LookupsKept, CookiesKept DEF vars
<1>17. Cookies' /\ Lookups'
  BY <1>3, <1>4, <1>5, <1>6, <1>7, <1>8, <1>9, <1>10, <1>11, <1>12, <1>13, <1>14, <1>15, <1>16 DEF Next
<1> QED
  BY <1>1, <1>2, <1>17

\* The invariant of the page: its queue of writes, its queue of lookups, and the jar.
THEOREM Invariant == Spec => []IInv
  BY PageAssumption, InitInvariant, StepInvariant, PTL DEF Spec

\* Types; the cache of resolved URLs never outgrows its size.
THEOREM TypeCorrect == Spec => []TypeOK
<1>1. IInv => TypeOK
  BY DEF IInv
<1> QED
  BY <1>1, Invariant, PTL

\* However writes, answers of targets, responses and page loads interleave, a cookie a
\* target set as HttpOnly reaches no script.
THEOREM SecretsStayHidden == Spec => []HttpOnlyHidden
<1>1. IInv => HttpOnlyHidden
  BY DEF IInv
<1> QED
  BY <1>1, Invariant, PTL

\* In compatibility mode the jar ends as the page sees it, whatever the number of its
\* writes: they are sent one by one and no later one overtakes.
THEOREM WritesTakeEffectInOrder == Spec => []WritesInOrder
<1>1. IInv => WritesInOrder
  BY DEF IInv, InOrder, SeesItsLast, Settled, WritesInOrder
<1> QED
  BY <1>1, Invariant, PTL

\* A target is asked for once however many calls of resolveURL wait for it, at most Limit
\* at a time, and nobody waits for a lookup that was dropped.
THEOREM LookupsAreShared == Spec => []OneLookupPerTarget
<1>1. IInv => OneLookupPerTarget
  <2> SUFFICES ASSUME IInv PROVE OneLookupPerTarget
    OBVIOUS
  <2>1. resolutionQueue \in Seq(Target) /\ Places(resolutionQueue, active, activeResolutions)
    BY DEF IInv, TypeOK, LookupsStand
  <2>2. Cardinality(ToSet(resolutionQueue)) = Len(resolutionQueue)
    BY <2>1, CardinalityOfSequence DEF Places
  <2>3. ToSet(resolutionQueue) \cap active = {}
    BY <2>1, Elements DEF Places
  <2> QED
    BY <2>1, <2>2, <2>3 DEF IInv, LookupsStand, Places, OneLookupPerTarget
<1> QED
  BY <1>1, Invariant, PTL

=============================================================================
