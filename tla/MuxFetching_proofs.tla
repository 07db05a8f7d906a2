------------------------- MODULE MuxFetching_proofs -------------------------
(***************************************************************************)
(* Proofs about calls as a whole: none is orphaned, and the multiplexer    *)
(* implements Fetching.                                                    *)
(***************************************************************************)
EXTENDS MuxFetching, MuxBodies_proofs

(***************************************************************************)
(* Answers to come.  Each stage of a call that has seen nothing yet leaves *)
(* behind what brings it to the next.                                      *)
(***************************************************************************)
Waiting(f) ==
    f \in pending /\ promise[f] = "pending" /\ stream[f] = "none" /\ link[sock[f]] = "up"

Answerable(f) ==
    Waiting(f) =>
        /\ phase[f] \in {"none", "collecting"} =>
              pc[f] \in {"upload", "threw"} \/ Has(c2s[sock[f]], f, END)
        /\ phase[f] \in {"responding", "ended", "failed"} =>
              Has(s2c[sock[f]], f, RESPONSE) \/ Has(s2c[sock[f]], f, RESPONSE_ERROR)
        /\ phase[f] # "dropped"

\* Only a stream that was there is cancelled.
CancelsStreams(f) == key[f] # 0 /\ Has(c2s[sock[f]], f, CANCEL) => stream[f] # "none"

\* serveMux returns when its connection is lost.
ReturnsOnLoss == \A c \in Conn : serving[c] = "returned" => link[c] = "down"

ToCome == ReturnsOnLoss /\ \A f \in Fetch : Answerable(f) /\ CancelsStreams(f)

----------------------------------------------------------------------------
(* Answers stay to come.                                                    *)

\* What a queue keeps, and what it does not gain.
LEMMA HasKept ==
  ASSUME NEW S, NEW q \in Seq(S), NEW t, NEW f, NEW k
  PROVE  /\ (t = q \/ \E fr \in S : t = Append(q, fr)) /\ Has(q, f, k) => Has(t, f, k)
         /\ q # <<>> /\ t = Tail(q) /\ ~Is(Head(q), f, k) /\ Has(q, f, k) => Has(t, f, k)
         /\ \/ t = q \/ t = <<>> \/ (q # <<>> /\ t = Tail(q))
            \/ \E fr \in S : t = Append(q, fr) /\ ~Is(fr, f, k)
            => (Has(t, f, k) => Has(q, f, k))
<1>1. \A fr \in S : Has(Append(q, fr), f, k) <=> Has(q, f, k) \/ Is(fr, f, k)
  BY AppendHas
<1>2. q # <<>> => /\ Has(Tail(q), f, k) => Has(q, f, k)
                  /\ Has(q, f, k) /\ ~Is(q[1], f, k) => Has(Tail(q), f, k)
  BY TailHas
<1>3. ~Has(<<>>, f, k)
  BY DEF Has
<1>4. q # <<>> => Head(q) = q[1]
  OBVIOUS
<1> QED
  BY <1>1, <1>2, <1>3, <1>4

\* A frame is what it is made.
LEMMA FrameIs ==
  ASSUME NEW k, NEW id, NEW f, NEW n
  PROVE  /\ Is(Frame(k, id, f, n), f, k)
         /\ Frame(k, id, f, n).of = f /\ Frame(k, id, f, n).kind = k
  BY DEF Frame, Is

\* A frame at the end of a queue is in it.
LEMMA HasNew ==
  ASSUME NEW S, NEW q \in Seq(S), NEW fr \in S, NEW f, NEW k, Is(fr, f, k)
  PROVE  Has(Append(q, fr), f, k)
  BY AppendHas

\* A step that leaves what answers a call.
LEMMA AnswerableBeside ==
  ASSUME NEW g \in Fetch, Answerable(g), sock'[g] = sock[g],
         Waiting(g)' =>
            /\ Waiting(g)
            /\ phase'[g] = phase[g]
            /\ pc'[g] = pc[g] \/ pc'[g] \in {"upload", "threw"}
            /\ Has(c2s[sock[g]], g, END) => Has(c2s'[sock[g]], g, END)
            /\ \A k \in {RESPONSE, RESPONSE_ERROR} : Has(s2c[sock[g]], g, k) => Has(s2c'[sock[g]], g, k)
  PROVE  Answerable(g)'
<1> SUFFICES ASSUME Waiting(g)' PROVE Answerable(g)'
  BY DEF Answerable
<1>1. /\ phase[g] \in {"none", "collecting"} =>
           pc[g] \in {"upload", "threw"} \/ Has(c2s[sock[g]], g, END)
      /\ phase[g] \in {"responding", "ended", "failed"} =>
           Has(s2c[sock[g]], g, RESPONSE) \/ Has(s2c[sock[g]], g, RESPONSE_ERROR)
      /\ phase[g] # "dropped"
  BY DEF Answerable
<1> QED
  BY <1>1 DEF Answerable

\* What a call sends is its own.
LEMMA CallSends ==
  ASSUME NoWrap, TypeOK, Isolated, NEW f \in Fetch, CallsOn(f), NEW c \in Conn
  PROVE  \/ c2s'[c] = c2s[c]
         \/ \E fr \in UpFrame : /\ c2s'[c] = Append(c2s[c], fr)
                                /\ c = sock[f] /\ link[c] = "up" /\ fr.of = f
                                /\ fr.kind = CANCEL => CancelStream(f)
<1>t. c2s \in [Conn -> Seq(UpFrame)] /\ key \in [Fetch -> Nat] /\ sent \in [Fetch -> Nat]
  BY DEF TypeOK
<1>1. ASSUME key[f] # 0, NEW k \in {START, CHUNK, END, CANCEL}, NEW n \in Nat, k = CANCEL => CancelStream(f),
             SendUp(sock[f], <<Frame(k, Wire(key[f]), f, n)>>)
      PROVE  \/ c2s'[c] = c2s[c]
             \/ \E fr \in UpFrame : /\ c2s'[c] = Append(c2s[c], fr)
                                    /\ c = sock[f] /\ link[c] = "up" /\ fr.of = f
                                    /\ fr.kind = CANCEL => CancelStream(f)
  <2> DEFINE fr == Frame(k, Wire(key[f]), f, n)
  <2>1. sock[f] \in Conn
    BY <1>1 DEF Isolated, Born
  <2>2. fr \in UpFrame /\ fr.of = f /\ fr.kind = k
    <3>1. Wire(key[f]) \in Nat
      BY <1>t, WireType
    <3>2. fr \in UpFrame
      BY <1>1, <3>1, FrameTypes
    <3>3. fr.of = f /\ fr.kind = k
      BY FrameIs
    <3> QED
      BY <3>2, <3>3
  <2> HIDE DEF fr
  <2>3. c2s'[c] = IF c = sock[f] /\ link[sock[f]] = "up" THEN Append(c2s[c], fr) ELSE c2s[c]
    BY <1>1, <2>1, <2>2, SendOne DEF fr
  <2> QED
    BY <1>1, <2>2, <2>3
<1>2. CASE Fetching(f) \/ UploadThrows(f)
  BY <1>2 DEF Fetching, UploadThrows, netVars
<1>3. CASE Upload(f)
  <2>1. key[f] # 0 /\ sent[f] \in Nat /\ SendUp(sock[f], <<Frame(CHUNK, Wire(key[f]), f, sent[f] + 1)>>)
    BY <1>3, <1>t DEF Upload, Isolated, Unborn
  <2>2. sent[f] + 1 \in Nat /\ CHUNK # CANCEL
    BY <2>1 DEF CHUNK, CANCEL
  <2> QED
    BY <1>1, <2>1, <2>2
<1>4. CASE UploadEnds(f)
  <2>1. key[f] # 0 /\ SendUp(sock[f], <<Frame(END, Wire(key[f]), f, 0)>>) /\ END # CANCEL
    BY <1>4 DEF UploadEnds, Isolated, Unborn, END, CANCEL
  <2> QED
    BY <1>1, <2>1
<1>5. CASE CancelStream(f)
  <2>1. key[f] # 0 /\ SendUp(sock[f], <<Frame(CANCEL, Wire(key[f]), f, 0)>>)
    BY <1>5 DEF CancelStream, Isolated, Unborn
  <2> QED
    BY <1>1, <1>5, <2>1
<1> QED
  BY <1>2, <1>3, <1>4, <1>5 DEF CallsOn

LEMMA CallsToCome ==
  ASSUME NoWrap, TypeOK, Isolated, ToCome, NEW f \in Fetch, CallsOn(f)
  PROVE  ToCome'
<1>t. c2s \in [Conn -> Seq(UpFrame)] /\ pc \in [Fetch -> {"idle", "await", "upload", "returned", "threw"}]
      /\ stream \in [Fetch -> {"none", "nobody", "open", "closed", "errored", "cancelled"}]
  BY DEF TypeOK
<1>1. UNCHANGED <<pending, key, sock, promise, link, s2c, serving, phase>>
  BY DEF CallsOn, Fetching, Upload, UploadEnds, UploadThrows, CancelStream, callVars, viewVars,
         netVars, serverVars
<1>2. ReturnsOnLoss'
  BY <1>1 DEF ToCome, ReturnsOnLoss
<1>3. ASSUME NEW g \in Fetch PROVE Answerable(g)'
  <2> SUFFICES ASSUME Waiting(g)' PROVE Answerable(g)'
    BY DEF Answerable
  <2>1. stream'[g] = "none" => stream[g] = "none"
    BY <1>t DEF CallsOn, Fetching, Upload, UploadEnds, UploadThrows, CancelStream, viewVars
  <2>2. Waiting(g) /\ Answerable(g)
    BY <1>1, <2>1 DEF Waiting, ToCome
  <2>3. key[g] # 0 /\ sock[g] \in Conn /\ pc[g] \notin {"idle", "await"} /\ c2s[sock[g]] \in Seq(UpFrame)
    BY <2>2, <1>t DEF Waiting, Isolated, Born, Unborn
  <2>4. Has(c2s[sock[g]], g, END) => Has(c2s'[sock[g]], g, END)
    BY <2>3, CallSends, HasKept
  <2>5. CASE g = f /\ UploadEnds(f)
    <3>1. SendUp(sock[f], <<Frame(END, Wire(key[f]), f, 0)>>) /\ Wire(key[f]) \in Nat
      BY <2>5, WireType DEF UploadEnds, TypeOK
    <3> DEFINE fr == Frame(END, Wire(key[f]), f, 0)
    <3>2. fr \in UpFrame /\ Is(fr, f, END)
      <4>1. fr \in UpFrame
        BY <3>1, FrameTypes
      <4>2. Is(fr, f, END)
        BY FrameIs
      <4> QED
        BY <4>1, <4>2
    <3> HIDE DEF fr
    <3>3. c2s'[sock[f]] = Append(c2s[sock[f]], fr)
      BY <2>2, <2>3, <2>5, <3>1, <3>2, SendOne DEF fr, Waiting
    <3>4. Has(c2s'[sock[f]], f, END)
      <4>1. c2s[sock[f]] \in Seq(UpFrame)
        BY <2>3, <2>5
      <4> QED
        BY <3>2, <3>3, <4>1, HasNew
    <3> QED
      BY <1>1, <2>2, <2>5, <3>4 DEF Answerable
  <2>6. CASE ~(g = f /\ UploadEnds(f))
    <3>1. pc'[g] = pc[g] \/ pc'[g] \in {"upload", "threw"}
      BY <1>t, <2>3, <2>6 DEF CallsOn, Fetching, Upload, UploadThrows, UploadEnds, CancelStream, callVars
    <3> QED
      BY <1>1, <2>2, <2>4, <3>1, AnswerableBeside
  <2> QED
    BY <2>5, <2>6
<1>4. ASSUME NEW g \in Fetch PROVE CancelsStreams(g)'
  <2> SUFFICES ASSUME key[g] # 0, Has(c2s'[sock[g]], g, CANCEL) PROVE stream'[g] # "none"
    BY <1>1 DEF CancelsStreams
  <2>1. sock[g] \in Conn /\ c2s[sock[g]] \in Seq(UpFrame)
    BY <1>t DEF Isolated, Born
  <2>2. stream[g] # "none" => stream'[g] # "none"
    BY <1>t DEF CallsOn, Fetching, Upload, UploadEnds, UploadThrows, CancelStream, viewVars
  <2>3. CASE g = f /\ CancelStream(f)
    BY <1>t, <2>3 DEF CancelStream
  <2>4. CASE ~(g = f /\ CancelStream(f))
    <3>1. \/ c2s'[sock[g]] = c2s[sock[g]]
          \/ \E fr \in UpFrame : c2s'[sock[g]] = Append(c2s[sock[g]], fr) /\ ~Is(fr, g, CANCEL)
      BY <2>1, <2>4, CallSends DEF Is
    <3>2. Has(c2s[sock[g]], g, CANCEL)
      BY <2>1, <3>1, HasKept
    <3> QED
      BY <2>2, <3>2 DEF ToCome, CancelsStreams
  <2> QED
    BY <2>3, <2>4
<1> QED
  BY <1>2, <1>3, <1>4 DEF ToCome

\* A call that begins has its body to send, or has sent END.
LEMMA BeginToCome ==
  ASSUME NoWrap, TypeOK, Isolated, ToCome, NEW f \in Fetch, Begin(f)
  PROVE  ToCome'
<1>t. /\ c2s \in [Conn -> Seq(UpFrame)] /\ key \in [Fetch -> Nat] /\ conn \in Conn
      /\ pc \in [Fetch -> {"idle", "await", "upload", "returned", "threw"}] /\ nextID \in Nat
      /\ sock \in [Fetch -> 0..MaxConn]
  BY DEF TypeOK, Begin
<1>k. Key(nextID) = nextID /\ Wire(nextID) \in Nat
  <2>1. nextID <= MaxId
    BY DEF Begin
  <2> QED
    BY <1>t, <2>1, Identifiers, WireType
<1>e. /\ pc[f] = "await" /\ pending' \subseteq pending \cup {f}
      /\ UNCHANGED <<promise, stream, link, s2c, serving, phase>>
      /\ key' = [key EXCEPT ![f] = nextID] /\ sock' = [sock EXCEPT ![f] = conn]
      /\ pc' = [pc EXCEPT ![f] = IF BodyLen[f] = 0 THEN "returned" ELSE "upload"]
  BY <1>k DEF Begin, serverVars, viewVars
<1>f. key[f] = 0 /\ phase[f] = "none"
  BY <1>e DEF Isolated, Born, Unborn
<1> DEFINE a == Frame(START, Wire(nextID), f, 0)
           b == Frame(END, Wire(nextID), f, 0)
<1>1. /\ a \in UpFrame /\ Is(a, f, START) /\ a.of = f /\ a.kind = START
      /\ b \in UpFrame /\ Is(b, f, END) /\ b.of = f /\ b.kind = END
  <2>1. a \in UpFrame /\ b \in UpFrame
    BY <1>k, FrameTypes
  <2>2. Is(a, f, START) /\ a.of = f /\ a.kind = START
    BY FrameIs
  <2>3. Is(b, f, END) /\ b.of = f /\ b.kind = END
    BY FrameIs
  <2> QED
    BY <2>1, <2>2, <2>3
<1>2. IF BodyLen[f] = 0 THEN SendUp(conn, <<a, b>>) ELSE SendUp(conn, <<a>>)
  BY <1>k DEF Begin
<1> HIDE DEF a, b
<1>3. ASSUME NEW c \in Conn
      PROVE  \/ c2s'[c] = c2s[c] \/ c2s'[c] = Append(c2s[c], a)
             \/ c2s'[c] = Append(Append(c2s[c], a), b)
  <2>1. CASE BodyLen[f] = 0
    <3>1. SendUp(conn, <<a, b>>) /\ conn \in Conn /\ a \in UpFrame /\ b \in UpFrame
      BY <1>1, <1>2, <1>t, <2>1
    <3>2. \A d \in Conn : c2s'[d] = IF d = conn /\ link[conn] = "up"
                                   THEN Append(Append(c2s[d], a), b) ELSE c2s[d]
      BY <3>1, SendBoth
    <3> QED
      BY <3>2
  <2>2. CASE BodyLen[f] # 0
    BY <1>1, <1>2, <1>t, <2>2, SendOne
  <2> QED
    BY <2>1, <2>2
<1>4. ASSUME NEW c \in Conn, NEW g, NEW k
      PROVE  /\ Has(c2s[c], g, k) => Has(c2s'[c], g, k)
             /\ k = CANCEL /\ Has(c2s'[c], g, k) => Has(c2s[c], g, k)
  <2> DEFINE q == c2s[c]
             u == Append(q, a)
             w == Append(u, b)
  <2>1. q \in Seq(UpFrame) /\ u \in Seq(UpFrame)
    BY <1>t, <1>1
  <2>2. ~Is(a, g, CANCEL) /\ ~Is(b, g, CANCEL)
    BY <1>1 DEF Is, START, END, CANCEL
  <2>3. Has(u, g, k) <=> Has(q, g, k) \/ Is(a, g, k)
    BY <1>1, <2>1, AppendHas
  <2> HIDE DEF u
  <2>4. Has(w, g, k) <=> Has(u, g, k) \/ Is(b, g, k)
    BY <1>1, <2>1, AppendHas
  <2> QED
    BY <1>3, <2>2, <2>3, <2>4 DEF u
<1>5. ReturnsOnLoss'
  BY <1>e DEF ToCome, ReturnsOnLoss
<1>6. ASSUME NEW g \in Fetch, g # f PROVE Answerable(g)' /\ CancelsStreams(g)'
  <2>1. sock'[g] = sock[g] /\ key'[g] = key[g] /\ pc'[g] = pc[g] /\ (g \in pending' => g \in pending)
    BY <1>t, <1>e, <1>6
  <2>2. key[g] # 0 => sock[g] \in Conn
    BY DEF Isolated, Born
  <2>3. Answerable(g)'
    <3>1. Waiting(g)' => Waiting(g) /\ sock[g] \in Conn
      BY <1>e, <2>1, <2>2 DEF Waiting, Isolated, Unborn
    <3> QED
      BY <1>e, <1>4, <2>1, <3>1, AnswerableBeside DEF ToCome
  <2>4. CancelsStreams(g)'
    BY <1>e, <1>4, <2>1, <2>2 DEF ToCome, CancelsStreams
  <2> QED
    BY <2>3, <2>4
<1>7. Answerable(f)'
  <2> SUFFICES ASSUME Waiting(f)' PROVE Answerable(f)'
    BY DEF Answerable
  <2>1. sock'[f] = conn /\ phase'[f] = "none" /\ link[conn] = "up"
    BY <1>t, <1>e, <1>f DEF Waiting
  <2>2. CASE BodyLen[f] = 0
    <3> DEFINE u == Append(c2s[conn], a)
    <3>1. c2s'[conn] = Append(u, b) /\ u \in Seq(UpFrame)
      <4>1. SendUp(conn, <<a, b>>) /\ a \in UpFrame /\ b \in UpFrame
        BY <1>1, <1>2, <2>2
      <4>2. \A c \in Conn : c2s'[c] = IF c = conn /\ link[conn] = "up"
                                      THEN Append(Append(c2s[c], a), b) ELSE c2s[c]
        BY <1>t, <4>1, SendBoth
      <4>3. u \in Seq(UpFrame)
        BY <1>t, <1>1
      <4> QED
        BY <1>t, <2>1, <4>2, <4>3
    <3> HIDE DEF u
    <3>2. Has(c2s'[conn], f, END)
      BY <1>1, <3>1, HasNew
    <3> QED
      BY <2>1, <3>2 DEF Answerable
  <2>3. CASE BodyLen[f] # 0
    BY <1>e, <1>t, <2>1, <2>3 DEF Answerable
  <2> QED
    BY <2>2, <2>3
<1>8. CancelsStreams(f)'
  <2>1. ~Has(c2s[conn], f, CANCEL)
    BY <1>t, <1>f DEF Isolated, AllCarried, Carried, Has, Is
  <2>2. sock'[f] = conn
    BY <1>t, <1>e
  <2> QED
    BY <1>4, <1>t, <2>1, <2>2 DEF CancelsStreams
<1> QED
  BY <1>5, <1>6, <1>7, <1>8 DEF ToCome

\* Steps that do not touch the requests on their way.
LEMMA CancelsKept ==
  ASSUME ToCome, UNCHANGED <<key, sock, c2s>>,
         \A g \in Fetch : stream[g] # "none" => stream'[g] # "none"
  PROVE  \A g \in Fetch : CancelsStreams(g)'
  BY DEF ToCome, CancelsStreams

LEMMA SocketToCome ==
  ASSUME TypeOK, Isolated, ToCome, SocketOpens \/ SocketFails \/ SocketCloses
  PROVE  ToCome'
<1>1. UNCHANGED <<key, sock, c2s>>
  BY DEF SocketOpens, SocketFails, SocketCloses, callVars, netVars
<1>2. pending' = {}
  <2>1. CASE SocketOpens \/ SocketFails
    <3>1. socket = "connecting" /\ pending' = pending /\ pending \subseteq Fetch
      BY <2>1 DEF SocketOpens, SocketFails, TypeOK
    <3>2. \A g \in pending : FALSE
      BY <3>1 DEF Isolated, Born, Unborn
    <3> QED
      BY <3>1, <3>2
  <2>2. CASE SocketCloses
    BY <2>2 DEF SocketCloses
  <2> QED
    BY <2>1, <2>2
<1>3. \A g \in Fetch : Answerable(g)'
  BY <1>2 DEF Answerable, Waiting
<1>4. \A g \in Fetch : stream[g] # "none" => stream'[g] # "none"
  <2>1. CASE SocketOpens \/ SocketFails
    BY <2>1 DEF SocketOpens, SocketFails, viewVars
  <2>2. CASE SocketCloses
    BY <2>2 DEF SocketCloses, Failed
  <2> QED
    BY <2>1, <2>2
<1>5. ReturnsOnLoss'
  <2>1. CASE SocketOpens
    <3>1. /\ conn \in Conn /\ link \in [Conn -> {"idle", "up", "down"}]
          /\ serving \in [Conn -> {"idle", "reading", "returned"}]
          /\ link' = [link EXCEPT ![conn] = "up"] /\ serving' = [serving EXCEPT ![conn] = "reading"]
      BY <2>1 DEF SocketOpens, TypeOK
    <3> QED
      BY <3>1 DEF ToCome, ReturnsOnLoss
  <2>2. CASE SocketFails \/ SocketCloses
    BY <2>2 DEF SocketFails, SocketCloses, netVars, serverVars, ToCome, ReturnsOnLoss
  <2> QED
    BY <2>1, <2>2
<1> QED
  BY <1>1, <1>3, <1>4, <1>5, CancelsKept DEF ToCome

\* A message settles the call it is addressed to, and no other.
LEMMA MessageToCome ==
  ASSUME TypeOK, Isolated, ToCome, HandleResponse \/ HandleChunk \/ HandleEnd \/ HandleError
  PROVE  ToCome'
<1>t. s2c \in [Conn -> Seq(DownFrame)]
      /\ stream \in [Fetch -> {"none", "nobody", "open", "closed", "errored", "cancelled"}]
      /\ promise \in [Fetch -> {"pending", "resolved", "rejected"}]
  BY DEF TypeOK
<1>1. PICK fr \in Message : \E k \in {RESPONSE, RESPONSE_CHUNK, RESPONSE_END, RESPONSE_ERROR} :
        /\ Receive(k, fr) /\ pending' \subseteq pending
        /\ \A g \in Fetch : stream[g] # "none" => stream'[g] # "none"
        /\ k = RESPONSE /\ fr.of \in pending => stream'[fr.of] # "none"
        /\ k = RESPONSE_ERROR => fr.of \notin pending'
        /\ \A g \in Fetch : stream'[g] = "none" /\ promise'[g] = "pending" => promise[g] = "pending"
  <2>1. \A fr \in Message : Addressed(fr) = pending \cap {fr.of} /\ fr.of \in Fetch
    BY AddressedOf, MessageTyped
  <2>2. CASE HandleResponse
    <3>1. PICK fr \in Message :
            /\ Receive(RESPONSE, fr) /\ pending' = pending
            /\ promise' = [f \in Fetch |-> IF f \in {g \in Addressed(fr) : promise[g] = "pending" /\ Accepted(fr.n)}
                                           THEN "resolved" ELSE promise[f]]
            /\ stream' = [f \in Fetch |-> IF f \in Addressed(fr)
                                          THEN (IF Bodyless(fr.n) THEN "nobody" ELSE "open") ELSE stream[f]]
      BY <2>2 DEF HandleResponse
    <3>2. RESPONSE # RESPONSE_ERROR
      BY DEF RESPONSE, RESPONSE_ERROR
    <3> QED
      BY <2>1, <3>1, <3>2
  <2>3. CASE HandleChunk
    <3>1. PICK fr \in Message : Receive(RESPONSE_CHUNK, fr) /\ pending' = pending /\ promise' = promise /\ stream' = stream
      BY <2>3 DEF HandleChunk
    <3>2. RESPONSE_CHUNK # RESPONSE_ERROR /\ RESPONSE_CHUNK # RESPONSE
      BY DEF RESPONSE, RESPONSE_CHUNK, RESPONSE_ERROR
    <3> QED
      BY <3>1, <3>2
  <2>4. CASE HandleEnd
    <3>1. PICK fr \in Message :
            /\ Receive(RESPONSE_END, fr) /\ pending' \subseteq pending /\ promise' = promise
            /\ stream' = [f \in Fetch |-> IF f \in Addressed(fr) /\ stream[f] = "open" THEN "closed" ELSE stream[f]]
      BY <2>4 DEF HandleEnd
    <3>2. RESPONSE_END # RESPONSE_ERROR /\ RESPONSE_END # RESPONSE
      BY DEF RESPONSE, RESPONSE_END, RESPONSE_ERROR
    <3>3. \A g \in Fetch : stream[g] # "none" => stream'[g] # "none"
      BY <3>1
    <3> QED
      BY <3>1, <3>2, <3>3
  <2>5. CASE HandleError
    <3>1. PICK fr \in Message :
            /\ Receive(RESPONSE_ERROR, fr) /\ pending' = pending \ Addressed(fr) /\ Failed(Addressed(fr))
      BY <2>5 DEF HandleError
    <3>2. RESPONSE # RESPONSE_ERROR
      BY DEF RESPONSE, RESPONSE_ERROR
    <3>3. \A g \in Fetch : stream[g] # "none" => stream'[g] # "none"
      BY <3>1 DEF Failed
    <3>4. \A g \in Fetch : promise'[g] = "pending" => promise[g] = "pending"
      BY <3>1 DEF Failed
    <3>5. fr.of \notin pending'
      BY <2>1, <3>1
    <3> QED
      BY <3>1, <3>2, <3>3, <3>4, <3>5
  <2> QED
    BY <2>2, <2>3, <2>4, <2>5
<1>2. PICK k \in {RESPONSE, RESPONSE_CHUNK, RESPONSE_END, RESPONSE_ERROR} :
        /\ Receive(k, fr) /\ pending' \subseteq pending
        /\ \A g \in Fetch : stream[g] # "none" => stream'[g] # "none"
        /\ k = RESPONSE /\ fr.of \in pending => stream'[fr.of] # "none"
        /\ k = RESPONSE_ERROR => fr.of \notin pending'
        /\ \A g \in Fetch : stream'[g] = "none" /\ promise'[g] = "pending" => promise[g] = "pending"
  BY <1>1
<1>3. /\ s2c' = [s2c EXCEPT ![conn] = Tail(@)] /\ fr.kind = k
      /\ UNCHANGED <<key, sock, pc, link, c2s, serving, phase>>
  BY <1>2 DEF Receive, callVars, serverVars
<1>4. conn \in Conn /\ s2c[conn] # <<>> /\ fr = Head(s2c[conn])
  BY MessageTyped
<1>5. ASSUME NEW g \in Fetch PROVE Answerable(g)'
  <2> SUFFICES ASSUME Waiting(g)' PROVE Answerable(g)'
    BY DEF Answerable
  <2>1. stream[g] = "none" /\ g \in pending /\ Waiting(g)
    BY <1>2, <1>3 DEF Waiting
  <2>2. sock[g] \in Conn /\ s2c[sock[g]] \in Seq(DownFrame)
    BY <1>t, <2>1 DEF Isolated, Born, Unborn
  <2>3. ASSUME NEW l \in {RESPONSE, RESPONSE_ERROR} PROVE ~Is(fr, g, l)
    BY <1>2, <1>3, <2>1 DEF Is, Waiting
  <2>4. ASSUME NEW l \in {RESPONSE, RESPONSE_ERROR}, Has(s2c[sock[g]], g, l)
        PROVE  Has(s2c'[sock[g]], g, l)
    <3>1. CASE sock[g] = conn
      <4>1. s2c'[sock[g]] = Tail(s2c[sock[g]]) /\ s2c[sock[g]] # <<>> /\ ~Is(Head(s2c[sock[g]]), g, l)
        BY <1>t, <1>3, <1>4, <2>3, <3>1
      <4> QED
        BY <2>2, <2>4, <4>1, HasKept
    <3>2. CASE sock[g] # conn
      BY <1>t, <1>3, <2>2, <2>4, <3>2
    <3> QED
      BY <3>1, <3>2
  <2> QED
    BY <1>3, <2>1, <2>4, AnswerableBeside DEF ToCome
<1>6. ReturnsOnLoss'
  BY <1>3 DEF ToCome, ReturnsOnLoss
<1>7. \A g \in Fetch : CancelsStreams(g)'
  BY <1>2, <1>3, CancelsKept
<1> QED
  BY <1>5, <1>6, <1>7 DEF ToCome

\* What the read loop takes away it passes on, or answers with an error.
LEMMA ReadsToCome ==
  ASSUME NoWrap, TypeOK, Isolated, Uploads, ToCome, NEW c \in Conn, Reads(c)
  PROVE  ToCome'
<1>t. /\ c2s \in [Conn -> Seq(UpFrame)] /\ s2c \in [Conn -> Seq(DownFrame)] /\ key \in [Fetch -> Nat]
      /\ phase \in [Fetch -> {"none", "collecting", "executing", "responding",
                              "ended", "failed", "dropped"}]
  BY DEF TypeOK
<1>1. UNCHANGED <<pending, key, sock, pc, promise, stream, link>>
  BY DEF Reads, OnStart, OnChunk, OnEnd, OnCancel, ReadFails, Read, pageVars, callVars, viewVars
<1>2. ReturnsOnLoss'
  <2>1. CASE ReadFails(c)
    BY <2>1 DEF ReadFails, ToCome, ReturnsOnLoss
  <2>2. CASE UNCHANGED serving
    BY <1>1, <2>2 DEF ToCome, ReturnsOnLoss
  <2> QED
    BY <2>1, <2>2 DEF Reads, OnStart, OnChunk, OnEnd, OnCancel, Read
<1>3. ASSUME NEW g \in Fetch PROVE CancelsStreams(g)'
  <2> SUFFICES ASSUME key[g] # 0, Has(c2s'[sock[g]], g, CANCEL) PROVE stream[g] # "none"
    BY <1>1 DEF CancelsStreams
  <2>1. sock[g] \in Conn
    BY DEF Isolated, Born
  <2>2. \/ c2s'[sock[g]] = c2s[sock[g]] \/ c2s'[sock[g]] = <<>>
        \/ c2s[sock[g]] # <<>> /\ c2s'[sock[g]] = Tail(c2s[sock[g]])
    <3>1. CASE ReadFails(c)
      BY <1>t, <2>1, <3>1 DEF ReadFails
    <3>2. CASE \E fr \in Arrived(c), k \in {START, CHUNK, END, CANCEL} : Read(c, k, fr)
      BY <1>t, <2>1, <3>2, ArrivedTyped DEF Read
    <3> QED
      BY <3>1, <3>2 DEF Reads, OnStart, OnChunk, OnEnd, OnCancel
  <2>3. Has(c2s[sock[g]], g, CANCEL)
    BY <1>t, <2>1, <2>2, HasKept
  <2> QED
    BY <2>3 DEF ToCome, CancelsStreams
\* A call beside the one that is read.
<1>4. ASSUME NEW g \in Fetch, phase'[g] = phase[g], Waiting(g)',
             \/ UNCHANGED s2c
             \/ \E fr \in DownFrame : SendDown(c, <<fr>>),
             \/ UNCHANGED c2s
             \/ \E fr \in Arrived(c) : c2s' = [c2s EXCEPT ![c] = Tail(@)] /\ ~Is(fr, g, END)
      PROVE  Answerable(g)'
  <2>1. Waiting(g) /\ sock[g] \in Conn
    BY <1>1, <1>4 DEF Waiting, Isolated, Born, Unborn
  <2>2. Has(c2s[sock[g]], g, END) => Has(c2s'[sock[g]], g, END)
    <3>1. \/ c2s'[sock[g]] = c2s[sock[g]]
          \/ /\ c2s[sock[g]] # <<>> /\ c2s'[sock[g]] = Tail(c2s[sock[g]])
             /\ ~Is(Head(c2s[sock[g]]), g, END)
      <4>1. CASE UNCHANGED c2s
        BY <4>1
      <4>2. ASSUME NEW fr \in Arrived(c), c2s' = [c2s EXCEPT ![c] = Tail(@)], ~Is(fr, g, END),
                   sock[g] = c
            PROVE  /\ c2s[c] # <<>> /\ c2s'[c] = Tail(c2s[c])
                   /\ ~Is(Head(c2s[c]), g, END)
        BY <1>t, <4>2, ArrivedTyped
      <4>3. sock[g] # c /\ c2s' = [c2s EXCEPT ![c] = Tail(@)] => c2s'[sock[g]] = c2s[sock[g]]
        BY <1>t, <2>1
      <4> QED
        BY <1>4, <4>1, <4>2, <4>3
    <3> QED
      BY <1>t, <2>1, <3>1, HasKept
  <2>3. \A k \in {RESPONSE, RESPONSE_ERROR} : Has(s2c[sock[g]], g, k) => Has(s2c'[sock[g]], g, k)
    <3>1. CASE UNCHANGED s2c
      BY <3>1
    <3>2. ASSUME NEW fr \in DownFrame, SendDown(c, <<fr>>)
          PROVE  \A k \in {RESPONSE, RESPONSE_ERROR} : Has(s2c[sock[g]], g, k) => Has(s2c'[sock[g]], g, k)
      <4>1. s2c[sock[g]] \in Seq(DownFrame)
        BY <1>t, <2>1
      <4>2. \A d \in Conn : s2c'[d] = IF d = c /\ link[c] = "up" THEN Append(s2c[d], fr) ELSE s2c[d]
        BY <3>2, SendOne
      <4>3. s2c'[sock[g]] = s2c[sock[g]] \/ s2c'[sock[g]] = Append(s2c[sock[g]], fr)
        BY <2>1, <4>2
      <4> QED
        BY <4>1, <4>3, HasKept
    <3> QED
      BY <1>4, <3>1, <3>2
  <2> QED
    BY <1>1, <1>4, <2>1, <2>2, <2>3, AnswerableBeside DEF ToCome
\* An error is an answer.
<1>5. ASSUME NEW g \in Fetch, sock[g] = c, phase'[g] = "failed", NEW id \in Nat,
             SendDown(c, <<Frame(RESPONSE_ERROR, id, g, 0)>>)
      PROVE  Answerable(g)'
  <2> SUFFICES ASSUME Waiting(g)' PROVE Answerable(g)'
    BY DEF Answerable
  <2> DEFINE fr == Frame(RESPONSE_ERROR, id, g, 0)
  <2>1. fr \in DownFrame
    BY FrameTypes
  <2>2. Is(fr, g, RESPONSE_ERROR)
    BY FrameIs
  <2>3. SendDown(c, <<fr>>)
    BY <1>5
  <2> HIDE DEF fr
  <2>4. link[c] = "up"
    BY <1>1, <1>5 DEF Waiting
  <2>5. s2c'[c] = Append(s2c[c], fr)
    BY <2>1, <2>3, <2>4, SendOne
  <2>6. s2c[c] \in Seq(DownFrame)
    BY <1>t
  <2>7. Has(s2c'[c], g, RESPONSE_ERROR)
    BY <2>1, <2>2, <2>5, <2>6, HasNew
  <2> QED
    BY <1>1, <1>5, <2>7 DEF Answerable
\* Of a call it reads a frame of, the server knows the connection.
<1>6. ASSUME NEW fr \in Arrived(c), NEW k, Read(c, k, fr)
      PROVE  /\ fr.of \in Fetch /\ sock[fr.of] = c /\ key[fr.of] # 0 /\ fr.id \in Nat
             /\ States(c, fr.id) = {f \in {fr.of} : phase[f] = "collecting"}
             /\ c2s' = [c2s EXCEPT ![c] = Tail(@)] /\ Has(c2s[c], fr.of, k) /\ Is(c2s[c][1], fr.of, k)
             /\ \A g : Is(fr, g, END) <=> g = fr.of /\ k = END
  <2>1. /\ fr.of \in Fetch /\ sock[fr.of] = c /\ key[fr.of] # 0
        /\ Has(c2s[c], fr.of, k) /\ Is(c2s[c][1], fr.of, k)
    BY <1>6, ReadTakes
  <2>2. States(c, fr.id) = {f \in {fr.of} : phase[f] = "collecting"} /\ fr.id \in Nat
    BY StatesOf, ArrivedTyped
  <2> QED
    BY <1>6, <2>1, <2>2 DEF Read, Is
<1>7. ASSUME NEW g \in Fetch, OnStart(c), Waiting(g)' PROVE Answerable(g)'
  <2>1. PICK fr \in Arrived(c) :
          /\ Read(c, START, fr)
          /\ \/ phase' = [phase EXCEPT ![fr.of] = "collecting"] /\ UNCHANGED s2c
             \/ /\ phase' = [phase EXCEPT ![fr.of] = "failed"]
                /\ SendDown(c, <<Frame(RESPONSE_ERROR, fr.id, fr.of, 0)>>)
    BY <1>7 DEF OnStart
  <2>2. /\ fr.of \in Fetch /\ sock[fr.of] = c /\ key[fr.of] # 0 /\ fr.id \in Nat
        /\ c2s' = [c2s EXCEPT ![c] = Tail(@)] /\ Has(c2s[c], fr.of, START)
        /\ \A h : ~Is(fr, h, END)
    <3>1. START # END
      BY DEF START, END
    <3> QED
      BY <2>1, <3>1, <1>6
  <2>3. Frame(RESPONSE_ERROR, fr.id, fr.of, 0) \in DownFrame
    BY <2>2, FrameTypes
  <2>4. CASE g # fr.of
    <3>1. phase'[g] = phase[g]
      BY <1>t, <2>1, <2>4
    <3>2. UNCHANGED s2c \/ \E e \in DownFrame : SendDown(c, <<e>>)
      BY <2>1, <2>3
    <3> QED
      BY <1>4, <1>7, <2>2, <3>1, <3>2
  <2>5. CASE g = fr.of /\ phase'[g] = "collecting"
    <3>1. phase[g] = "none"
      BY <2>2, <2>5 DEF Uploads, Uploading
    <3>2. Waiting(g) /\ sock[g] = c
      BY <1>1, <1>7, <2>2, <2>5 DEF Waiting
    <3>3. pc[g] \in {"upload", "threw"} \/ Has(c2s[c], g, END)
      BY <3>1, <3>2 DEF ToCome, Answerable
    <3>4. /\ c2s[c] \in Seq(UpFrame) /\ c2s[c] # <<>> /\ c2s'[c] = Tail(c2s[c])
          /\ ~Is(Head(c2s[c]), g, END)
      BY <1>t, <2>2, ArrivedTyped
    <3>5. Has(c2s[c], g, END) => Has(c2s'[c], g, END)
      BY <3>4, HasKept
    <3> QED
      BY <1>1, <2>5, <3>2, <3>3, <3>5 DEF Answerable
  <2>6. CASE g = fr.of /\ phase'[g] # "collecting"
    <3>1. phase'[g] = "failed" /\ SendDown(c, <<Frame(RESPONSE_ERROR, fr.id, g, 0)>>)
      BY <1>t, <2>1, <2>2, <2>6
    <3> QED
      BY <1>5, <2>2, <2>6, <3>1
  <2> QED
    BY <2>4, <2>5, <2>6
<1>8. ASSUME NEW g \in Fetch, OnChunk(c), Waiting(g)' PROVE Answerable(g)'
  <2>1. PICK fr \in Arrived(c) :
          /\ Read(c, CHUNK, fr)
          /\ \/ UNCHANGED <<phase, s2c>>
             \/ \E f \in States(c, fr.id) :
                  phase' = [phase EXCEPT ![f] = "failed"] /\ SendDown(c, OverflowReply(f))
    BY <1>8 DEF OnChunk, Overflow
  <2>2. /\ fr.of \in Fetch /\ sock[fr.of] = c
        /\ States(c, fr.id) = {f \in {fr.of} : phase[f] = "collecting"}
        /\ c2s' = [c2s EXCEPT ![c] = Tail(@)]
        /\ \A h : ~Is(fr, h, END)
    <3>1. CHUNK # END
      BY DEF CHUNK, END
    <3> QED
      BY <2>1, <3>1, <1>6
  <2>3. CASE UNCHANGED <<phase, s2c>>
    BY <1>4, <1>8, <2>2, <2>3
  <2>4. CASE /\ phase' = [phase EXCEPT ![fr.of] = "failed"]
             /\ SendDown(c, <<Frame(RESPONSE_ERROR, Wire(key[fr.of]), fr.of, 0)>>)
    <3>1. Wire(key[fr.of]) \in Nat
      BY <1>t, <2>2, WireType
    <3>2. Frame(RESPONSE_ERROR, Wire(key[fr.of]), fr.of, 0) \in DownFrame
      BY <2>2, <3>1, FrameTypes
    <3>3. CASE g # fr.of
      BY <1>4, <1>8, <1>t, <2>2, <2>4, <3>2, <3>3
    <3>4. CASE g = fr.of
      <4>1. phase'[g] = "failed"
        BY <1>t, <2>4, <3>4
      <4> QED
        BY <1>5, <2>2, <2>4, <3>1, <3>4, <4>1
    <3> QED
      BY <3>3, <3>4
  <2> QED
    BY <2>1, <2>2, <2>3, <2>4 DEF OverflowReply
<1>9. ASSUME NEW g \in Fetch, OnEnd(c), Waiting(g)' PROVE Answerable(g)'
  <2>1. PICK fr \in Arrived(c) :
          /\ Read(c, END, fr)
          /\ phase' = [f \in Fetch |-> IF f \in States(c, fr.id) THEN "executing" ELSE phase[f]]
          /\ UNCHANGED s2c
    BY <1>9 DEF OnEnd
  <2>2. /\ fr.of \in Fetch /\ sock[fr.of] = c /\ key[fr.of] # 0
        /\ States(c, fr.id) = {f \in {fr.of} : phase[f] = "collecting"}
        /\ c2s' = [c2s EXCEPT ![c] = Tail(@)] /\ Has(c2s[c], fr.of, END) /\ Is(c2s[c][1], fr.of, END)
        /\ \A h : Is(fr, h, END) => h = fr.of
    BY <2>1, <1>6
  <2>3. CASE g # fr.of
    <3>1. phase'[g] = phase[g]
      BY <2>1, <2>2, <2>3
    <3> QED
      BY <1>4, <1>9, <2>1, <2>2, <2>3, <3>1
  <2>4. CASE g = fr.of /\ phase[g] = "collecting"
    <3>1. phase'[g] = "executing"
      BY <2>1, <2>2, <2>4
    <3> QED
      BY <3>1 DEF Answerable
  <2>5. CASE g = fr.of /\ phase[g] # "collecting"
    <3>1. phase'[g] = phase[g]
      BY <2>1, <2>2, <2>5
    <3>2. phase[g] # "none"
      <4> SUFFICES ASSUME phase[g] = "none" PROVE FALSE
        OBVIOUS
      <4> DEFINE q == c2s[c]
      <4>1. Flow(q, g, UpKinds, Len(body[g]), sent[g], link[c] = "up", phase[g] # "none")
        BY <2>2, <2>5 DEF Uploads, Uploading, UpFlow
      <4>2. q \in Seq(UpFrame) /\ q # <<>> /\ 1 \in DOMAIN q
        BY ArrivedTyped
      <4>3. Is(q[1], g, END) /\ Has(q, g, END)
        BY <2>2, <2>5
      <4> HIDE DEF q
      <4>4. Has(q, g, START)
        BY <4>1, <4>3, Framings DEF Flow, FirstFirst
      <4>5. PICK i \in DOMAIN q : Is(q[i], g, START)
        BY <4>4 DEF Has
      <4>6. i < 1
        BY <4>1, <4>2, <4>3, <4>5, Framings DEF Flow, FirstFirst
      <4> QED
        BY <4>2, <4>5, <4>6
    <3>3. Waiting(g)
      BY <1>1, <1>9 DEF Waiting
    <3>4. /\ phase[g] \in {"responding", "ended", "failed"} =>
                Has(s2c[sock[g]], g, RESPONSE) \/ Has(s2c[sock[g]], g, RESPONSE_ERROR)
          /\ phase[g] # "dropped"
      BY <3>3 DEF ToCome, Answerable
    <3> QED
      BY <1>1, <2>1, <2>5, <3>1, <3>2, <3>4 DEF Answerable
  <2> QED
    BY <2>3, <2>4, <2>5
<1>10. ASSUME NEW g \in Fetch, OnCancel(c), Waiting(g)' PROVE Answerable(g)'
  <2>1. PICK fr \in Arrived(c) :
          /\ Read(c, CANCEL, fr)
          /\ phase' = [f \in Fetch |-> IF f \in States(c, fr.id) THEN "dropped" ELSE phase[f]]
          /\ UNCHANGED s2c
    BY <1>10 DEF OnCancel
  <2>2. /\ fr.of \in Fetch /\ sock[fr.of] = c /\ key[fr.of] # 0
        /\ States(c, fr.id) = {f \in {fr.of} : phase[f] = "collecting"}
        /\ c2s' = [c2s EXCEPT ![c] = Tail(@)] /\ Has(c2s[c], fr.of, CANCEL)
        /\ \A h : ~Is(fr, h, END)
    <3>1. CANCEL # END
      BY DEF CANCEL, END
    <3> QED
      BY <2>1, <3>1, <1>6
  <2>3. stream[fr.of] # "none"
    BY <2>2 DEF ToCome, CancelsStreams
  <2>4. g # fr.of
    BY <1>1, <1>10, <2>3 DEF Waiting
  <2>5. phase'[g] = phase[g]
    BY <2>1, <2>2, <2>4
  <2> QED
    BY <1>4, <1>10, <2>1, <2>2, <2>5
<1>11. ASSUME NEW g \in Fetch, ReadFails(c), Waiting(g)' PROVE Answerable(g)'
  <2>1. /\ link[c] = "down" /\ c2s' = [c2s EXCEPT ![c] = <<>>] /\ UNCHANGED s2c
        /\ phase' = [f \in Fetch |-> IF phase[f] = "collecting" /\ sock[f] = c THEN "dropped" ELSE phase[f]]
    BY <1>11 DEF ReadFails
  <2>2. Waiting(g) /\ sock[g] # c /\ sock[g] \in Conn
    BY <1>1, <1>11, <2>1 DEF Waiting, Isolated, Born, Unborn
  <2>3. phase'[g] = phase[g] /\ c2s'[sock[g]] = c2s[sock[g]]
    BY <1>t, <2>1, <2>2
  <2> QED
    BY <1>1, <2>1, <2>2, <2>3, AnswerableBeside DEF ToCome
<1>12. \A g \in Fetch : Answerable(g)'
  BY <1>7, <1>8, <1>9, <1>10, <1>11 DEF Reads, Answerable
<1> QED
  BY <1>2, <1>3, <1>12 DEF ToCome

\* An executor answers, or its connection is lost.
LEMMA ExecutesToCome ==
  ASSUME TypeOK, Isolated, ToCome, NEW f \in Fetch, Executes(f)
  PROVE  ToCome'
<1>t. /\ s2c \in [Conn -> Seq(DownFrame)] /\ key \in [Fetch -> Nat]
      /\ phase \in [Fetch -> {"none", "collecting", "executing", "responding",
                              "ended", "failed", "dropped"}]
  BY DEF TypeOK
<1>1. /\ phase[f] \in {"executing", "responding"}
      /\ UNCHANGED <<pending, key, sock, pc, promise, stream, link, c2s, serving>>
      /\ \/ UNCHANGED s2c
         \/ \E k \in {RESPONSE, RESPONSE_CHUNK, RESPONSE_END, RESPONSE_ERROR} : \E n \in Nat :
               SendDown(sock[f], <<Frame(k, Wire(key[f]), f, n)>>)
  BY ExecutesSends DEF pageVars, callVars, viewVars
<1>2. key[f] # 0 /\ sock[f] \in Conn /\ Wire(key[f]) \in Nat
  BY <1>1, <1>t, WireType DEF Isolated, Unborn, Born
<1>3. ASSUME NEW c \in Conn
      PROVE  s2c'[c] = s2c[c] \/ \E fr \in DownFrame : s2c'[c] = Append(s2c[c], fr)
  <2>1. CASE UNCHANGED s2c
    BY <2>1
  <2>2. ASSUME NEW k \in {RESPONSE, RESPONSE_CHUNK, RESPONSE_END, RESPONSE_ERROR}, NEW n \in Nat,
               SendDown(sock[f], <<Frame(k, Wire(key[f]), f, n)>>)
        PROVE  s2c'[c] = s2c[c] \/ \E fr \in DownFrame : s2c'[c] = Append(s2c[c], fr)
    <3> DEFINE fr == Frame(k, Wire(key[f]), f, n)
    <3>1. fr \in DownFrame
      BY <1>2, FrameTypes
    <3>2. SendDown(sock[f], <<fr>>)
      BY <2>2
    <3> HIDE DEF fr
    <3>3. \A d \in Conn : s2c'[d] = IF d = sock[f] /\ link[sock[f]] = "up" THEN Append(s2c[d], fr) ELSE s2c[d]
      BY <1>2, <3>1, <3>2, SendOne
    <3> QED
      BY <3>1, <3>3
  <2> QED
    BY <1>1, <2>1, <2>2
<1>4. ASSUME NEW g \in Fetch, Waiting(g)', phase'[g] = phase[g] PROVE Answerable(g)'
  <2>1. Waiting(g) /\ sock[g] \in Conn
    BY <1>1, <1>4 DEF Waiting, Isolated, Born, Unborn
  <2>2. \A k \in {RESPONSE, RESPONSE_ERROR} : Has(s2c[sock[g]], g, k) => Has(s2c'[sock[g]], g, k)
    <3>1. s2c[sock[g]] \in Seq(DownFrame)
      BY <1>t, <2>1
    <3>2. s2c'[sock[g]] = s2c[sock[g]] \/ \E fr \in DownFrame : s2c'[sock[g]] = Append(s2c[sock[g]], fr)
      BY <1>3, <2>1
    <3> QED
      BY <3>1, <3>2, HasKept
  <2> QED
    BY <1>1, <1>4, <2>1, <2>2, AnswerableBeside DEF ToCome
\* What answers a call is on its way to it.
<1>5. ASSUME Waiting(f)', NEW k \in {RESPONSE, RESPONSE_ERROR}, NEW n \in Nat,
             SendDown(sock[f], <<Frame(k, Wire(key[f]), f, n)>>),
             phase'[f] \in {"responding", "ended", "failed"}
      PROVE  Answerable(f)'
  <2> DEFINE fr == Frame(k, Wire(key[f]), f, n)
  <2>1. fr \in DownFrame
    BY <1>2, FrameTypes
  <2>2. Is(fr, f, k)
    BY FrameIs
  <2>3. SendDown(sock[f], <<fr>>)
    BY <1>5
  <2> HIDE DEF fr
  <2>4. link[sock[f]] = "up"
    BY <1>1, <1>5 DEF Waiting
  <2>5. s2c'[sock[f]] = Append(s2c[sock[f]], fr)
    BY <1>2, <2>1, <2>3, <2>4, SendOne
  <2>6. Has(s2c'[sock[f]], f, k)
    BY <1>t, <1>2, <2>1, <2>2, <2>5, HasNew
  <2> QED
    BY <1>1, <1>5, <2>6 DEF Answerable
<1>6. ASSUME Waiting(f)', phase[f] = "responding", phase'[f] \in {"responding", "ended", "failed"}
      PROVE  Answerable(f)'
  <2>1. Waiting(f)
    BY <1>1, <1>6 DEF Waiting
  <2>2. Has(s2c[sock[f]], f, RESPONSE) \/ Has(s2c[sock[f]], f, RESPONSE_ERROR)
    BY <1>6, <2>1 DEF ToCome, Answerable
  <2>3. \A k \in {RESPONSE, RESPONSE_ERROR} : Has(s2c[sock[f]], f, k) => Has(s2c'[sock[f]], f, k)
    <3>1. s2c[sock[f]] \in Seq(DownFrame)
      BY <1>t, <1>2
    <3>2. s2c'[sock[f]] = s2c[sock[f]] \/ \E fr \in DownFrame : s2c'[sock[f]] = Append(s2c[sock[f]], fr)
      BY <1>2, <1>3
    <3> QED
      BY <3>1, <3>2, HasKept
  <2> QED
    BY <1>1, <1>6, <2>2, <2>3 DEF Answerable
<1>7. ASSUME Waiting(f)' PROVE Answerable(f)'
  <2>1. CASE ExecRefuses(f)
    <3>1. phase'[f] = "failed" /\ SendDown(sock[f], <<Frame(RESPONSE_ERROR, Wire(key[f]), f, 0)>>)
      BY <1>t, <2>1 DEF ExecRefuses, Executing
    <3> QED
      BY <1>5, <1>7, <3>1
  <2>2. CASE ExecResponds(f)
    <3>1. phase'[f] = "responding"
      BY <1>t, <2>2 DEF ExecResponds, Executing
    <3>2. PICK s \in Status : SendDown(sock[f], <<Frame(RESPONSE, Wire(key[f]), f, s)>>)
      BY <2>2 DEF ExecResponds
    <3>3. s \in Nat
      BY MuxAssumption DEF EMPTY, BODY, UNUSABLE, SWITCHING
    <3> QED
      BY <1>5, <1>7, <3>1, <3>2, <3>3
  <2>3. CASE ExecStreams(f) \/ ExecEnds(f) \/ ExecInterrupted(f)
    <3>1. phase[f] = "responding" /\ phase'[f] \in {"responding", "ended", "failed"}
      BY <1>t, <2>3 DEF ExecStreams, ExecEnds, ExecInterrupted, Executing
    <3> QED
      BY <1>6, <1>7, <3>1
  <2>4. CASE ExecCancelled(f)
    <3>1. serving[sock[f]] = "returned"
      BY <2>4 DEF ExecCancelled, ContextDone
    <3>2. link[sock[f]] = "down"
      BY <1>2, <3>1 DEF ToCome, ReturnsOnLoss
    <3> QED
      BY <1>1, <1>7, <3>2 DEF Waiting
  <2> QED
    BY <2>1, <2>2, <2>3, <2>4 DEF Executes
<1>8. ASSUME NEW g \in Fetch PROVE Answerable(g)'
  <2>1. g # f => phase'[g] = phase[g]
    BY <1>t DEF Executes, ExecRefuses, ExecResponds, ExecStreams, ExecEnds, ExecInterrupted,
                ExecCancelled, Executing
  <2>2. ~Waiting(g)' => Answerable(g)'
    BY DEF Answerable
  <2> QED
    BY <1>4, <1>7, <2>1, <2>2
<1>9. ReturnsOnLoss' /\ \A g \in Fetch : CancelsStreams(g)'
  BY <1>1, CancelsKept DEF ToCome, ReturnsOnLoss
<1> QED
  BY <1>8, <1>9 DEF ToCome

\* When the connection drops nobody is owed an answer over it.
LEMMA DropsToCome ==
  ASSUME TypeOK, Isolated, ToCome, NEW c \in Conn, LinkDrops(c)
  PROVE  ToCome'
<1>1. /\ UNCHANGED <<pending, key, sock, pc, promise, stream, c2s, s2c, serving, phase>>
      /\ link' = [link EXCEPT ![c] = "down"] /\ link \in [Conn -> {"idle", "up", "down"}]
  BY DEF LinkDrops, pageVars, callVars, viewVars, serverVars, TypeOK
<1>2. ASSUME NEW g \in Fetch PROVE Answerable(g)'
  <2>1. Waiting(g)' => Waiting(g)
    BY <1>1 DEF Waiting, Isolated, Born, Unborn
  <2> QED
    BY <1>1, <2>1, AnswerableBeside DEF ToCome
<1>3. ReturnsOnLoss'
  BY <1>1 DEF ToCome, ReturnsOnLoss
<1>4. \A g \in Fetch : CancelsStreams(g)'
  BY <1>1, CancelsKept
<1> QED
  BY <1>2, <1>3, <1>4 DEF ToCome

LEMMA StepToCome ==
  NoWrap /\ TypeOK /\ Isolated /\ Uploads /\ ToCome /\ [Next]_vars => ToCome'
<1> SUFFICES ASSUME NoWrap, TypeOK, Isolated, Uploads, ToCome, [Next]_vars PROVE ToCome'
  OBVIOUS
<1>1. ASSUME NEW f \in Fetch, CallsOn(f) \/ Begin(f) PROVE ToCome'
  BY <1>1, CallsToCome, BeginToCome
<1>2. CASE Events
  BY <1>2, SocketToCome, MessageToCome DEF Events
<1>3. ASSUME NEW c \in Conn, Reads(c) PROVE ToCome'
  BY <1>3, ReadsToCome
<1>4. ASSUME NEW f \in Fetch, Executes(f) PROVE ToCome'
  BY <1>4, ExecutesToCome
<1>5. CASE \E c \in Conn : LinkDrops(c)
  BY <1>5, DropsToCome
<1>6. CASE UNCHANGED vars
  <2>1. UNCHANGED <<key, sock, pending, pc, promise, link, phase, stream, c2s, s2c, serving>>
    BY <1>6 DEF vars, netVars, pageVars, callVars, viewVars, serverVars
  <2> QED
    BY <2>1 DEF ToCome, Answerable, CancelsStreams, ReturnsOnLoss, Waiting
<1> QED
  BY <1>1, <1>2, <1>3, <1>4, <1>5, <1>6 DEF Next, Page, Server, CallsOn, Events, Reads, Executes

LEMMA InitToCome == Init => ToCome
  BY DEF Init, ToCome, Answerable, CancelsStreams, ReturnsOnLoss, Waiting

----------------------------------------------------------------------------
(***************************************************************************)
(* Statuses.  A response carries the status its target answered with, so   *)
(* where no target answers with one that `new Response` refuses, the       *)
(* message that makes a stream settles the promise as well.                *)
(***************************************************************************)
Refused == Status \cap {UNUSABLE, SWITCHING}

Sendable(fr) == fr.kind = RESPONSE => fr.n \in Status
StatusesSent == \A c \in Conn : \A i \in DOMAIN s2c[c] : Sendable(s2c[c][i])

SettledOnResponse == Refused = {} => \A f \in Fetch : stream[f] # "none" => promise[f] # "pending"

Statuses == StatusesSent /\ SettledOnResponse

\* What the page takes leaves, and what the server appends joins, responses of a target.
LEMMA StatusesKept ==
  ASSUME TypeOK, StatusesSent,
         \A c \in Conn : \/ s2c'[c] = s2c[c] \/ s2c'[c] = <<>>
                         \/ s2c[c] # <<>> /\ s2c'[c] = Tail(s2c[c])
                         \/ \E fr \in DownFrame : Sendable(fr) /\ s2c'[c] = Append(s2c[c], fr)
  PROVE  StatusesSent'
<1> SUFFICES ASSUME NEW c \in Conn, NEW i \in DOMAIN s2c'[c] PROVE Sendable(s2c'[c][i])
  BY DEF StatusesSent, Sendable
<1>1. s2c[c] \in Seq(DownFrame)
  BY DEF TypeOK
<1>2. \A j \in DOMAIN s2c[c] : Sendable(s2c[c][j])
  BY DEF StatusesSent
<1>3. CASE s2c'[c] = s2c[c]
  BY <1>2, <1>3
<1>4. CASE s2c'[c] = <<>>
  BY <1>4
<1>5. CASE s2c[c] # <<>> /\ s2c'[c] = Tail(s2c[c])
  <2>1. i + 1 \in DOMAIN s2c[c] /\ s2c'[c][i] = s2c[c][i + 1]
    BY <1>1, <1>5
  <2> QED
    BY <1>2, <2>1
<1>6. ASSUME NEW fr \in DownFrame, Sendable(fr), s2c'[c] = Append(s2c[c], fr) PROVE Sendable(s2c'[c][i])
  <2>1. (i \in DOMAIN s2c[c] /\ s2c'[c][i] = s2c[c][i]) \/ s2c'[c][i] = fr
    BY <1>1, <1>6
  <2> QED
    BY <1>2, <1>6, <2>1
<1> QED
  BY <1>3, <1>4, <1>5, <1>6

\* A frame sent over d is appended there, or lost.
LEMMA SendsStatus ==
  ASSUME TypeOK, StatusesSent, NEW d \in Conn, NEW f \in Fetch, NEW id \in Nat, NEW n \in Nat,
         NEW k \in {RESPONSE, RESPONSE_CHUNK, RESPONSE_END, RESPONSE_ERROR},
         k = RESPONSE => n \in Status,
         SendDown(d, <<Frame(k, id, f, n)>>)
  PROVE  StatusesSent'
<1> DEFINE fr == Frame(k, id, f, n)
<1>1. fr \in DownFrame
  BY FrameTypes
<1>2. Sendable(fr)
  BY DEF Sendable, Frame
<1>3. \A c \in Conn : s2c'[c] = IF c = d /\ link[d] = "up" THEN Append(s2c[c], fr) ELSE s2c[c]
  BY <1>1, SendOne
<1> HIDE DEF fr
<1> QED
  BY <1>1, <1>2, <1>3, StatusesKept

\* The read loop sends errors, an executor what its target answered.
LEMMA ServerStatuses ==
  ASSUME NoWrap, TypeOK, Isolated, Statuses,
         (\E c \in Conn : Reads(c)) \/ (\E f \in Fetch : Executes(f))
  PROVE  Statuses'
<1>k. key \in [Fetch -> Nat] /\ produced \in [Fetch -> Nat]
  BY DEF TypeOK
<1>1. UNCHANGED <<promise, stream>>
  BY ExecutesSends DEF Reads, OnStart, OnChunk, OnEnd, OnCancel, ReadFails, Read, pageVars, viewVars
<1>2. UNCHANGED s2c => StatusesSent'
  BY DEF Statuses, StatusesSent
<1>3. ASSUME NEW f \in Fetch, NEW n \in Nat, key[f] # 0,
             NEW k \in {RESPONSE, RESPONSE_CHUNK, RESPONSE_END, RESPONSE_ERROR},
             k = RESPONSE => n \in Status,
             SendDown(sock[f], <<Frame(k, Wire(key[f]), f, n)>>)
      PROVE  StatusesSent'
  <2>1. sock[f] \in Conn /\ Wire(key[f]) \in Nat
    BY <1>3, <1>k, WireType DEF Isolated, Born
  <2> QED
    BY <1>3, <2>1, SendsStatus DEF Statuses
<1>d. /\ RESPONSE_CHUNK # RESPONSE /\ RESPONSE_END # RESPONSE /\ RESPONSE_ERROR # RESPONSE
      /\ InterruptedKind = RESPONSE_ERROR
  BY DEF RESPONSE, RESPONSE_CHUNK, RESPONSE_END, RESPONSE_ERROR, InterruptedKind
<1>4. ASSUME NEW c \in Conn, Reads(c) PROVE StatusesSent'
  <2>1. CASE OnStart(c)
    <3>1. PICK fr \in Arrived(c) : \/ UNCHANGED s2c
                                   \/ SendDown(c, <<Frame(RESPONSE_ERROR, fr.id, fr.of, 0)>>)
      BY <2>1 DEF OnStart
    <3>2. fr.of \in Fetch /\ sock[fr.of] = c /\ key[fr.of] # 0 /\ fr.id = Wire(key[fr.of])
      BY ArrivedTyped, StatesOf, Identifiers
    <3> QED
      BY <1>2, <1>3, <1>d, <3>1, <3>2
  <2>2. CASE OnChunk(c)
    <3>1. PICK fr \in Arrived(c) : \/ UNCHANGED s2c
                                   \/ \E f \in States(c, fr.id) : SendDown(c, OverflowReply(f))
      BY <2>2 DEF OnChunk
    <3>2. fr.of \in Fetch /\ sock[fr.of] = c /\ key[fr.of] # 0 /\ States(c, fr.id) \subseteq {fr.of}
      BY ArrivedTyped, StatesOf
    <3> QED
      BY <1>2, <1>3, <1>d, <3>1, <3>2 DEF OverflowReply
  <2>3. CASE OnEnd(c) \/ OnCancel(c) \/ ReadFails(c)
    BY <1>2, <2>3 DEF OnEnd, OnCancel, ReadFails
  <2> QED
    BY <1>4, <2>1, <2>2, <2>3 DEF Reads
<1>5. ASSUME NEW f \in Fetch, Executes(f) PROVE StatusesSent'
  <2>1. key[f] # 0 /\ produced[f] + 1 \in Nat
    <3>1. phase[f] # "none"
      BY <1>5, ExecutesSends
    <3>2. key[f] # 0
      BY <3>1 DEF Isolated, Unborn
    <3>3. produced[f] \in Nat
      BY <1>k
    <3> QED
      BY <3>2, <3>3
  <2>2. CASE ExecResponds(f)
    <3>1. PICK s \in Status : SendDown(sock[f], <<Frame(RESPONSE, Wire(key[f]), f, s)>>)
      BY <2>2 DEF ExecResponds
    <3>2. s \in Nat
      BY MuxAssumption DEF EMPTY, BODY, UNUSABLE, SWITCHING
    <3> QED
      BY <1>3, <2>1, <3>1, <3>2
  <2>3. CASE ExecStreams(f)
    BY <1>3, <1>d, <2>1, <2>3 DEF ExecStreams
  <2>4. CASE ExecRefuses(f) \/ ExecEnds(f) \/ ExecInterrupted(f)
    BY <1>3, <1>d, <2>1, <2>4 DEF ExecRefuses, ExecEnds, ExecInterrupted
  <2>5. CASE ExecCancelled(f)
    BY <1>2, <2>5 DEF ExecCancelled, netVars
  <2> QED
    BY <1>5, <2>2, <2>3, <2>4, <2>5 DEF Executes
<1> QED
  BY <1>1, <1>4, <1>5 DEF Statuses, SettledOnResponse

\* The events of the page: only a response makes a stream.
LEMMA EventsStatuses ==
  ASSUME TypeOK, Isolated, Statuses, Events
  PROVE  Statuses'
<1>t. /\ promise \in [Fetch -> {"pending", "resolved", "rejected"}]
      /\ stream \in [Fetch -> {"none", "nobody", "open", "closed", "errored", "cancelled"}]
      /\ s2c \in [Conn -> Seq(DownFrame)]
  BY DEF TypeOK
<1>1. StatusesSent'
  <2>1. ASSUME NEW c \in Conn
        PROVE  s2c'[c] = s2c[c] \/ s2c'[c] = <<>> \/ (s2c[c] # <<>> /\ s2c'[c] = Tail(s2c[c]))
    <3>1. CASE SocketOpens \/ SocketFails
      BY <3>1 DEF SocketOpens, SocketFails, netVars
    <3>2. CASE SocketCloses
      BY <3>2, <1>t DEF SocketCloses
    <3>3. CASE \E fr \in Message : \E k : Receive(k, fr)
      BY <3>3, <1>t, MessageTyped DEF Receive
    <3> QED
      BY <3>1, <3>2, <3>3 DEF Events, HandleResponse, HandleChunk, HandleEnd, HandleError
  <2> QED
    BY <2>1, StatusesKept DEF Statuses
<1>2. ASSUME Refused = {}, HandleResponse PROVE SettledOnResponse'
  <2>1. PICK fr \in Message :
          /\ Receive(RESPONSE, fr)
          /\ promise' = [f \in Fetch |-> IF f \in {g \in Addressed(fr) : promise[g] = "pending" /\ Accepted(fr.n)}
                                         THEN "resolved" ELSE promise[f]]
          /\ \A g \in Fetch \ Addressed(fr) : stream'[g] = stream[g]
    BY <1>2 DEF HandleResponse
  <2>2. s2c[conn] \in Seq(DownFrame) /\ s2c[conn] # <<>> /\ fr = Head(s2c[conn]) /\ conn \in Conn
    BY MessageTyped
  <2>3. fr = s2c[conn][1] /\ 1 \in DOMAIN s2c[conn]
    BY <2>2
  <2>4. fr.n \in Status
    BY <2>1, <2>2, <2>3 DEF Receive, Statuses, StatusesSent, Sendable
  <2>5. Accepted(fr.n)
    BY MuxAssumption, <1>2, <2>4 DEF Accepted, Refused
  <2> QED
    BY <1>t, <1>2, <2>1, <2>5 DEF Statuses, SettledOnResponse
<1>3. ASSUME NEW P, Failed(P) PROVE SettledOnResponse'
  BY <1>t, <1>3 DEF Failed, Statuses, SettledOnResponse
<1>4. ASSUME SocketOpens \/ SocketFails \/ HandleChunk PROVE SettledOnResponse'
  <2>1. promise' = promise /\ stream' = stream
    BY <1>4 DEF SocketOpens, SocketFails, HandleChunk, viewVars
  <2> QED
    BY <2>1 DEF Statuses, SettledOnResponse
<1>5. ASSUME HandleEnd PROVE SettledOnResponse'
  <2>1. promise' = promise /\ \A f \in Fetch : stream'[f] # "none" => stream[f] # "none"
    BY <1>5, <1>t DEF HandleEnd
  <2> QED
    BY <2>1 DEF Statuses, SettledOnResponse
<1>6. HandleResponse => SettledOnResponse'
  BY <1>2 DEF SettledOnResponse, Refused
<1>7. SettledOnResponse'
  BY <1>3, <1>4, <1>5, <1>6 DEF Events, HandleError, SocketCloses
<1> QED
  BY <1>1, <1>7 DEF Statuses

LEMMA StepStatuses ==
  NoWrap /\ TypeOK /\ Isolated /\ Statuses /\ [Next]_vars => Statuses'
<1> SUFFICES ASSUME NoWrap, TypeOK, Isolated, Statuses, [Next]_vars PROVE Statuses'
  OBVIOUS
<1>1. ASSUME UNCHANGED <<promise, s2c>>, \A f \in Fetch : stream'[f] # "none" => stream[f] # "none"
      PROVE  Statuses'
  BY <1>1 DEF Statuses, StatusesSent, SettledOnResponse
<1>2. ASSUME NEW f \in Fetch, CallsOn(f) \/ Begin(f) PROVE Statuses'
  <2>1. CASE CancelStream(f)
    <3>1. \A g \in Fetch : stream'[g] # "none" => stream[g] # "none"
      BY <2>1 DEF CancelStream, TypeOK
    <3> QED
      BY <1>1, <2>1, <3>1 DEF CancelStream
  <2>2. CASE Fetching(f) \/ Upload(f) \/ UploadEnds(f) \/ UploadThrows(f) \/ Begin(f)
    BY <1>1, <2>2 DEF Fetching, Upload, UploadEnds, UploadThrows, Begin, viewVars, netVars
  <2> QED
    BY <1>2, <2>1, <2>2 DEF CallsOn
<1>3. CASE Events
  BY <1>3, EventsStatuses
<1>4. CASE (\E c \in Conn : Reads(c)) \/ (\E f \in Fetch : Executes(f))
  BY <1>4, ServerStatuses
<1>5. CASE (\E c \in Conn : LinkDrops(c)) \/ UNCHANGED vars
  BY <1>1, <1>5 DEF LinkDrops, vars, pageVars, viewVars, netVars
<1> QED
  BY <1>2, <1>3, <1>4, <1>5 DEF Next, Page, Server, CallsOn, Events, Reads, Executes

LEMMA InitStatuses == Init => Statuses
  BY DEF Init, Statuses, StatusesSent, SettledOnResponse

\* While its connection is up, a call in the table that waits is waiting for its upload, its
\* END, its executor, or a RESPONSE or ERROR on its way: no handler of either side drops a
\* stream silently (mux.go:97-120, runtime.js handleFrame), but for a RESPONSE that
\* `new Response` refuses (101 without a stream, a status above 599 with one): where no
\* target answers so, there is no exception.
THEOREM NoneOrphaned ==
  ASSUME NoWrap
  PROVE  Spec => []NoOrphanedFetch
<1>1. Init => IInv /\ ToCome /\ Statuses
  BY InitTyped, InitIsolated, InitUploads, InitResponses, InitToCome, InitStatuses DEF IInv
<1>2. IInv /\ ToCome /\ Statuses /\ [Next]_vars => (IInv /\ ToCome /\ Statuses)'
  BY NoWrap, StepTyped, StepIsolated, StepUploads, StepResponses, StepToCome, StepStatuses DEF IInv
<1>3. IInv /\ ToCome /\ Statuses => NoOrphanedFetch
  <2> SUFFICES ASSUME IInv, ToCome, Statuses, NEW f \in pending,
                      promise[f] = "pending", link[sock[f]] = "up"
               PROVE  \/ Unsettled(f) /\ Refused # {}
                      \/ pc[f] \in {"upload", "threw"} /\ phase[f] \in {"none", "collecting"}
                      \/ InFlight(c2s[sock[f]], f, {END})
                      \/ phase[f] = "executing"
                      \/ InFlight(s2c[sock[f]], f, {RESPONSE, RESPONSE_ERROR})
    BY DEF NoOrphanedFetch, Refused
  <2>1. f \in Fetch
    BY DEF IInv, TypeOK
  <2>2. CASE stream[f] # "none"
    BY <2>1, <2>2 DEF Statuses, SettledOnResponse, Unsettled
  <2>3. CASE stream[f] = "none"
    <3>1. Waiting(f)
      BY <2>3 DEF Waiting
    <3>2. /\ phase[f] \in {"none", "collecting"} =>
                pc[f] \in {"upload", "threw"} \/ Has(c2s[sock[f]], f, END)
          /\ phase[f] \in {"responding", "ended", "failed"} =>
                Has(s2c[sock[f]], f, RESPONSE) \/ Has(s2c[sock[f]], f, RESPONSE_ERROR)
          /\ phase[f] # "dropped"
      BY <2>1, <3>1 DEF ToCome, Answerable
    <3>3. phase[f] \in {"none", "collecting", "executing", "responding", "ended", "failed", "dropped"}
      BY <2>1 DEF IInv, TypeOK
    <3>4. Has(c2s[sock[f]], f, END) => InFlight(c2s[sock[f]], f, {END})
      BY DEF Has, Is, InFlight
    <3>5. Has(s2c[sock[f]], f, RESPONSE) \/ Has(s2c[sock[f]], f, RESPONSE_ERROR)
          => InFlight(s2c[sock[f]], f, {RESPONSE, RESPONSE_ERROR})
      BY DEF Has, Is, InFlight
    <3> QED
      BY <3>2, <3>3, <3>4, <3>5
  <2> QED
    BY <2>2, <2>3
<1> QED
  BY <1>1, <1>2, <1>3, PTL DEF Spec

----------------------------------------------------------------------------
(***************************************************************************)
(* Refinement.  Every step of the multiplexer is one step of Fetching, on  *)
(* one call or on all that fail together, or is not seen there.            *)
(***************************************************************************)

\* A promise is settled by the response that makes the stream, or with the call gone.
PromiseStands(f) ==
    (key[f] = 0 \/ f \in pending) /\ stream[f] = "none" => promise[f] = "pending"
PromisesStand == \A f \in Fetch : PromiseStands(f)

\* A step of the server that leaves the stages of all calls but those in P.
Moved(P) == \A g \in Fetch \ P : phase'[g] = phase[g] \/ Stage(g)' = Stage(g)

LEMMA SeenUnmoved ==
  ASSUME UNCHANGED <<viewVars, produced>>, Moved({})
  PROVE  UNCHANGED Abstract!vars
<1>1. \A f \in Fetch : Stage(f)' = Stage(f)
  BY DEF Moved, Stage
<1>2. UNCHANGED <<promise, stream, got>>
  BY DEF viewVars
<1> QED
  BY <1>1, <1>2 DEF Abstract!vars, Abstract!server, Abstract!page

LEMMA SeenStopped ==
  ASSUME UNCHANGED <<viewVars, produced>>, NEW P \in SUBSET Fetch, Moved(P),
         \A f \in P : /\ phase[f] \in {"none", "collecting", "executing", "responding"}
                      /\ phase'[f] \in {"failed", "dropped"}
  PROVE  Abstract!Next
<1>1. \A f \in Fetch : Stage(f)' = IF f \in P THEN "stopped" ELSE Stage(f)
  <2>1. ASSUME NEW f \in P PROVE Stage(f)' = "stopped"
    <3>1. phase'[f] \in {"failed", "dropped"}
      OBVIOUS
    <3> QED
      BY <3>1 DEF Stage
  <2>2. ASSUME NEW f \in Fetch \ P PROVE Stage(f)' = Stage(f)
    BY DEF Moved, Stage
  <2> QED
    BY <2>1, <2>2
<1>2. \A f \in P : Stage(f) \in {"none", "asked", "answering"}
  BY DEF Stage
<1>3. UNCHANGED <<promise, stream, got>>
  BY DEF viewVars
<1>4. Abstract!Stop(P)
  BY <1>1, <1>2, <1>3 DEF Abstract!Stop, Abstract!page
<1> QED
  BY <1>4 DEF Abstract!Next

LEMMA SeenProceeds ==
  ASSUME UNCHANGED <<viewVars, produced>>, NEW f \in Fetch, Moved({f}),
         \/ phase[f] \in {"none", "collecting"} /\ phase'[f] = "executing"
         \/ phase[f] = "executing" /\ phase'[f] = "responding"
         \/ phase[f] = "responding" /\ phase'[f] = "ended"
  PROVE  Abstract!Next
<1>1. \A g \in Fetch \ {f} : Stage(g)' = Stage(g)
  BY DEF Moved, Stage
<1>2. UNCHANGED <<promise, stream, got>>
  BY DEF viewVars
<1>3. ASSUME NEW from, NEW to, Stage(f) = from, Stage(f)' = to PROVE Abstract!Proceeds(f, from, to)
  BY <1>1, <1>2, <1>3 DEF Abstract!Proceeds, Abstract!page
<1>4. \/ Abstract!Proceeds(f, "none", "asked") \/ Abstract!Proceeds(f, "asked", "answering")
      \/ Abstract!Proceeds(f, "answering", "ended")
  <2>1. CASE phase[f] \in {"none", "collecting"} /\ phase'[f] = "executing"
    BY <1>3, <2>1 DEF Stage
  <2>2. CASE phase[f] = "executing" /\ phase'[f] = "responding"
    BY <1>3, <2>2 DEF Stage
  <2>3. CASE phase[f] = "responding" /\ phase'[f] = "ended"
    BY <1>3, <2>3 DEF Stage
  <2> QED
    BY <2>1, <2>2, <2>3
<1> QED
  BY <1>4 DEF Abstract!Next

\* What the page does before a call has an answer is not seen.
LEMMA CallsSeen ==
  ASSUME NEW f \in Fetch, CallsOn(f) \/ Begin(f)
  PROVE  Abstract!Next \/ UNCHANGED Abstract!vars
<1>1. CASE Fetching(f) \/ Upload(f) \/ UploadEnds(f) \/ UploadThrows(f) \/ Begin(f)
  <2>1. UNCHANGED <<viewVars, produced, phase>>
    BY <1>1 DEF Fetching, Upload, UploadEnds, UploadThrows, Begin, serverVars
  <2> QED
    BY <2>1, SeenUnmoved DEF Moved
<1>2. CASE CancelStream(f)
  <2>1. \A g \in Fetch : Stage(g)' = Stage(g)
    BY <1>2 DEF CancelStream, serverVars, Stage
  <2>2. Abstract!Cancels(f)
    BY <1>2, <2>1 DEF CancelStream, serverVars, Abstract!Cancels, Abstract!server
  <2> QED
    BY <2>2 DEF Abstract!Next
<1> QED
  BY <1>1, <1>2 DEF CallsOn

\* Calls fail one by one, or all that share a connection.
LEMMA FailsSeen ==
  ASSUME NEW P \in SUBSET Fetch, Failed(P), UNCHANGED <<serverVars, got>>
  PROVE  Abstract!Next
<1>1. \A g \in Fetch : Stage(g)' = Stage(g)
  BY DEF serverVars, Stage
<1>2. Abstract!Fail(P)
  BY <1>1 DEF Failed, serverVars, Abstract!Fail, Abstract!server
<1> QED
  BY <1>2 DEF Abstract!Next

LEMMA SocketSeen ==
  ASSUME TypeOK, SocketOpens \/ SocketFails \/ SocketCloses \/ \E c \in Conn : LinkDrops(c)
  PROVE  Abstract!Next \/ UNCHANGED Abstract!vars
<1>1. CASE SocketOpens \/ SocketFails \/ \E c \in Conn : LinkDrops(c)
  <2>1. UNCHANGED <<viewVars, produced, phase>>
    BY <1>1 DEF SocketOpens, SocketFails, LinkDrops, serverVars, pageVars
  <2> QED
    BY <2>1, SeenUnmoved DEF Moved
<1>2. CASE SocketCloses
  <2>1. pending \in SUBSET Fetch
    BY DEF TypeOK
  <2> QED
    BY <1>2, <2>1, FailsSeen DEF SocketCloses, FailedOnClose
<1> QED
  BY <1>1, <1>2

\* A response is seen to arrive, its chunks to be delivered in turn, and its end to close.
LEMMA MessageSeen ==
  ASSUME TypeOK, Isolated, Responses, Responses', PromisesStand,
         HandleResponse \/ HandleChunk \/ HandleEnd \/ HandleError
  PROVE  Abstract!Next \/ UNCHANGED Abstract!vars
<1>t. /\ promise \in [Fetch -> {"pending", "resolved", "rejected"}]
      /\ stream \in [Fetch -> {"none", "nobody", "open", "closed", "errored", "cancelled"}]
      /\ got \in [Fetch -> Seq(Fetch \X Nat)] /\ produced \in [Fetch -> Nat]
      /\ phase \in [Fetch -> {"none", "collecting", "executing", "responding",
                              "ended", "failed", "dropped"}]
  BY DEF TypeOK
<1>s. ASSUME NEW k, NEW fr \in Message, Receive(k, fr)
      PROVE  /\ UNCHANGED serverVars /\ \A g \in Fetch : Stage(g)' = Stage(g)
             /\ fr.of \in Fetch /\ Addressed(fr) = pending \cap {fr.of}
  BY <1>s, AddressedOf, MessageTyped DEF Receive, serverVars, Stage
<1>1. CASE HandleResponse
  <2>1. PICK fr \in Message :
          /\ Receive(RESPONSE, fr) /\ UNCHANGED <<pending, got>>
          /\ promise' = [g \in Fetch |-> IF g \in {h \in Addressed(fr) : promise[h] = "pending"
                                                                         /\ Accepted(fr.n)}
                                         THEN "resolved" ELSE promise[g]]
          /\ stream' = [g \in Fetch |-> IF g \in Addressed(fr)
                                        THEN (IF Bodyless(fr.n) THEN "nobody" ELSE "open")
                                        ELSE stream[g]]
    BY <1>1 DEF HandleResponse
  <2> DEFINE f == fr.of
  <2>2. /\ UNCHANGED serverVars /\ \A g \in Fetch : Stage(g)' = Stage(g)
        /\ f \in Fetch /\ Addressed(fr) = pending \cap {f}
    BY <1>s, <2>1
  <2>3. sock[f] = conn /\ key[f] # 0 /\ Has(s2c[conn], f, RESPONSE)
    BY <2>1, PageTakes
  <2>4. CASE f \notin pending
    <3>1. promise' = promise /\ stream' = stream
      BY <1>t, <2>1, <2>2, <2>4
    <3> QED
      BY <2>1, <2>2, <3>1 DEF serverVars, Abstract!vars, Abstract!server, Abstract!page
  <2>5. CASE f \in pending
    <3>1. Unanswered(f) /\ Answering(f) /\ PromiseStands(f)
      BY <2>2 DEF Responses, PromisesStand
    <3>2. stream[f] = "none" /\ promise[f] = "pending"
      BY <2>3, <2>5, <3>1 DEF Answering, PromiseStands
    <3>3. Stage(f) \in {"answering", "ended", "stopped"}
      <4>1. phase[f] \notin {"none", "collecting", "executing"}
        BY <2>2, <2>3, <3>1, ResponseSeen
      <4> QED
        BY <1>t, <2>2, <4>1 DEF Stage
    <3>4. \E settled \in {"resolved", "pending"} : promise' = [promise EXCEPT ![f] = settled]
      BY <1>t, <2>1, <2>2, <2>5, <3>2
    <3>5. \E s \in {"nobody", "open"} : stream' = [stream EXCEPT ![f] = s]
      BY <1>t, <2>1, <2>2, <2>5
    <3>6. Abstract!Responds(f)
      BY ZenonT(30), <2>1, <2>2, <3>2, <3>3, <3>4, <3>5 DEF serverVars, Abstract!Responds, Abstract!server
    <3> QED
      BY <2>2, <3>6 DEF Abstract!Next
  <2> QED
    BY <2>4, <2>5
<1>2. CASE HandleChunk
  <2>1. PICK fr \in Message :
          /\ Receive(RESPONSE_CHUNK, fr) /\ UNCHANGED <<pending, promise, answer, stream>>
          /\ got' = [g \in Fetch |-> IF g \in Addressed(fr) /\ stream[g] = "open"
                                     THEN Append(got[g], <<fr.of, fr.n>>) ELSE got[g]]
    BY <1>2 DEF HandleChunk
  <2> DEFINE f == fr.of
  <2>2. /\ UNCHANGED serverVars /\ \A g \in Fetch : Stage(g)' = Stage(g)
        /\ f \in Fetch /\ Addressed(fr) = pending \cap {f} /\ fr.n \in Nat
    BY <1>s, <2>1, MessageTyped
  <2>3. CASE f \notin pending \/ stream[f] # "open"
    <3>1. got' = got
      BY <1>t, <2>1, <2>2, <2>3
    <3> QED
      BY <2>1, <2>2, <3>1 DEF serverVars, Abstract!vars, Abstract!server, Abstract!page
  <2>4. CASE f \in pending /\ stream[f] = "open"
    <3>1. Len(got'[f]) = Len(got[f]) + 1 /\ \A g \in Fetch \ {f} : got'[g] = got[g]
      BY <1>t, <2>1, <2>2, <2>4
    <3>2. Len(got'[f]) <= produced[f]
      BY <2>2 DEF Responses, Delivered, serverVars
    <3>3. Len(got[f]) \in Nat /\ produced[f] \in Nat
      BY <1>t, <2>2
    <3>4. Len(got[f]) < produced[f]
      BY <3>1, <3>2, <3>3
    <3>5. [g \in Fetch |-> Len(got'[g])]
          = [[g \in Fetch |-> Len(got[g])] EXCEPT ![f] = @ + 1]
      BY <2>2, <3>1
    <3>6. Abstract!Delivers(f)
      BY <2>1, <2>2, <2>4, <3>4, <3>5 DEF serverVars, Abstract!Delivers, Abstract!server
    <3> QED
      BY <2>2, <3>6 DEF Abstract!Next
  <2> QED
    BY <2>3, <2>4
<1>3. CASE HandleEnd
  <2>1. PICK fr \in Message :
          /\ Receive(RESPONSE_END, fr) /\ UNCHANGED <<promise, answer, got>>
          /\ stream' = [g \in Fetch |-> IF g \in Addressed(fr) /\ stream[g] = "open"
                                        THEN "closed" ELSE stream[g]]
    BY <1>3 DEF HandleEnd
  <2> DEFINE f == fr.of
  <2>2. /\ UNCHANGED serverVars /\ \A g \in Fetch : Stage(g)' = Stage(g)
        /\ f \in Fetch /\ Addressed(fr) = pending \cap {f}
    BY <1>s, <2>1
  <2>3. CASE f \notin pending \/ stream[f] # "open"
    <3>1. stream' = stream
      BY <1>t, <2>1, <2>2, <2>3
    <3> QED
      BY <2>1, <2>2, <3>1 DEF serverVars, Abstract!vars, Abstract!server, Abstract!page
  <2>4. CASE f \in pending /\ stream[f] = "open"
    <3>1. stream' = [stream EXCEPT ![f] = "closed"]
      BY <1>t, <2>1, <2>2, <2>4
    <3>2. stream'[f] = "closed"
      BY <1>t, <2>2, <3>1
    <3>3. phase[f] = "ended" /\ Len(got[f]) = produced[f]
      BY <2>1, <2>2, <3>2 DEF Responses, Delivered, serverVars
    <3>4. Stage(f) = "ended"
      BY <3>3 DEF Stage
    <3>5. Abstract!Closes(f)
      BY <2>1, <2>2, <2>4, <3>1, <3>3, <3>4 DEF serverVars, Abstract!Closes, Abstract!server
    <3> QED
      BY <2>2, <3>5 DEF Abstract!Next
  <2> QED
    BY <2>3, <2>4
<1>4. CASE HandleError
  <2>1. PICK fr \in Message :
          Receive(RESPONSE_ERROR, fr) /\ Failed(Addressed(fr)) /\ UNCHANGED got
    BY <1>4 DEF HandleError
  <2>2. UNCHANGED serverVars /\ Addressed(fr) \in SUBSET Fetch
    BY <1>s, <2>1
  <2> QED
    BY <2>1, <2>2, FailsSeen
<1> QED
  BY <1>1, <1>2, <1>3, <1>4

\* The read loop makes or stops requests; collecting one is not seen.
LEMMA ReadsSeen ==
  ASSUME NoWrap, TypeOK, Isolated, Uploads, NEW c \in Conn, Reads(c)
  PROVE  Abstract!Next \/ UNCHANGED Abstract!vars
<1>t. phase \in [Fetch -> {"none", "collecting", "executing", "responding",
                           "ended", "failed", "dropped"}]
  BY DEF TypeOK
<1>1. UNCHANGED <<viewVars, produced>>
  BY DEF Reads, OnStart, OnChunk, OnEnd, OnCancel, ReadFails, Read, pageVars
<1>s. ASSUME NEW k, NEW fr \in Arrived(c), Read(c, k, fr)
      PROVE  /\ fr.of \in Fetch /\ Has(c2s[c], fr.of, k) /\ sock[fr.of] = c /\ key[fr.of] # 0
             /\ States(c, fr.id) = {f \in {fr.of} : phase[f] = "collecting"}
  BY <1>s, ReadTakes, StatesOf
<1>2. CASE OnStart(c)
  <2>1. PICK fr \in Arrived(c) :
          /\ Read(c, START, fr)
          /\ \/ phase' = [phase EXCEPT ![fr.of] = "collecting"]
             \/ States(c, fr.id) # {}
    BY <1>2 DEF OnStart
  <2>2. phase[fr.of] = "none" /\ fr.of \in Fetch
    BY <1>s, <2>1 DEF Uploads, Uploading
  <2>3. States(c, fr.id) = {}
    BY <1>s, <2>1, <2>2
  <2>4. phase'[fr.of] = "collecting" /\ \A g \in Fetch \ {fr.of} : phase'[g] = phase[g]
    BY <1>t, <2>1, <2>2, <2>3
  <2>5. Stage(fr.of)' = Stage(fr.of)
    BY <2>2, <2>4 DEF Stage
  <2> QED
    BY <1>1, <2>4, <2>5, SeenUnmoved DEF Moved
<1>3. CASE OnChunk(c)
  <2>1. CASE UNCHANGED phase
    BY <1>1, <2>1, SeenUnmoved DEF Moved
  <2>2. CASE ~UNCHANGED phase
    <3>1. PICK fr \in Arrived(c) : \E f \in States(c, fr.id) : phase' = [phase EXCEPT ![f] = Overflow]
      BY <1>3, <2>2 DEF OnChunk
    <3>2. PICK f \in States(c, fr.id) : phase' = [phase EXCEPT ![f] = Overflow]
      BY <3>1
    <3>3. f \in Fetch /\ phase[f] = "collecting"
      BY <3>2 DEF States
    <3>4. phase'[f] = "failed" /\ Moved({f})
      BY <1>t, <3>2, <3>3 DEF Overflow, Moved
    <3> QED
      BY <1>1, <3>3, <3>4, SeenStopped
  <2> QED
    BY <2>1, <2>2
<1>4. CASE OnEnd(c)
  <2>1. PICK fr \in Arrived(c) :
          /\ Read(c, END, fr)
          /\ phase' = [f \in Fetch |-> IF f \in States(c, fr.id) THEN "executing" ELSE phase[f]]
    BY <1>4 DEF OnEnd
  <2>2. fr.of \in Fetch /\ States(c, fr.id) = {f \in {fr.of} : phase[f] = "collecting"}
    BY <1>s, <2>1
  <2>3. CASE phase[fr.of] = "collecting"
    <3>1. phase'[fr.of] = "executing" /\ Moved({fr.of})
      BY <2>1, <2>2, <2>3 DEF Moved
    <3> QED
      BY <1>1, <2>2, <2>3, <3>1, SeenProceeds
  <2>4. CASE phase[fr.of] # "collecting"
    <3>1. Moved({})
      BY <2>1, <2>2, <2>4 DEF Moved
    <3> QED
      BY <1>1, <3>1, SeenUnmoved
  <2> QED
    BY <2>3, <2>4
<1>5. CASE OnCancel(c)
  <2>1. PICK fr \in Arrived(c) :
          phase' = [f \in Fetch |-> IF f \in States(c, fr.id) THEN "dropped" ELSE phase[f]]
    BY <1>5 DEF OnCancel
  <2>2. \A f \in States(c, fr.id) : f \in Fetch /\ phase[f] = "collecting" /\ phase'[f] = "dropped"
    BY <2>1 DEF States
  <2>3. States(c, fr.id) \in SUBSET Fetch /\ Moved(States(c, fr.id))
    BY <2>1, <2>2 DEF Moved
  <2> QED
    BY <1>1, <2>2, <2>3, SeenStopped
<1>6. CASE ReadFails(c)
  <2> DEFINE P == {f \in Fetch : phase[f] = "collecting" /\ sock[f] = c}
  <2>1. phase' = [f \in Fetch |-> IF phase[f] = "collecting" /\ sock[f] = c THEN "dropped" ELSE phase[f]]
    BY <1>6 DEF ReadFails
  <2>2. P \in SUBSET Fetch /\ \A f \in P : phase[f] = "collecting" /\ phase'[f] = "dropped"
    BY <2>1
  <2>3. Moved(P)
    BY <2>1 DEF Moved
  <2> QED
    BY <1>1, <2>2, <2>3, SeenStopped
<1> QED
  BY <1>2, <1>3, <1>4, <1>5, <1>6 DEF Reads

\* An executor is what asks the target, and what stops when it does.
LEMMA ExecutesSeen ==
  ASSUME TypeOK, NEW f \in Fetch, Executes(f)
  PROVE  Abstract!Next
<1>t. /\ produced \in [Fetch -> Nat]
      /\ phase \in [Fetch -> {"none", "collecting", "executing", "responding",
                              "ended", "failed", "dropped"}]
  BY DEF TypeOK
<1>1. UNCHANGED viewVars
  BY ExecutesSends DEF pageVars
<1>2. CASE ExecRefuses(f) \/ ExecInterrupted(f) \/ ExecCancelled(f)
  <2>1. /\ UNCHANGED produced /\ phase[f] \in {"executing", "responding"}
        /\ \E to \in {"failed", "dropped"} : phase' = [phase EXCEPT ![f] = to]
    BY <1>2 DEF ExecRefuses, ExecInterrupted, ExecCancelled, Executing
  <2>2. phase'[f] \in {"failed", "dropped"} /\ Moved({f})
    BY <1>t, <2>1 DEF Moved
  <2> QED
    BY <1>1, <2>1, <2>2, SeenStopped
<1>3. CASE ExecResponds(f) \/ ExecEnds(f)
  <2>1. /\ UNCHANGED produced
        /\ \/ phase[f] = "executing" /\ phase' = [phase EXCEPT ![f] = "responding"]
           \/ phase[f] = "responding" /\ phase' = [phase EXCEPT ![f] = "ended"]
    BY <1>3 DEF ExecResponds, ExecEnds, Executing
  <2>2. Moved({f})
    BY <1>t, <2>1 DEF Moved
  <2>3. \/ phase[f] = "executing" /\ phase'[f] = "responding"
        \/ phase[f] = "responding" /\ phase'[f] = "ended"
    BY <1>t, <2>1
  <2> QED
    BY <1>1, <2>1, <2>2, <2>3, SeenProceeds
<1>4. CASE ExecStreams(f)
  <2>1. phase[f] = "responding" /\ phase' = phase /\ produced' = [produced EXCEPT ![f] = @ + 1]
    BY <1>t, <1>4 DEF ExecStreams, Executing
  <2>2. Stage(f) = "answering" /\ \A g \in Fetch : Stage(g)' = Stage(g)
    BY <2>1 DEF Stage
  <2>3. Abstract!Produces(f)
    BY <1>1, <2>1, <2>2 DEF viewVars, Abstract!Produces, Abstract!page
  <2> QED
    BY <2>3 DEF Abstract!Next
<1> QED
  BY <1>2, <1>3, <1>4 DEF Executes

\* Promises keep standing.
LEMMA StepStands ==
  ASSUME TypeOK, Isolated, PromisesStand, [Next]_vars
  PROVE  PromisesStand'
<1>t. /\ promise \in [Fetch -> {"pending", "resolved", "rejected"}] /\ pending \subseteq Fetch
      /\ stream \in [Fetch -> {"none", "nobody", "open", "closed", "errored", "cancelled"}]
      /\ key \in [Fetch -> Nat]
  BY DEF TypeOK
<1>1. ASSUME UNCHANGED <<key, pending, viewVars>> PROVE PromisesStand'
  BY <1>1 DEF PromisesStand, PromiseStands, viewVars
<1>2. ASSUME NEW f \in Fetch, Begin(f) PROVE PromisesStand'
  <2>1. /\ key[f] = 0 /\ UNCHANGED viewVars /\ pending' \subseteq pending \cup {f}
        /\ \A g \in Fetch : g # f => key'[g] = key[g]
    BY <1>t, <1>2 DEF Begin, Isolated, Born
  <2> QED
    BY <2>1 DEF PromisesStand, PromiseStands, viewVars
<1>3. ASSUME NEW f \in Fetch, CallsOn(f) PROVE PromisesStand'
  <2>1. UNCHANGED <<key, pending, promise>> /\ \A g \in Fetch : stream'[g] = "none" => stream[g] = "none"
    BY <1>t, <1>3 DEF CallsOn, Fetching, Upload, UploadEnds, UploadThrows, CancelStream, callVars, viewVars
  <2> QED
    BY <2>1 DEF PromisesStand, PromiseStands
<1>4. ASSUME NEW P \in SUBSET pending, Failed(P), pending' = pending \ P, UNCHANGED key
      PROVE  PromisesStand'
  <2>1. \A g \in Fetch \ P : promise'[g] = promise[g] /\ stream'[g] = stream[g]
    BY <1>4 DEF Failed
  <2>2. \A g \in P : key[g] # 0 /\ g \notin pending'
    BY <1>t, <1>4 DEF Isolated, Unborn
  <2> QED
    BY <1>4, <2>1, <2>2 DEF PromisesStand, PromiseStands
<1>5. CASE HandleResponse
  <2>1. PICK fr \in Message :
          /\ UNCHANGED <<key, pending>>
          /\ \A g \in Fetch \ Addressed(fr) : promise'[g] = promise[g] /\ stream'[g] = stream[g]
          /\ \A g \in Addressed(fr) : stream'[g] \in {"nobody", "open"}
    BY ZenonT(30), <1>t, <1>5 DEF HandleResponse, Receive, callVars, Addressed
  <2> QED
    BY <2>1 DEF PromisesStand, PromiseStands
<1>6. CASE HandleChunk \/ HandleEnd
  <2>1. /\ UNCHANGED <<key, promise>> /\ pending' \subseteq pending
        /\ \A g \in Fetch : stream'[g] = "none" => stream[g] = "none"
    BY <1>t, <1>6 DEF HandleChunk, HandleEnd, Receive, callVars
  <2> QED
    BY <2>1 DEF PromisesStand, PromiseStands
<1>7. CASE HandleError
  <2>1. PICK fr \in Message : Failed(Addressed(fr)) /\ pending' = pending \ Addressed(fr) /\ UNCHANGED key
    BY <1>7 DEF HandleError, Receive, callVars
  <2>2. Addressed(fr) \in SUBSET pending
    BY DEF Addressed
  <2> QED
    BY <1>4, <2>1, <2>2
<1>8. CASE SocketCloses
  <2>1. Failed(pending) /\ pending' = pending \ pending /\ UNCHANGED key
    BY <1>8 DEF SocketCloses, FailedOnClose, callVars
  <2> QED
    BY <1>4, <2>1
<1>9. CASE SocketOpens \/ SocketFails
  BY <1>1, <1>9 DEF SocketOpens, SocketFails, callVars
<1>10. ASSUME NEW c \in Conn, Reads(c) \/ LinkDrops(c) PROVE PromisesStand'
  BY <1>1, <1>10 DEF Reads, OnStart, OnChunk, OnEnd, OnCancel, ReadFails, Read, LinkDrops, pageVars, callVars
<1>11. ASSUME NEW f \in Fetch, Executes(f) PROVE PromisesStand'
  BY <1>1, <1>11, ExecutesSends DEF pageVars, callVars
<1>12. CASE UNCHANGED vars
  BY <1>1, <1>12 DEF vars, pageVars, callVars
<1> QED
  BY <1>2, <1>3, <1>5, <1>6, <1>7, <1>8, <1>9, <1>10, <1>11, <1>12
  DEF Next, Page, Server, CallsOn, Reads, Executes

LEMMA StepSeen ==
  ASSUME NoWrap, IInv, IInv', PromisesStand, [Next]_vars
  PROVE  [Abstract!Next]_(Abstract!vars)
<1> SUFFICES Abstract!Next \/ UNCHANGED Abstract!vars
  OBVIOUS
<1> USE DEF IInv
<1>1. ASSUME NEW f \in Fetch, CallsOn(f) \/ Begin(f) PROVE Abstract!Next \/ UNCHANGED Abstract!vars
  BY <1>1, CallsSeen
<1>2. CASE Events
  BY <1>2, SocketSeen, MessageSeen DEF Events
<1>3. ASSUME NEW c \in Conn, Reads(c) PROVE Abstract!Next \/ UNCHANGED Abstract!vars
  BY <1>3, ReadsSeen
<1>4. ASSUME NEW f \in Fetch, Executes(f) PROVE Abstract!Next \/ UNCHANGED Abstract!vars
  BY <1>4, ExecutesSeen
<1>5. CASE \E c \in Conn : LinkDrops(c)
  BY <1>5, SocketSeen
<1>6. CASE UNCHANGED vars
  <2>1. UNCHANGED <<viewVars, produced, phase>>
    BY <1>6 DEF vars, pageVars, serverVars
  <2> QED
    BY <2>1, SeenUnmoved DEF Moved
<1> QED
  BY <1>1, <1>2, <1>3, <1>4, <1>5, <1>6 DEF Next, Page, Server, CallsOn, Events, Reads, Executes

\* Over one shared connection that may drop, every call behaves as a fetch of its own: its
\* target is asked at most once, its promise settles once, and its body arrives in order
\* and whole when it ends (runtime.js muxFetch, mux.go executeMux).
THEOREM Implements ==
  ASSUME NoWrap
  PROVE  Spec => ImplementsFetching
<1>1. Init => IInv /\ PromisesStand /\ Abstract!Init
  <2>1. Init => IInv
    BY InitTyped, InitIsolated, InitUploads, InitResponses DEF IInv
  <2>2. Init => PromisesStand
    BY DEF Init, PromisesStand, PromiseStands
  <2>3. Init => Abstract!Init
    BY DEF Init, Abstract!Init, Stage
  <2> QED
    BY <2>1, <2>2, <2>3
<1>2. IInv /\ PromisesStand /\ [Next]_vars => (IInv /\ PromisesStand)'
  BY NoWrap, StepTyped, StepIsolated, StepUploads, StepResponses, StepStands DEF IInv
<1>3. IInv /\ IInv' /\ PromisesStand /\ [Next]_vars => [Abstract!Next]_(Abstract!vars)
  BY NoWrap, StepSeen
<1> QED
  BY <1>1, <1>2, <1>3, PTL DEF Spec, ImplementsFetching, Abstract!Spec

=============================================================================
