-------------------------- MODULE MuxBodies_proofs --------------------------
(***************************************************************************)
(* Proofs about bodies: what muxFetch uploads is what executeMux runs, and *)
(* what executeMux streams is what the page reads.                         *)
(***************************************************************************)
EXTENDS Mux_proofs

(***************************************************************************)
(* Uploads.  The frames of a call that is not executed yet are a flow from *)
(* its muxFetch to the read loop; the collected body is what was taken.    *)
(***************************************************************************)
UpKinds == [first |-> START, chunk |-> CHUNK, last |-> END]
UpFlow(f) == Flow(c2s[sock[f]], f, UpKinds, Len(body[f]), sent[f],
                  link[sock[f]] = "up", phase[f] # "none")

Uploading(f) ==
    key[f] # 0 =>
        /\ Has(c2s[sock[f]], f, START) => phase[f] = "none"
        /\ Has(c2s[sock[f]], f, END) => pc[f] = "returned" /\ sent[f] = BodyLen[f]
        /\ phase[f] \in {"none", "collecting"} =>
              /\ UpFlow(f)
              /\ phase[f] = "none" /\ link[sock[f]] = "up" => Has(c2s[sock[f]], f, START)

Collected(f) ==
    /\ body[f] = [n \in 1..Len(body[f]) |-> <<f, n>>]
    /\ Len(body[f]) <= sent[f] /\ sent[f] <= BodyLen[f] /\ Len(body[f]) <= MaxBody
    /\ phase[f] = "none" => body[f] = <<>>
    /\ phase[f] \in {"executing", "responding", "ended"} => Len(body[f]) = BodyLen[f]

Uploads == \A f \in Fetch : Uploading(f) /\ Collected(f)

----------------------------------------------------------------------------
(* Uploads are kept.                                                       *)

\* How the frames of a request make a flow.
LEMMA Framings ==
  /\ Framed(UpFrame) /\ Distinct(UpKinds)
  /\ UpKinds.first = START /\ UpKinds.chunk = CHUNK /\ UpKinds.last = END
  BY DEF Framed, UpFrame, Distinct, UpKinds, START, CHUNK, END

\* A step that leaves a call's upload alone, or takes it out of collecting.
LEMMA UploadBeside ==
  ASSUME TypeOK, NEW g \in Fetch, Uploading(g), Born(g),
         key'[g] = key[g], sock'[g] = sock[g], body'[g] = body[g], sent'[g] = sent[g],
         key[g] # 0 => /\ link'[sock[g]] = link[sock[g]]
                       /\ Beside(c2s[sock[g]], c2s'[sock[g]], g, UpKinds, UpFrame)
                       /\ pc'[g] = pc[g] \/ pc[g] # "returned",
         phase'[g] = phase[g] \/ (phase[g] # "none" /\ phase'[g] \notin {"none", "collecting"})
  PROVE  Uploading(g)'
<1> DEFINE q == c2s[sock[g]]
           t == c2s'[sock[g]]
<1> SUFFICES ASSUME key[g] # 0 PROVE Uploading(g)'
  BY DEF Uploading
<1>1. q \in Seq(UpFrame) /\ Beside(q, t, g, UpKinds, UpFrame)
  BY DEF TypeOK, Born
<1>2. Len(body[g]) \in Nat /\ sent[g] \in Nat
  BY DEF TypeOK
<1> HIDE DEF q, t
<1>3. \A k \in {START, CHUNK, END} : Has(t, g, k) <=> Has(q, g, k)
  BY <1>1, Framings, BesideKeeps
<1>4. Flow(q, g, UpKinds, Len(body[g]), sent[g], link[sock[g]] = "up", phase[g] # "none")
      => Flow(t, g, UpKinds, Len(body[g]), sent[g], link[sock[g]] = "up", phase[g] # "none")
  BY <1>1, <1>2, Framings, BesideKeeps
<1> QED
  BY <1>3, <1>4 DEF Uploading, UpFlow, q, t

\* A step that leaves a collected body alone.
LEMMA CollectedSame ==
  ASSUME NEW g \in Fetch, Collected(g), body'[g] = body[g], sent'[g] = sent[g],
         \/ phase'[g] = phase[g]
         \/ phase'[g] \in {"collecting", "failed", "dropped"}
         \/ phase'[g] # "none" /\ phase[g] \in {"executing", "responding"}
  PROVE  Collected(g)'
  BY DEF Collected

\* A frame of another call, or of no kind of the flow, added to a queue.
LEMMA BesideForms ==
  ASSUME NEW S, NEW q \in Seq(S), NEW g, NEW K
  PROVE  /\ Beside(q, q, g, K, S)
         /\ \A fr \in S : ~Relevant(fr, g, K) => Beside(q, Append(q, fr), g, K, S)
         /\ q # <<>> /\ ~Relevant(Head(q), g, K) => Beside(q, Tail(q), g, K, S)
  BY DEF Beside

\* The upload loop adds the next chunk.
LEMMA UploadUploads ==
  ASSUME NoWrap, TypeOK, Isolated, Uploads, NEW f \in Fetch, Upload(f)
  PROVE  Uploads'
<1>t. /\ c2s \in [Conn -> Seq(UpFrame)] /\ key \in [Fetch -> Nat] /\ sent \in [Fetch -> Nat]
      /\ body \in [Fetch -> Seq(Fetch \X Nat)] /\ BodyLen \in [Fetch -> Nat] /\ MaxBody \in Nat
  BY MuxAssumption DEF TypeOK
<1>e. /\ pc[f] = "upload" /\ sent[f] < BodyLen[f] /\ sent' = [sent EXCEPT ![f] = @ + 1]
      /\ SendUp(sock[f], <<Frame(CHUNK, Wire(key[f]), f, sent[f] + 1)>>)
      /\ UNCHANGED <<pc, sock, key, link, body, phase>>
  BY DEF Upload, serverVars
<1>k. key[f] # 0 /\ sock[f] \in Conn
  BY <1>e DEF Isolated, Unborn, Born
<1>n. sent[f] \in Nat /\ sent[f] + 1 \in Nat
  <2>1. sent[f] \in Nat
    BY <1>t
  <2> QED
    BY <2>1
<1> DEFINE fr == Frame(CHUNK, Wire(key[f]), f, sent[f] + 1)
<1>1. fr \in UpFrame /\ fr.of = f /\ fr.kind = CHUNK /\ fr.n = sent[f] + 1
  <2>1. Wire(key[f]) \in Nat
    BY <1>t, WireType
  <2>2. fr \in UpFrame
    BY <1>n, <2>1, FrameTypes
  <2> QED
    BY <2>2 DEF Frame
<1> HIDE DEF fr
<1>2. \A c \in Conn : c2s'[c] = IF c = sock[f] /\ link[sock[f]] = "up" THEN Append(c2s[c], fr) ELSE c2s[c]
  BY <1>e, <1>k, <1>1, SendOne DEF fr
<1>3. ASSUME NEW g \in Fetch, g # f PROVE Uploading(g)' /\ Collected(g)'
  <2>1. ~Relevant(fr, g, UpKinds)
    BY <1>1, <1>3 DEF Relevant
  <2>2. sock[g] \in Conn => Beside(c2s[sock[g]], c2s'[sock[g]], g, UpKinds, UpFrame)
    BY <1>t, <1>1, <1>2, <2>1, BesideForms
  <2>3. sent'[g] = sent[g] /\ Uploading(g) /\ Collected(g) /\ Born(g)
    BY <1>3, <1>t, <1>e DEF Uploads, Isolated
  <2>4. Uploading(g)'
    BY <1>e, <2>2, <2>3, UploadBeside DEF Born
  <2> QED
    BY <1>e, <2>3, <2>4, CollectedSame
<1>4. Collected(f)'
  <2>1. Collected(f) /\ sent'[f] = sent[f] + 1 /\ body'[f] = body[f] /\ phase'[f] = phase[f]
    BY <1>t, <1>e DEF Uploads
  <2>2. BodyLen[f] \in Nat /\ Len(body[f]) \in Nat
    BY <1>t
  <2> QED
    BY <1>e, <1>n, <2>1, <2>2 DEF Collected
<1>5. Uploading(f)'
  <2> DEFINE q == c2s[sock[f]]
             lo == Len(body[f])
             up == link[sock[f]] = "up"
             opened == phase[f] # "none"
  <2>1. q \in Seq(UpFrame) /\ lo \in Nat /\ lo <= sent[f]
    BY <1>t, <1>k DEF Uploads, Collected
  <2>2. /\ Has(q, f, START) => phase[f] = "none"
        /\ ~Has(q, f, END)
        /\ phase[f] \in {"none", "collecting"} =>
              /\ Flow(q, f, UpKinds, lo, sent[f], up, opened)
              /\ phase[f] = "none" /\ up => Has(q, f, START)
    BY <1>e, <1>k DEF Uploads, Uploading, UpFlow
  <2>3. c2s'[sock[f]] = IF up THEN Append(q, fr) ELSE q
    BY <1>k, <1>2
  <2>4. sent'[f] = sent[f] + 1
    BY <1>t, <1>e
  <2> HIDE DEF q, lo, up, opened
  <2>5. CASE up
    <3>1. /\ Has(Append(q, fr), f, START) <=> Has(q, f, START)
          /\ Has(Append(q, fr), f, END) <=> Has(q, f, END)
      <4>1. ~Is(fr, f, START) /\ ~Is(fr, f, END)
        BY <1>1 DEF Is, START, CHUNK, END
      <4> QED
        BY <1>1, <2>1, <4>1, AppendHas
    <3>2. ASSUME phase[f] \in {"none", "collecting"}
          PROVE  Flow(Append(q, fr), f, UpKinds, lo, sent[f] + 1, up, opened)
      <4>1. opened \/ Has(q, f, UpKinds.first)
        BY <2>2, <2>5, <3>2, Framings DEF opened
      <4>2. Is(fr, f, UpKinds.chunk) /\ fr.n = sent[f] + 1 /\ ~Has(q, f, UpKinds.last)
        BY <1>1, <2>2, Framings DEF Is
      <4>3. Flow(q, f, UpKinds, lo, sent[f], TRUE, opened)
        BY <2>2, <2>5, <3>2
      <4>4. up = TRUE /\ opened \in BOOLEAN
        BY <2>5 DEF up, opened
      <4>5. Flow(Append(q, fr), f, UpKinds, lo, sent[f] + 1, TRUE, opened)
        BY <1>1, <1>n, <2>1, <4>1, <4>2, <4>3, <4>4, Framings, FlowAppendChunk
      <4> QED
        BY <4>4, <4>5
    <3> QED
      BY <1>e, <2>2, <2>3, <2>4, <2>5, <3>1, <3>2 DEF Uploading, UpFlow, q, lo, up, opened
  <2>6. CASE ~up
    <3>1. ASSUME phase[f] \in {"none", "collecting"}
          PROVE  Flow(q, f, UpKinds, lo, sent[f] + 1, up, opened)
      <4>1. up = FALSE /\ opened \in BOOLEAN
        BY <2>6 DEF up, opened
      <4>2. ~Has(q, f, UpKinds.last) /\ Flow(q, f, UpKinds, lo, sent[f], FALSE, opened)
        BY <2>2, <3>1, <4>1, Framings
      <4>3. Flow(q, f, UpKinds, lo, sent[f] + 1, FALSE, opened)
        BY <1>n, <2>1, <4>1, <4>2, Framings, FlowLost
      <4> QED
        BY <4>1, <4>3
    <3> QED
      BY <1>e, <2>2, <2>3, <2>4, <2>6, <3>1 DEF Uploading, UpFlow, q, lo, up, opened
  <2> QED
    BY <2>5, <2>6
<1> QED
  BY <1>3, <1>4, <1>5 DEF Uploads

\* The reader is done: END follows the last chunk.
LEMMA UploadEndsUploads ==
  ASSUME NoWrap, TypeOK, Isolated, Uploads, NEW f \in Fetch, UploadEnds(f)
  PROVE  Uploads'
<1>t. /\ c2s \in [Conn -> Seq(UpFrame)] /\ key \in [Fetch -> Nat] /\ sent \in [Fetch -> Nat]
      /\ body \in [Fetch -> Seq(Fetch \X Nat)]
      /\ pc \in [Fetch -> {"idle", "await", "upload", "returned", "threw"}]
  BY DEF TypeOK
<1>e. /\ pc[f] = "upload" /\ sent[f] = BodyLen[f] /\ pc' = [pc EXCEPT ![f] = "returned"]
      /\ SendUp(sock[f], <<Frame(END, Wire(key[f]), f, 0)>>)
      /\ UNCHANGED <<sent, sock, key, link, body, phase>>
  BY DEF UploadEnds, serverVars
<1>k. key[f] # 0 /\ sock[f] \in Conn
  BY <1>e DEF Isolated, Unborn, Born
<1> DEFINE fr == Frame(END, Wire(key[f]), f, 0)
<1>1. fr \in UpFrame /\ fr.of = f /\ fr.kind = END
  <2>1. Wire(key[f]) \in Nat
    BY <1>t, WireType
  <2>2. fr \in UpFrame
    BY <2>1, FrameTypes
  <2> QED
    BY <2>2 DEF Frame
<1> HIDE DEF fr
<1>2. \A c \in Conn : c2s'[c] = IF c = sock[f] /\ link[sock[f]] = "up" THEN Append(c2s[c], fr) ELSE c2s[c]
  BY <1>e, <1>k, <1>1, SendOne DEF fr
<1>3. ASSUME NEW g \in Fetch PROVE Collected(g)'
  BY <1>e, CollectedSame DEF Uploads
<1>4. ASSUME NEW g \in Fetch, g # f PROVE Uploading(g)'
  <2>1. ~Relevant(fr, g, UpKinds)
    BY <1>1, <1>4 DEF Relevant
  <2>2. sock[g] \in Conn => Beside(c2s[sock[g]], c2s'[sock[g]], g, UpKinds, UpFrame)
    BY <1>t, <1>1, <1>2, <2>1, BesideForms
  <2>3. Uploading(g) /\ Born(g) /\ pc'[g] = pc[g]
    BY <1>4, <1>t, <1>e DEF Uploads, Isolated
  <2> QED
    BY <1>e, <2>2, <2>3, UploadBeside DEF Born
<1>5. Uploading(f)'
  <2> DEFINE q == c2s[sock[f]]
             lo == Len(body[f])
             up == link[sock[f]] = "up"
             opened == phase[f] # "none"
  <2>1. q \in Seq(UpFrame) /\ lo \in Nat /\ sent[f] \in Nat /\ pc'[f] = "returned"
    BY <1>t, <1>k, <1>e
  <2>2. /\ Has(q, f, START) => phase[f] = "none"
        /\ phase[f] \in {"none", "collecting"} =>
              /\ Flow(q, f, UpKinds, lo, sent[f], up, opened)
              /\ phase[f] = "none" /\ up => Has(q, f, START)
    BY <1>e, <1>k DEF Uploads, Uploading, UpFlow
  <2>3. c2s'[sock[f]] = IF up THEN Append(q, fr) ELSE q
    BY <1>k, <1>2
  <2> HIDE DEF q, lo, up, opened
  <2>4. CASE up
    <3>1. Has(Append(q, fr), f, START) <=> Has(q, f, START)
      <4>1. ~Is(fr, f, START)
        BY <1>1 DEF Is, START, END
      <4> QED
        BY <1>1, <2>1, <4>1, AppendHas
    <3>2. ASSUME phase[f] \in {"none", "collecting"}
          PROVE  Flow(Append(q, fr), f, UpKinds, lo, sent[f], up, opened)
      <4>1. opened \/ Has(q, f, UpKinds.first)
        BY <2>2, <2>4, <3>2, Framings DEF opened
      <4>2. Is(fr, f, UpKinds.last)
        BY <1>1, Framings DEF Is
      <4>3. up = TRUE /\ opened \in BOOLEAN
        BY <2>4 DEF up, opened
      <4>4. Flow(q, f, UpKinds, lo, sent[f], TRUE, opened)
        BY <2>2, <3>2, <4>3
      <4>5. Flow(Append(q, fr), f, UpKinds, lo, sent[f], TRUE, opened)
        BY <1>1, <2>1, <4>1, <4>2, <4>3, <4>4, Framings, FlowAppendLast
      <4> QED
        BY <4>3, <4>5
    <3> QED
      BY <1>e, <2>1, <2>2, <2>3, <2>4, <3>1, <3>2 DEF Uploading, UpFlow, q, lo, up, opened
  <2>5. CASE ~up
    BY <1>e, <2>1, <2>2, <2>3, <2>5 DEF Uploading, UpFlow, q, lo, up, opened
  <2> QED
    BY <2>4, <2>5
<1> QED
  BY <1>3, <1>4, <1>5 DEF Uploads

\* The other steps of a call add nothing to its upload.
LEMMA CallsUploads ==
  ASSUME NoWrap, TypeOK, Isolated, Uploads, NEW f \in Fetch,
         Fetching(f) \/ UploadThrows(f) \/ CancelStream(f)
  PROVE  Uploads'
<1>t. /\ c2s \in [Conn -> Seq(UpFrame)] /\ key \in [Fetch -> Nat]
      /\ pc \in [Fetch -> {"idle", "await", "upload", "returned", "threw"}]
  BY DEF TypeOK
<1>e. UNCHANGED <<sent, sock, key, link, body, phase>>
  BY DEF Fetching, UploadThrows, CancelStream, netVars, serverVars, callVars
<1>1. ASSUME NEW g \in Fetch,
             key[g] # 0 => /\ Beside(c2s[sock[g]], c2s'[sock[g]], g, UpKinds, UpFrame)
                           /\ pc'[g] = pc[g] \/ pc[g] # "returned"
      PROVE  Uploading(g)' /\ Collected(g)'
  <2>1. Uploading(g) /\ Collected(g) /\ Born(g)
    BY DEF Uploads, Isolated
  <2>2. Uploading(g)'
    BY <1>e, <1>1, <2>1, UploadBeside
  <2> QED
    BY <1>e, <2>1, <2>2, CollectedSame
<1>2. \A g \in Fetch : key[g] # 0 => sock[g] \in Conn
  BY DEF Isolated, Born
<1>3. CASE Fetching(f) \/ UploadThrows(f)
  <2>1. c2s' = c2s /\ \A g \in Fetch : pc'[g] = pc[g] \/ pc[g] # "returned"
    BY <1>3, <1>t DEF Fetching, UploadThrows, netVars
  <2>2. \A c \in Conn : \A g \in Fetch : Beside(c2s[c], c2s'[c], g, UpKinds, UpFrame)
    BY <1>t, <2>1, BesideForms
  <2> QED
    BY <1>1, <1>2, <2>1, <2>2 DEF Uploads
<1>4. CASE CancelStream(f)
  <2>1. key[f] # 0 /\ SendUp(sock[f], <<Frame(CANCEL, Wire(key[f]), f, 0)>>) /\ pc' = pc
    BY <1>4 DEF CancelStream, Isolated, Unborn, callVars
  <2> DEFINE fr == Frame(CANCEL, Wire(key[f]), f, 0)
  <2>2. fr \in UpFrame /\ fr.kind = CANCEL
    BY <1>t, <2>1, WireType, FrameTypes, MadeCarried
  <2> HIDE DEF fr
  <2>3. \A c \in Conn : c2s'[c] = IF c = sock[f] /\ link[sock[f]] = "up" THEN Append(c2s[c], fr) ELSE c2s[c]
    BY <1>2, <2>1, <2>2, SendOne DEF fr
  <2>4. \A g \in Fetch : ~Relevant(fr, g, UpKinds)
    BY <2>2, Framings DEF Relevant, START, CHUNK, END, CANCEL
  <2>5. \A c \in Conn : \A g \in Fetch : Beside(c2s[c], c2s'[c], g, UpKinds, UpFrame)
    BY <1>t, <2>2, <2>3, <2>4, BesideForms
  <2> QED
    BY <1>1, <1>2, <2>1, <2>5 DEF Uploads
<1> QED
  BY <1>3, <1>4

\* A call begins with START, and END when it has no body.
LEMMA BeginUploads ==
  ASSUME NoWrap, TypeOK, Isolated, Uploads, NEW f \in Fetch, Begin(f)
  PROVE  Uploads'
<1>t. /\ c2s \in [Conn -> Seq(UpFrame)] /\ key \in [Fetch -> Nat] /\ sock \in [Fetch -> 0..MaxConn]
      /\ pc \in [Fetch -> {"idle", "await", "upload", "returned", "threw"}]
      /\ conn \in Conn /\ BodyLen \in [Fetch -> Nat]
  BY MuxAssumption DEF TypeOK, Begin
<1>k. Key(nextID) = nextID /\ Wire(nextID) = nextID /\ nextID \in Nat /\ nextID # 0
  <2>1. nextID <= MaxId /\ nextID \in Nat
    BY DEF Begin, TypeOK
  <2>2. nextID # 0
    BY <2>1, MuxAssumption DEF Isolated
  <2> QED
    BY <2>1, <2>2, Identifiers
<1>e. /\ pc[f] = "await" /\ UNCHANGED <<sent, link, body, phase>>
      /\ key' = [key EXCEPT ![f] = nextID] /\ sock' = [sock EXCEPT ![f] = conn]
      /\ pc' = [pc EXCEPT ![f] = IF BodyLen[f] = 0 THEN "returned" ELSE "upload"]
  BY <1>k DEF Begin, serverVars
<1> DEFINE a == Frame(START, nextID, f, 0)
           b == Frame(END, nextID, f, 0)
<1>1. a \in UpFrame /\ b \in UpFrame
  BY <1>k, FrameTypes
<1>2. a.of = f /\ b.of = f /\ a.kind = START /\ b.kind = END
  BY DEF Frame
<1>3. SendUp(conn, IF BodyLen[f] = 0 THEN <<a, b>> ELSE <<a>>)
  BY <1>k DEF Begin
<1> HIDE DEF a, b
<1>4. \A c \in Conn : c2s'[c] = IF c = conn /\ link[conn] = "up"
                                THEN IF BodyLen[f] = 0 THEN Append(Append(c2s[c], a), b)
                                                       ELSE Append(c2s[c], a)
                                ELSE c2s[c]
  <2>1. CASE BodyLen[f] = 0
    BY <1>t, <1>1, <1>3, <2>1, SendBoth
  <2>2. CASE BodyLen[f] # 0
    BY <1>t, <1>1, <1>3, <2>2, SendOne
  <2> QED
    BY <2>1, <2>2
<1>f. key[f] = 0 /\ sent[f] = 0 /\ phase[f] = "none" /\ body[f] = <<>>
  BY <1>e DEF Isolated, Born, Unborn
<1>5. ASSUME NEW g \in Fetch PROVE Collected(g)'
  BY <1>e, CollectedSame DEF Uploads
<1>6. ASSUME NEW g \in Fetch, g # f, key[g] # 0 PROVE Uploading(g)'
  <2> DEFINE q == c2s[sock[g]]
             t == c2s'[sock[g]]
  <2>1. Uploading(g) /\ sock[g] \in Conn /\ key'[g] = key[g] /\ sock'[g] = sock[g] /\ pc'[g] = pc[g]
    BY <1>t, <1>e, <1>6 DEF Uploads, Isolated, Born
  <2>2. q \in Seq(UpFrame) /\ Append(q, a) \in Seq(UpFrame)
    BY <1>t, <1>1, <2>1
  <2>3. t = q \/ t = Append(q, a) \/ t = Append(Append(q, a), b)
    BY <1>4, <2>1
  <2>4. Len(body[g]) \in Nat /\ sent[g] \in Nat
    BY DEF TypeOK
  <2> HIDE DEF q, t
  <2>5. ~Relevant(a, g, UpKinds) /\ ~Relevant(b, g, UpKinds)
    BY <1>2, <1>6 DEF Relevant
  <2>6. \A k \in {START, CHUNK, END} : Has(t, g, k) <=> Has(q, g, k)
    BY <1>1, <2>2, <2>3, <2>5, Framings, BesideTwice
  <2>7. Flow(q, g, UpKinds, Len(body[g]), sent[g], link[sock[g]] = "up", phase[g] # "none")
        => Flow(t, g, UpKinds, Len(body[g]), sent[g], link[sock[g]] = "up", phase[g] # "none")
    BY ZenonT(30), <1>1, <2>2, <2>3, <2>4, <2>5, Framings, BesideTwice
  <2> QED
    BY <1>e, <2>1, <2>6, <2>7 DEF Uploading, UpFlow, q, t
<1>7. ASSUME NEW g \in Fetch, g # f, key[g] = 0 PROVE Uploading(g)'
  BY <1>e, <1>t, <1>7 DEF Uploading
<1>8. Uploading(f)'
  <2> DEFINE q == c2s[conn]
             t == c2s'[conn]
             up == link[conn] = "up"
  <2>1. q \in Seq(UpFrame) /\ up \in BOOLEAN
    BY <1>t
  <2>2. \A i \in DOMAIN q : ~Relevant(q[i], f, UpKinds)
    BY <1>t, <1>f DEF Isolated, AllCarried, Carried, Relevant
  <2>3. t = IF up THEN IF BodyLen[f] = 0 THEN Append(Append(q, a), b) ELSE Append(q, a) ELSE q
    BY <1>t, <1>4
  <2>4. sock'[f] = conn /\ key'[f] = nextID /\ pc'[f] = IF BodyLen[f] = 0 THEN "returned" ELSE "upload"
    BY <1>t, <1>e
  <2>5. Len(body[f]) = 0
    BY <1>f
  <2> HIDE DEF q, t
  <2>6. Is(a, f, START) /\ ~Is(a, f, END) /\ Is(b, f, END) /\ ~Is(b, f, START)
    BY <1>2 DEF Is, START, END
  <2>7. CASE ~up
    <3>1. /\ Flow(q, f, UpKinds, 0, 0, FALSE, FALSE)
          /\ ~Has(q, f, START) /\ ~Has(q, f, END)
      BY <2>2, Framings, FlowNone
    <3> QED
      BY <1>e, <1>f, <2>3, <2>4, <2>5, <2>7, <3>1 DEF Uploading, UpFlow, t
  <2>8. CASE up
    <3>1. Append(q, a) \in Seq(UpFrame) /\ Flow(Append(q, a), f, UpKinds, 0, 0, TRUE, FALSE)
      <4>1. Is(a, f, UpKinds.first) /\ Distinct(UpKinds)
        BY <2>6, Framings
      <4>2. Append(q, a) \in Seq(UpFrame)
        BY <1>1, <2>1
      <4>3. \A live \in BOOLEAN : Flow(Append(q, a), f, UpKinds, 0, 0, live, FALSE)
        BY <1>1, <2>1, <2>2, <4>1, FlowAppendFirst
      <4> QED
        BY <4>2, <4>3
    <3>2. Has(Append(q, a), f, START) /\ ~Has(Append(q, a), f, END)
      <4>1. ~Has(q, f, END)
        BY <2>2, Framings, FlowNone
      <4> QED
        BY <1>1, <2>1, <2>6, <4>1, AppendHas
    <3>3. CASE BodyLen[f] # 0
      BY <1>e, <1>f, <2>3, <2>4, <2>5, <2>8, <3>1, <3>2, <3>3 DEF Uploading, UpFlow, t
    <3>4. CASE BodyLen[f] = 0
      <4>1. Flow(Append(Append(q, a), b), f, UpKinds, 0, 0, TRUE, FALSE)
        BY <1>1, <2>6, <3>1, <3>2, Framings, FlowAppendLast
      <4>2. Has(Append(Append(q, a), b), f, START)
        BY <1>1, <3>1, <3>2, AppendHas
      <4> QED
        BY <1>e, <1>f, <2>3, <2>4, <2>5, <2>8, <3>4, <4>1, <4>2 DEF Uploading, UpFlow, t
    <3> QED
      BY <3>3, <3>4
  <2> QED
    BY <2>7, <2>8
<1> QED
  BY <1>5, <1>6, <1>7, <1>8 DEF Uploads

\* The page's events, the executors and a dropped link put nothing on the way up.
LEMMA EventsUploads ==
  ASSUME TypeOK, Isolated, Uploads, Events
  PROVE  Uploads'
<1>1. UNCHANGED <<sent, sock, key, body, phase, c2s>>
  BY DEF Events, SocketOpens, SocketFails, SocketCloses, HandleResponse, HandleChunk,
         HandleEnd, HandleError, Receive, callVars, netVars, serverVars
<1>2. \A g \in Fetch : key[g] # 0 => link'[sock[g]] = link[sock[g]] /\ pc'[g] = pc[g]
  <2> TAKE g \in Fetch
  <2> SUFFICES ASSUME key[g] # 0 PROVE link'[sock[g]] = link[sock[g]] /\ pc'[g] = pc[g]
    OBVIOUS
  <2>1. Born(g) /\ link \in [Conn -> {"idle", "up", "down"}]
    BY DEF Isolated, TypeOK
  <2>2. CASE SocketOpens
    BY <2>1, <2>2 DEF SocketOpens, Born, callVars
  <2>3. CASE SocketFails
    BY <2>1, <2>3 DEF SocketFails, Born, netVars
  <2> QED
    BY <2>2, <2>3 DEF Events, SocketCloses, HandleResponse, HandleChunk, HandleEnd,
           HandleError, Receive, callVars
<1>3. ASSUME NEW g \in Fetch PROVE Uploading(g)' /\ Collected(g)'
  <2>1. Uploading(g) /\ Collected(g) /\ Born(g)
    BY DEF Uploads, Isolated
  <2>2. key[g] # 0 => Beside(c2s[sock[g]], c2s'[sock[g]], g, UpKinds, UpFrame)
    BY <1>1 DEF Beside
  <2>3. Uploading(g)'
    BY <1>1, <1>2, <2>1, <2>2, UploadBeside
  <2> QED
    BY <1>1, <2>1, <2>3, CollectedSame
<1> QED
  BY <1>3 DEF Uploads

\* The executors leave uploads alone.
LEMMA ExecutesUploads ==
  ASSUME TypeOK, Isolated, Uploads, NEW f \in Fetch, Executes(f)
  PROVE  Uploads'
<1>1. UNCHANGED <<sent, sock, key, pc, body, link, c2s>>
  BY ExecutesSends DEF pageVars, callVars
<1>2. \A g \in Fetch : \/ phase'[g] = phase[g]
                       \/ /\ phase[g] \in {"executing", "responding"}
                          /\ phase'[g] \in {"responding", "ended", "failed", "dropped"}
  BY DEF TypeOK, Executes, ExecRefuses, ExecResponds, ExecStreams, ExecEnds, ExecInterrupted,
         ExecCancelled, Executing
<1>3. ASSUME NEW g \in Fetch PROVE Uploading(g)' /\ Collected(g)'
  <2>1. Uploading(g) /\ Collected(g) /\ Born(g)
    BY DEF Uploads, Isolated
  <2>2. key[g] # 0 => Beside(c2s[sock[g]], c2s'[sock[g]], g, UpKinds, UpFrame)
    BY <1>1 DEF Beside
  <2>3. Uploading(g)'
    BY <1>1, <1>2, <2>1, <2>2, UploadBeside
  <2> QED
    BY <1>1, <1>2, <2>1, <2>3, CollectedSame
<1> QED
  BY <1>3 DEF Uploads

\* A dropped link lets nothing more in.
LEMMA DropsUploads ==
  ASSUME TypeOK, Isolated, Uploads, NEW c \in Conn, LinkDrops(c)
  PROVE  Uploads'
<1>1. /\ UNCHANGED <<sent, sock, key, pc, body, phase, c2s>>
      /\ link' = [link EXCEPT ![c] = "down"] /\ link \in [Conn -> {"idle", "up", "down"}]
  BY DEF LinkDrops, pageVars, callVars, serverVars, TypeOK
<1>2. ASSUME NEW g \in Fetch PROVE Uploading(g)' /\ Collected(g)'
  <2>1. Uploading(g) /\ Collected(g) /\ Born(g)
    BY DEF Uploads, Isolated
  <2>2. CASE key[g] = 0
    BY <1>1, <2>1, <2>2, CollectedSame DEF Uploading
  <2>3. CASE key[g] # 0
    <3>1. sock[g] \in Conn
      BY <2>1, <2>3 DEF Born
    <3>2. (link'[sock[g]] = "up") = (link[sock[g]] = "up") \/ (link'[sock[g]] = "up") = FALSE
      BY <1>1, <3>1
    <3>3. link'[sock[g]] = "up" => link[sock[g]] = "up"
      BY <1>1, <3>1
    <3>4. phase[g] \in {"none", "collecting"} => UpFlow(g)'
      BY <1>1, <2>1, <2>3, <3>2, FlowDrops DEF Uploading, UpFlow
    <3> QED
      BY <1>1, <2>1, <2>3, <3>3, <3>4, CollectedSame DEF Uploading
  <2> QED
    BY <2>2, <2>3
<1> QED
  BY <1>2 DEF Uploads

\* The read loop takes a frame: its call is on this connection, the others see nothing.
LEMMA ReadTakes ==
  ASSUME NoWrap, TypeOK, Isolated, Uploads, NEW c \in Conn, NEW fr \in Arrived(c), NEW k,
         Read(c, k, fr)
  PROVE  /\ fr.of \in Fetch /\ sock[fr.of] = c /\ key[fr.of] # 0 /\ Is(c2s[c][1], fr.of, k)
         /\ Has(c2s[c], fr.of, k) /\ UNCHANGED <<key, sock, sent, pc, link>>
         /\ c2s[c] \in Seq(UpFrame) /\ c2s[c] # <<>> /\ Head(c2s[c]) = fr
         /\ c2s'[c] = Tail(c2s[c])
         /\ \A g \in Fetch : g # fr.of /\ body'[g] = body[g] /\ phase'[g] = phase[g]
                             => Uploading(g)' /\ Collected(g)'
<1>t. c2s \in [Conn -> Seq(UpFrame)]
  BY DEF TypeOK
<1>1. /\ fr.of \in Fetch /\ c2s[c] \in Seq(UpFrame) /\ c2s[c] # <<>> /\ fr = Head(c2s[c])
      /\ fr = c2s[c][1] /\ 1 \in DOMAIN c2s[c]
  BY ArrivedTyped
<1>2. /\ fr.kind = k /\ c2s' = [c2s EXCEPT ![c] = Tail(@)] /\ UNCHANGED <<key, sock, sent, pc, link>>
  BY DEF Read, pageVars, callVars
<1>3. c2s'[c] = Tail(c2s[c]) /\ \A d \in Conn : d # c => c2s'[d] = c2s[d]
  BY <1>t, <1>2
<1>4. sock[fr.of] = c /\ key[fr.of] # 0
  BY StatesOf
<1>5. Is(c2s[c][1], fr.of, k) /\ Has(c2s[c], fr.of, k)
  BY <1>1, <1>2 DEF Is, Has
<1>6. ASSUME NEW g \in Fetch, g # fr.of, body'[g] = body[g], phase'[g] = phase[g]
      PROVE  Uploading(g)' /\ Collected(g)'
  <2>1. ~Relevant(Head(c2s[c]), g, UpKinds)
    BY <1>1, <1>6 DEF Relevant
  <2>2. \A d \in Conn : Beside(c2s[d], c2s'[d], g, UpKinds, UpFrame)
    BY <1>t, <1>1, <1>3, <2>1, BesideForms
  <2>3. Uploading(g) /\ Collected(g) /\ Born(g)
    BY DEF Uploads, Isolated
  <2>4. Uploading(g)'
    BY <1>2, <1>6, <2>2, <2>3, UploadBeside DEF Born
  <2> QED
    BY <1>2, <1>6, <2>3, <2>4, CollectedSame
<1> QED
  BY <1>1, <1>2, <1>3, <1>4, <1>5, <1>6

\* START opens the stream of a call that was not seen before.
LEMMA OnStartUploads ==
  ASSUME NoWrap, TypeOK, Isolated, Uploads, NEW c \in Conn, OnStart(c)
  PROVE  Uploads'
<1>t. /\ phase \in [Fetch -> {"none", "collecting", "executing", "responding",
                              "ended", "failed", "dropped"}]
      /\ body \in [Fetch -> Seq(Fetch \X Nat)] /\ sent \in [Fetch -> Nat]
  BY DEF TypeOK
<1>1. PICK fr \in Arrived(c) :
        /\ Read(c, START, fr) /\ UNCHANGED body
        /\ \/ phase' = [phase EXCEPT ![fr.of] = "collecting"]
           \/ States(c, fr.id) # {} /\ phase' = [phase EXCEPT ![fr.of] = "failed"]
  BY DEF OnStart
<1> DEFINE f == fr.of
           q == c2s[c]
<1>2. /\ f \in Fetch /\ sock[f] = c /\ key[f] # 0 /\ Is(q[1], f, START) /\ Has(q, f, START)
      /\ UNCHANGED <<key, sock, sent, pc, link>> /\ q \in Seq(UpFrame) /\ q # <<>>
      /\ c2s'[c] = Tail(q) /\ Is(Head(q), f, START)
      /\ \A g \in Fetch : g # f /\ body'[g] = body[g] /\ phase'[g] = phase[g]
                          => Uploading(g)' /\ Collected(g)'
  BY <1>1, ReadTakes
<1>3. Uploading(f) /\ Collected(f)
  BY <1>2 DEF Uploads
<1>4. phase[f] = "none"
  BY <1>2, <1>3 DEF Uploading
<1>5. States(c, fr.id) = {}
  BY <1>4, StatesOf
<1>6. phase' = [phase EXCEPT ![f] = "collecting"] /\ body' = body
  BY <1>1, <1>5
<1> HIDE DEF f, q
<1>7. Len(body[f]) \in Nat /\ sent[f] \in Nat /\ (link[c] = "up") \in BOOLEAN
  BY <1>t, <1>2
<1>8. Flow(q, f, UpKinds, Len(body[f]), sent[f], link[c] = "up", FALSE)
  <2>1. (phase[f] # "none") = FALSE
    BY <1>4
  <2>2. Flow(q, f, UpKinds, Len(body[f]), sent[f], link[c] = "up", phase[f] # "none")
    BY <1>2, <1>3, <1>4 DEF Uploading, UpFlow, q
  <2> QED
    BY <2>1, <2>2
<1>9. Flow(Tail(q), f, UpKinds, Len(body[f]), sent[f], link[c] = "up", TRUE)
  BY <1>2, <1>7, <1>8, Framings, FlowTailFirst
<1>10. ~Has(Tail(q), f, START)
  BY <1>9, Framings DEF Flow, FirstFirst, Has
<1>11. Has(Tail(q), f, END) => Has(q, f, END)
  BY <1>2, TailHas
<1>12. Uploading(f)'
  <2>1. phase'[f] = "collecting" /\ (phase'[f] # "none") = TRUE
    BY <1>t, <1>2, <1>6
  <2>2. Flow(Tail(q), f, UpKinds, Len(body'[f]), sent'[f], link'[sock'[f]] = "up", phase'[f] # "none")
    BY <1>2, <1>6, <1>9, <2>1
  <2> QED
    BY <1>2, <1>3, <1>10, <1>11, <2>1, <2>2 DEF Uploading, UpFlow, q
<1>13. Collected(f)'
  BY <1>t, <1>2, <1>3, <1>6, CollectedSame
<1>14. \A g \in Fetch : g # f => body'[g] = body[g] /\ phase'[g] = phase[g]
  BY <1>t, <1>6
<1> QED
  BY <1>2, <1>12, <1>13, <1>14 DEF Uploads

\* The next chunk of a body.
LEMMA AppendsNext ==
  ASSUME NEW f \in Fetch, NEW b \in Seq(Fetch \X Nat), b = [n \in 1..Len(b) |-> <<f, n>>],
         NEW t, t = Append(b, <<f, Len(b) + 1>>)
  PROVE  Len(t) = Len(b) + 1 /\ t = [n \in 1..Len(t) |-> <<f, n>>]
<1>1. Len(b) \in Nat /\ <<f, Len(b) + 1>> \in Fetch \X Nat
  OBVIOUS
<1>2. /\ Len(t) = Len(b) + 1 /\ t = [n \in 1..(Len(b) + 1) |-> t[n]]
      /\ \A n \in 1..(Len(b) + 1) : t[n] = IF n = Len(b) + 1 THEN <<f, Len(b) + 1>> ELSE b[n]
  BY <1>1
<1>3. \A n \in 1..(Len(b) + 1) : t[n] = <<f, n>>
  <2> TAKE n \in 1..(Len(b) + 1)
  <2>1. CASE n = Len(b) + 1
    BY <1>2, <2>1
  <2>2. CASE n # Len(b) + 1
    <3>1. n \in 1..Len(b) /\ t[n] = b[n]
      BY <1>1, <1>2, <2>2
    <3> QED
      BY <3>1
  <2> QED
    BY <2>1, <2>2
<1>4. t = [n \in 1..(Len(b) + 1) |-> <<f, n>>]
  BY <1>2, <1>3
<1> QED
  BY <1>2, <1>4

\* CHUNK extends the body it belongs to, or ends a stream that grew too large.
LEMMA OnChunkUploads ==
  ASSUME NoWrap, TypeOK, Isolated, Uploads, NEW c \in Conn, OnChunk(c)
  PROVE  Uploads'
<1>t. /\ phase \in [Fetch -> {"none", "collecting", "executing", "responding",
                              "ended", "failed", "dropped"}]
      /\ body \in [Fetch -> Seq(Fetch \X Nat)] /\ sent \in [Fetch -> Nat]
  BY DEF TypeOK
<1>1. PICK fr \in Arrived(c) :
        /\ Read(c, CHUNK, fr)
        /\ \/ States(c, fr.id) = {} /\ UNCHANGED <<phase, body>>
           \/ \E g \in States(c, fr.id) :
                /\ Fits(body[g])
                /\ body' = [body EXCEPT ![g] = Append(@, <<fr.of, fr.n>>)]
                /\ UNCHANGED phase
           \/ \E g \in States(c, fr.id) :
                phase' = [phase EXCEPT ![g] = "failed"] /\ UNCHANGED body
  BY DEF OnChunk, Overflow
<1> DEFINE f == fr.of
           q == c2s[c]
<1>2. /\ f \in Fetch /\ sock[f] = c /\ key[f] # 0 /\ Is(q[1], f, CHUNK)
      /\ UNCHANGED <<key, sock, sent, pc, link>> /\ q \in Seq(UpFrame) /\ q # <<>>
      /\ c2s'[c] = Tail(q) /\ Head(q) = fr /\ Is(Head(q), f, CHUNK)
      /\ \A g \in Fetch : g # f /\ body'[g] = body[g] /\ phase'[g] = phase[g]
                          => Uploading(g)' /\ Collected(g)'
  BY <1>1, ReadTakes
<1>3. Uploading(f) /\ Collected(f)
  BY <1>2 DEF Uploads
<1>4. States(c, fr.id) = {g \in {f} : phase[g] = "collecting"}
  BY StatesOf
<1>5. \/ phase[f] # "collecting" /\ UNCHANGED <<phase, body>>
      \/ /\ phase[f] = "collecting" /\ Fits(body[f])
         /\ body' = [body EXCEPT ![f] = Append(@, <<f, fr.n>>)] /\ UNCHANGED phase
      \/ phase[f] = "collecting" /\ phase' = [phase EXCEPT ![f] = "failed"] /\ UNCHANGED body
  BY <1>1, <1>4
<1> HIDE DEF f, q
<1>6. Len(body[f]) \in Nat /\ sent[f] \in Nat /\ (link[c] = "up") \in BOOLEAN
  BY <1>t, <1>2
<1>7. /\ Has(Tail(q), f, START) => Has(q, f, START)
      /\ Has(Tail(q), f, END) => Has(q, f, END)
  BY <1>2, TailHas
<1>8. ASSUME phase[f] \in {"none", "collecting"}
      PROVE  /\ phase[f] # "none" /\ fr.n = Len(body[f]) + 1 /\ Len(body[f]) + 1 <= sent[f]
             /\ Flow(Tail(q), f, UpKinds, Len(body[f]) + 1, sent[f], link[c] = "up", phase[f] # "none")
  <2>1. Flow(q, f, UpKinds, Len(body[f]), sent[f], link[c] = "up", phase[f] # "none")
    BY <1>2, <1>3, <1>8 DEF Uploading, UpFlow, q
  <2>2. Is(Head(q), f, UpKinds.chunk) /\ (phase[f] # "none") \in BOOLEAN
    BY <1>2, Framings
  <2> QED
    BY <1>2, <1>6, <2>1, <2>2, Framings, FlowTailChunk
<1>9. ASSUME phase'[f] \notin {"none", "collecting"}, phase[f] # "none", body' = body
      PROVE  Uploading(f)'
  BY <1>2, <1>3, <1>7, <1>9 DEF Uploading, q
<1>10. Uploading(f)' /\ Collected(f)'
  <2>1. CASE phase[f] # "collecting" /\ UNCHANGED <<phase, body>>
    <3>1. phase[f] # "none"
      BY <1>8
    <3>2. phase'[f] \notin {"none", "collecting"}
      BY <2>1, <3>1
    <3> QED
      BY <1>2, <1>3, <1>9, <2>1, <3>1, <3>2, CollectedSame
  <2>2. CASE /\ phase[f] = "collecting" /\ Fits(body[f])
             /\ body' = [body EXCEPT ![f] = Append(@, <<f, fr.n>>)] /\ UNCHANGED phase
    <3>1. /\ fr.n = Len(body[f]) + 1 /\ Len(body[f]) + 1 <= sent[f]
          /\ Flow(Tail(q), f, UpKinds, Len(body[f]) + 1, sent[f], link[c] = "up", phase[f] # "none")
      BY <1>8, <2>2
    <3>2. body'[f] = Append(body[f], <<f, Len(body[f]) + 1>>)
      BY <1>t, <1>2, <2>2, <3>1
    <3>3. Len(body'[f]) = Len(body[f]) + 1 /\ body'[f] = [n \in 1..Len(body'[f]) |-> <<f, n>>]
      <4>1. body[f] \in Seq(Fetch \X Nat) /\ body[f] = [n \in 1..Len(body[f]) |-> <<f, n>>]
        BY <1>t, <1>2, <1>3 DEF Collected
      <4> QED
        BY ZenonT(30), <1>2, <3>2, <4>1, AppendsNext
    <3>4. Uploading(f)'
      BY <1>2, <1>3, <1>7, <2>2, <3>1, <3>3 DEF Uploading, UpFlow, q
    <3>5. Collected(f)'
      BY <1>2, <1>3, <2>2, <3>1, <3>3 DEF Collected, Fits
    <3> QED
      BY <3>4, <3>5
  <2>3. CASE phase[f] = "collecting" /\ phase' = [phase EXCEPT ![f] = "failed"] /\ UNCHANGED body
    <3>1. phase'[f] = "failed"
      BY <1>t, <1>2, <2>3
    <3> QED
      BY <1>2, <1>3, <1>9, <2>3, <3>1, CollectedSame
  <2> QED
    BY <1>5, <2>1, <2>2, <2>3
<1>11. \A g \in Fetch : g # f => body'[g] = body[g] /\ phase'[g] = phase[g]
  BY <1>t, <1>5
<1> QED
  BY <1>2, <1>10, <1>11 DEF Uploads

\* END hands over a body from which nothing is missing.
LEMMA OnEndUploads ==
  ASSUME NoWrap, TypeOK, Isolated, Uploads, NEW c \in Conn, OnEnd(c)
  PROVE  Uploads'
<1>t. /\ phase \in [Fetch -> {"none", "collecting", "executing", "responding",
                              "ended", "failed", "dropped"}]
      /\ body \in [Fetch -> Seq(Fetch \X Nat)] /\ sent \in [Fetch -> Nat]
  BY DEF TypeOK
<1>1. PICK fr \in Arrived(c) :
        /\ Read(c, END, fr) /\ body' = body
        /\ phase' = [g \in Fetch |-> IF g \in States(c, fr.id) THEN "executing" ELSE phase[g]]
  BY DEF OnEnd
<1> DEFINE f == fr.of
           q == c2s[c]
<1>2. /\ f \in Fetch /\ sock[f] = c /\ key[f] # 0 /\ Is(q[1], f, END) /\ Has(q, f, END)
      /\ UNCHANGED <<key, sock, sent, pc, link>> /\ q \in Seq(UpFrame) /\ q # <<>>
      /\ c2s'[c] = Tail(q) /\ Is(Head(q), f, END)
      /\ \A g \in Fetch : g # f /\ body'[g] = body[g] /\ phase'[g] = phase[g]
                          => Uploading(g)' /\ Collected(g)'
  BY <1>1, ReadTakes
<1>3. Uploading(f) /\ Collected(f)
  BY <1>2 DEF Uploads
<1>4. States(c, fr.id) = {g \in {f} : phase[g] = "collecting"}
  BY StatesOf
<1>5. /\ phase'[f] = IF phase[f] = "collecting" THEN "executing" ELSE phase[f]
      /\ \A g \in Fetch : g # f => phase'[g] = phase[g]
  BY <1>1, <1>2, <1>4
<1> HIDE DEF f, q
<1>6. /\ Len(body[f]) \in Nat /\ sent[f] \in Nat /\ (link[c] = "up") \in BOOLEAN
      /\ Len(body[f]) <= sent[f]
  BY <1>t, <1>2, <1>3 DEF Collected
<1>s. sent[f] = BodyLen[f]
  BY <1>2, <1>3 DEF Uploading, q
<1>7. /\ Has(Tail(q), f, START) => Has(q, f, START)
      /\ Has(Tail(q), f, END) => Has(q, f, END)
  BY <1>2, TailHas
<1>8. ASSUME phase[f] \in {"none", "collecting"}
      PROVE  phase[f] # "none" /\ Len(body[f]) = sent[f]
  <2>1. Flow(q, f, UpKinds, Len(body[f]), sent[f], link[c] = "up", phase[f] # "none")
    BY <1>2, <1>3, <1>8 DEF Uploading, UpFlow, q
  <2>2. Is(Head(q), f, UpKinds.last) /\ (phase[f] # "none") \in BOOLEAN
    BY <1>2, Framings
  <2> QED
    BY <1>2, <1>6, <2>1, <2>2, Framings, FlowHeadLast
<1>9. phase[f] # "none" /\ phase'[f] \notin {"none", "collecting"}
  BY <1>5, <1>8
<1>10. Uploading(f)'
  BY <1>2, <1>3, <1>7, <1>9 DEF Uploading, q
<1>11. Collected(f)'
  BY <1>1, <1>2, <1>3, <1>5, <1>6, <1>8, <1>9, <1>s DEF Collected
<1> QED
  BY <1>1, <1>2, <1>5, <1>10, <1>11 DEF Uploads

\* CANCEL and a lost connection only end what was being collected.
LEMMA StopsUploads ==
  ASSUME NoWrap, TypeOK, Isolated, Uploads, NEW c \in Conn, OnCancel(c) \/ ReadFails(c)
  PROVE  Uploads'
<1>t. /\ phase \in [Fetch -> {"none", "collecting", "executing", "responding",
                              "ended", "failed", "dropped"}]
      /\ c2s \in [Conn -> Seq(UpFrame)]
  BY DEF TypeOK
<1>1. CASE OnCancel(c)
  <2>1. PICK fr \in Arrived(c) :
          /\ Read(c, CANCEL, fr) /\ body' = body
          /\ phase' = [g \in Fetch |-> IF g \in States(c, fr.id) THEN "dropped" ELSE phase[g]]
    BY <1>1 DEF OnCancel
  <2>2. UNCHANGED <<key, sock, sent, pc, link, body>> /\ fr.kind = CANCEL
    BY <2>1 DEF Read, pageVars, callVars
  <2>3. \A d \in Conn : \A g \in Fetch : Beside(c2s[d], c2s'[d], g, UpKinds, UpFrame)
    <3> TAKE d \in Conn
    <3> TAKE g \in Fetch
    <3>1. c2s' = [c2s EXCEPT ![c] = Tail(@)] /\ c2s[c] # <<>> /\ fr = Head(c2s[c])
      BY <2>1, ArrivedTyped DEF Read
    <3>2. ~Relevant(fr, g, UpKinds)
      BY <2>2, Framings DEF Relevant, START, CHUNK, END, CANCEL
    <3> QED
      BY <1>t, <3>1, <3>2, BesideForms
  <2>4. \A g \in Fetch : phase'[g] = phase[g] \/ (phase[g] = "collecting" /\ phase'[g] = "dropped")
    BY <1>t, <2>1 DEF States
  <2>5. ASSUME NEW g \in Fetch PROVE Uploading(g)' /\ Collected(g)'
    <3>1. Uploading(g) /\ Collected(g) /\ Born(g)
      BY DEF Uploads, Isolated
    <3>2. key[g] # 0 => Beside(c2s[sock[g]], c2s'[sock[g]], g, UpKinds, UpFrame)
      BY <2>3, <3>1 DEF Born
    <3>3. phase'[g] = phase[g] \/ (phase[g] # "none" /\ phase'[g] \notin {"none", "collecting"})
      BY <2>4
    <3>4. Uploading(g)'
      BY <2>2, <3>1, <3>2, <3>3, UploadBeside
    <3>5. Collected(g)'
      BY <2>2, <2>4, <3>1, CollectedSame
    <3> QED
      BY <3>4, <3>5
  <2> QED
    BY <2>5 DEF Uploads
<1>2. CASE ReadFails(c)
  <2>1. /\ UNCHANGED <<key, sock, sent, pc, link, body>> /\ link[c] = "down"
        /\ c2s'[c] = <<>> /\ \A d \in Conn : d # c => c2s'[d] = c2s[d]
        /\ \A g \in Fetch : phase'[g] = IF phase[g] = "collecting" /\ sock[g] = c
                                        THEN "dropped" ELSE phase[g]
    BY <1>2, <1>t DEF ReadFails, pageVars, callVars
  <2>2. ASSUME NEW g \in Fetch PROVE Uploading(g)' /\ Collected(g)'
    <3>1. Uploading(g) /\ Collected(g) /\ Born(g)
      BY DEF Uploads, Isolated
    <3>2. Collected(g)'
      BY <2>1, <3>1, CollectedSame
    <3>3. CASE key[g] = 0
      BY <2>1, <3>2, <3>3 DEF Uploading
    <3>4. CASE key[g] # 0 /\ sock[g] # c
      <4>1. sock[g] \in Conn /\ Beside(c2s[sock[g]], c2s'[sock[g]], g, UpKinds, UpFrame)
        BY <1>t, <2>1, <3>1, <3>4, BesideForms DEF Born
      <4>2. phase'[g] = phase[g]
        BY <2>1, <3>4
      <4> QED
        BY <2>1, <3>1, <3>2, <3>4, <4>1, <4>2, UploadBeside
    <3>5. CASE key[g] # 0 /\ sock[g] = c
      <4>1. (link'[c] = "up") = FALSE
        BY <2>1
      <4>2. \A lo, hi, opened : Flow(<<>>, g, UpKinds, lo, hi, FALSE, opened)
        BY FlowDrops
      <4>3. UpFlow(g)'
        BY <2>1, <3>5, <4>1, <4>2 DEF UpFlow
      <4>4. \A k : ~Has(<<>>, g, k)
        BY DEF Has
      <4> QED
        BY <2>1, <3>2, <3>5, <4>1, <4>3, <4>4 DEF Uploading
    <3> QED
      BY <3>3, <3>4, <3>5
  <2> QED
    BY <2>2 DEF Uploads
<1> QED
  BY <1>1, <1>2

\* Every step keeps uploads whole.
LEMMA StepUploads == NoWrap /\ TypeOK /\ Isolated /\ Uploads /\ [Next]_vars => Uploads'
<1> SUFFICES ASSUME NoWrap, TypeOK, Isolated, Uploads, [Next]_vars PROVE Uploads'
  OBVIOUS
<1>1. ASSUME NEW f \in Fetch, CallsOn(f) \/ Begin(f) PROVE Uploads'
  BY <1>1, BeginUploads, CallsUploads, UploadUploads, UploadEndsUploads DEF CallsOn
<1>2. CASE Events
  BY <1>2, EventsUploads
<1>3. ASSUME NEW c \in Conn, Reads(c) PROVE Uploads'
  BY <1>3, OnStartUploads, OnChunkUploads, OnEndUploads, StopsUploads DEF Reads
<1>4. ASSUME NEW f \in Fetch, Executes(f) PROVE Uploads'
  BY <1>4, ExecutesUploads
<1>5. CASE \E c \in Conn : LinkDrops(c)
  BY <1>5, DropsUploads
<1>6. CASE UNCHANGED vars
  <2>1. UNCHANGED <<key, sock, sent, pc, link, body, phase, c2s>>
    BY <1>6 DEF vars, netVars, pageVars, callVars, serverVars
  <2> QED
    BY <2>1 DEF Uploads, Uploading, UpFlow, Collected
<1> QED
  BY <1>1, <1>2, <1>3, <1>4, <1>5, <1>6 DEF Next, Page, Server, CallsOn, Events, Reads, Executes

----------------------------------------------------------------------------
\* Nothing is uploaded at first.
LEMMA InitUploads == Init => Uploads
  BY MuxAssumption DEF Init, Uploads, Uploading, Collected

\* A request that runs has the body its page sent, whole and in order, and
\* within the limit (mux.go:97-115), for any calls, bodies, limits and
\* connections: identifiers that do not wrap are all it takes.
THEOREM RequestsIntact ==
  ASSUME NoWrap
  PROVE  Spec => []ExecutedBodyComplete
<1> DEFINE Inv == TypeOK /\ Isolated /\ Uploads
<1>1. Init => Inv
  BY InitTyped, InitIsolated, InitUploads
<1>2. Inv /\ [Next]_vars => Inv'
  BY NoWrap, StepTyped, StepIsolated, StepUploads
<1>3. Inv => ExecutedBodyComplete
  <2> SUFFICES ASSUME Uploads, NEW f \in Fetch, phase[f] \in {"executing", "responding", "ended"}
               PROVE  body[f] = Requested(f) /\ BodyLen[f] <= MaxBody
    BY DEF ExecutedBodyComplete
  <2> QED
    BY DEF Uploads, Collected, Requested
<1> QED
  BY <1>1, <1>2, <1>3, PTL DEF Spec

----------------------------------------------------------------------------
(***************************************************************************)
(* Responses.  The frames of a response that the page still takes are a    *)
(* flow from its executor to handleFrame.                                  *)
(***************************************************************************)
DownKinds == [first |-> RESPONSE, chunk |-> RESPONSE_CHUNK, last |-> RESPONSE_END]
DownFlow(f) == Flow(s2c[sock[f]], f, DownKinds, Len(got[f]), produced[f],
                    link[sock[f]] = "up", stream[f] # "none")

\* Before its executor answers there is no response to a call anywhere.
Unanswered(f) ==
    phase[f] \in {"none", "collecting", "executing"} =>
        /\ stream[f] = "none" /\ produced[f] = 0 /\ got[f] = <<>>
        /\ key[f] # 0 => \A i \in DOMAIN s2c[sock[f]] : ~Relevant(s2c[sock[f]][i], f, DownKinds)

\* What is on its way to the page, while the page still takes it.
Answering(f) ==
    key[f] # 0 =>
        /\ Has(s2c[sock[f]], f, RESPONSE_END) => phase[f] = "ended"
        /\ f \in pending /\ stream[f] # "none" => ~Has(s2c[sock[f]], f, RESPONSE)
        /\ f \in pending /\ stream[f] \in {"none", "open"} =>
              /\ DownFlow(f)
              /\ (phase[f] = "responding" /\ link[sock[f]] = "up" /\ stream[f] = "none") =>
                    Has(s2c[sock[f]], f, RESPONSE)

\* What the page has of it.
Delivered(f) ==
    /\ answer[f] \subseteq {f}
    /\ got[f] = [n \in 1..Len(got[f]) |-> <<f, n>>] /\ Len(got[f]) <= produced[f]
    /\ stream[f] = "closed" => phase[f] = "ended" /\ Len(got[f]) = produced[f]

Responses == \A f \in Fetch : Unanswered(f) /\ Answering(f) /\ Delivered(f)

IInv == TypeOK /\ Isolated /\ Uploads /\ Responses

----------------------------------------------------------------------------
(* Responses are kept.                                                     *)

\* How the frames of a response make a flow.
LEMMA DownFramings ==
  /\ Framed(DownFrame) /\ Distinct(DownKinds)
  /\ DownKinds.first = RESPONSE /\ DownKinds.chunk = RESPONSE_CHUNK /\ DownKinds.last = RESPONSE_END
  BY DEF Framed, DownFrame, Distinct, DownKinds, RESPONSE, RESPONSE_CHUNK, RESPONSE_END

\* What a step may do to a call whose response it does not move.
Aside(g) ==
    /\ key'[g] = key[g] /\ sock'[g] = sock[g]
    /\ produced'[g] = produced[g] /\ got'[g] = got[g] /\ answer'[g] = answer[g]
    /\ g \in pending' => g \in pending
    /\ \/ stream'[g] = stream[g]
       \/ stream[g] # "none" /\ stream'[g] \notin {"none", "open", "closed"}
    /\ \/ phase'[g] = phase[g]
       \/ /\ phase[g] # "ended" /\ phase'[g] # "responding"
          /\ phase'[g] \in {"none", "collecting", "executing"} =>
                phase[g] \in {"none", "collecting", "executing"}

\* A step that leaves the response of a call where it is.
LEMMA ResponseBeside ==
  ASSUME TypeOK, NEW g \in Fetch, Unanswered(g), Answering(g), Delivered(g), Born(g), Aside(g),
         key[g] # 0 => /\ link'[sock[g]] = link[sock[g]]
                       /\ Beside(s2c[sock[g]], s2c'[sock[g]], g, DownKinds, DownFrame)
  PROVE  Unanswered(g)' /\ Answering(g)' /\ Delivered(g)'
<1>1. Delivered(g)'
  BY DEF Delivered, Aside
<1>2. CASE key[g] = 0
  BY <1>1, <1>2 DEF Unanswered, Answering, Aside
<1>3. CASE key[g] # 0
  <2> DEFINE q == s2c[sock[g]]
             t == s2c'[sock[g]]
  <2>1. q \in Seq(DownFrame) /\ Beside(q, t, g, DownKinds, DownFrame)
    BY <1>3 DEF TypeOK, Born
  <2>2. Len(got[g]) \in Nat /\ produced[g] \in Nat
    BY DEF TypeOK
  <2> HIDE DEF q, t
  <2>3. /\ \A k \in {RESPONSE, RESPONSE_CHUNK, RESPONSE_END} : Has(t, g, k) <=> Has(q, g, k)
        /\ t \in Seq(DownFrame)
    BY <2>1, DownFramings, BesideKeeps
  <2>4. Flow(q, g, DownKinds, Len(got[g]), produced[g], link[sock[g]] = "up", stream[g] # "none")
        => Flow(t, g, DownKinds, Len(got[g]), produced[g], link[sock[g]] = "up", stream[g] # "none")
    BY <2>1, <2>2, DownFramings, BesideKeeps
  <2>5. (\A i \in DOMAIN q : ~Relevant(q[i], g, DownKinds))
        => \A i \in DOMAIN t : ~Relevant(t[i], g, DownKinds)
    <3>1. \A x : (\A i \in DOMAIN x : ~Relevant(x[i], g, DownKinds))
                 <=> \A k \in {RESPONSE, RESPONSE_CHUNK, RESPONSE_END} : ~Has(x, g, k)
      BY DownFramings DEF Relevant, Has, Is
    <3> QED
      BY <2>3, <3>1
  <2>6. Unanswered(g)'
    BY <1>3, <2>5 DEF Unanswered, Aside, q, t
  <2>7. Answering(g)'
    <3>1. Has(t, g, RESPONSE_END) => phase'[g] = "ended"
      BY <1>3, <2>3 DEF Answering, Aside, q
    <3>2. ASSUME g \in pending', stream'[g] # "none" PROVE ~Has(t, g, RESPONSE)
      BY <1>3, <2>3, <3>2 DEF Answering, Aside, q
    <3>3. ASSUME g \in pending', stream'[g] \in {"none", "open"}
          PROVE  /\ DownFlow(g)'
                 /\ (phase'[g] = "responding" /\ link'[sock'[g]] = "up" /\ stream'[g] = "none") =>
                       Has(t, g, RESPONSE)
      <4>1. /\ stream'[g] = stream[g] /\ g \in pending /\ sock'[g] = sock[g]
            /\ got'[g] = got[g] /\ produced'[g] = produced[g] /\ link'[sock[g]] = link[sock[g]]
            /\ phase'[g] = "responding" => phase[g] = "responding"
        BY <1>3, <3>3 DEF Aside
      <4>2. /\ DownFlow(g)
            /\ (phase[g] = "responding" /\ link[sock[g]] = "up" /\ stream[g] = "none") =>
                  Has(q, g, RESPONSE)
        BY <1>3, <3>3, <4>1 DEF Answering, q
      <4>3. DownFlow(g)'
        BY <2>4, <4>1, <4>2 DEF DownFlow, q, t
      <4> QED
        BY <2>3, <4>1, <4>2, <4>3
    <3>4. sock'[g] = sock[g]
      BY DEF Aside
    <3> QED
      BY <3>1, <3>2, <3>3, <3>4 DEF Answering, t
  <2> QED
    BY <1>1, <2>6, <2>7
<1> QED
  BY <1>2, <1>3

\* A step that is beside the response of every call.
LEMMA AllBeside ==
  ASSUME TypeOK, Isolated, Responses,
         \A g \in Fetch :
            /\ Aside(g)
            /\ key[g] # 0 => /\ link'[sock[g]] = link[sock[g]]
                             /\ Beside(s2c[sock[g]], s2c'[sock[g]], g, DownKinds, DownFrame)
  PROVE  Responses'
<1>1. ASSUME NEW g \in Fetch PROVE Unanswered(g)' /\ Answering(g)' /\ Delivered(g)'
  BY ResponseBeside DEF Isolated, Responses
<1> QED
  BY <1>1 DEF Responses

\* An error sent to one call.
LEMMA ErrorBeside ==
  ASSUME TypeOK, NEW d \in Conn, NEW fr \in DownFrame, fr.kind = RESPONSE_ERROR, SendDown(d, <<fr>>),
         NEW c \in Conn, NEW g \in Fetch
  PROVE  Beside(s2c[c], s2c'[c], g, DownKinds, DownFrame)
<1>1. s2c[c] \in Seq(DownFrame)
  BY DEF TypeOK
<1>2. ~Relevant(fr, g, DownKinds)
  BY DownFramings DEF Relevant, RESPONSE, RESPONSE_CHUNK, RESPONSE_END, RESPONSE_ERROR
<1>3. s2c'[c] = IF c = d /\ link[d] = "up" THEN Append(s2c[c], fr) ELSE s2c[c]
  BY SendOne
<1> QED
  BY <1>1, <1>2, <1>3, BesideForms

\* The steps of a call on its upload or its stream send no response.
LEMMA CallsResponses ==
  ASSUME TypeOK, Isolated, Responses, NEW f \in Fetch, CallsOn(f)
  PROVE  Responses'
<1>1. UNCHANGED <<pending, key, sock, produced, got, answer, phase, link, s2c>>
  BY DEF CallsOn, Fetching, Upload, UploadEnds, UploadThrows, CancelStream, callVars, viewVars,
         netVars, serverVars
<1>2. \A g \in Fetch : stream'[g] = stream[g] \/ (stream[g] # "none" /\ stream'[g] = "cancelled")
  BY DEF CallsOn, Fetching, Upload, UploadEnds, UploadThrows, CancelStream, viewVars, TypeOK
<1>3. \A g \in Fetch : Aside(g)
  BY <1>1, <1>2 DEF Aside
<1> QED
  BY <1>1, <1>3, AllBeside DEF Beside

\* A call begins with no response to it anywhere.
LEMMA BeginResponses ==
  ASSUME NoWrap, TypeOK, Isolated, Responses, NEW f \in Fetch, Begin(f)
  PROVE  Responses'
<1>t. key \in [Fetch -> Nat] /\ sock \in [Fetch -> 0..MaxConn] /\ conn \in Conn
  BY DEF TypeOK, Begin
<1>k. Key(nextID) = nextID
  <2>1. nextID <= MaxId
    BY DEF Begin
  <2> QED
    BY <2>1, Identifiers
<1>e. /\ pc[f] = "await" /\ pending' \subseteq pending \cup {f}
      /\ UNCHANGED <<promise, answer, stream, got, link, s2c, phase, produced>>
      /\ key' = [key EXCEPT ![f] = nextID] /\ sock' = [sock EXCEPT ![f] = conn]
  BY <1>k DEF Begin, serverVars, viewVars
<1>f. /\ key[f] = 0 /\ phase[f] = "none" /\ stream[f] = "none" /\ got[f] = <<>> /\ produced[f] = 0
      /\ answer[f] = {}
  BY <1>e DEF Isolated, Born, Unborn
<1>1. ASSUME NEW g \in Fetch, g # f PROVE Unanswered(g)' /\ Answering(g)' /\ Delivered(g)'
  <2>1. Aside(g)
    BY <1>t, <1>e, <1>1 DEF Aside
  <2>2. Unanswered(g) /\ Answering(g) /\ Delivered(g) /\ Born(g)
    BY DEF Isolated, Responses
  <2> QED
    BY <1>e, <2>1, <2>2, ResponseBeside DEF Beside
<1>2. \A i \in DOMAIN s2c[conn] : ~Relevant(s2c[conn][i], f, DownKinds)
  BY <1>t, <1>f DEF Isolated, AllCarried, Carried, Relevant
<1>3. sock'[f] = conn
  BY <1>t, <1>e
<1>4. Unanswered(f)'
  BY <1>e, <1>f, <1>2, <1>3 DEF Unanswered
<1>5. Answering(f)'
  <2> DEFINE q == s2c[conn]
             up == link[conn] = "up"
  <2>1. \A live, opened : Flow(q, f, DownKinds, 0, 0, live, opened)
    BY <1>2, DownFramings, FlowNone
  <2>2. ~Has(q, f, RESPONSE) /\ ~Has(q, f, RESPONSE_END)
    BY <1>2, DownFramings, FlowNone
  <2> HIDE DEF q
  <2>3. Len(got[f]) = 0
    BY <1>f
  <2>4. Flow(q, f, DownKinds, Len(got[f]), produced[f], up, stream[f] # "none")
    BY <1>f, <2>1, <2>3
  <2>5. DownFlow(f)'
    BY <1>e, <1>3, <2>4 DEF DownFlow, q
  <2> QED
    BY <1>e, <1>f, <1>3, <2>2, <2>5 DEF Answering, q
<1>6. Delivered(f)'
  BY <1>e DEF Delivered, Responses
<1> QED
  BY <1>1, <1>4, <1>5, <1>6 DEF Responses

\* The socket opens or does not: its calls are still to come.
LEMMA OpensResponses ==
  ASSUME TypeOK, Isolated, Responses, SocketOpens \/ SocketFails
  PROVE  Responses'
<1>1. UNCHANGED <<pending, key, sock, produced, got, answer, phase, stream, s2c>>
  BY DEF SocketOpens, SocketFails, callVars, viewVars, netVars, serverVars
<1>2. \A g \in Fetch : Aside(g)
  BY <1>1 DEF Aside
<1>3. \A g \in Fetch : key[g] # 0 => link'[sock[g]] = link[sock[g]]
  <2> TAKE g \in Fetch
  <2> SUFFICES ASSUME key[g] # 0 PROVE link'[sock[g]] = link[sock[g]]
    OBVIOUS
  <2>1. Born(g) /\ link \in [Conn -> {"idle", "up", "down"}]
    BY DEF Isolated, TypeOK
  <2>2. CASE SocketOpens
    BY <2>1, <2>2 DEF SocketOpens, Born
  <2>3. CASE SocketFails
    BY <2>3 DEF SocketFails, netVars
  <2> QED
    BY <2>2, <2>3
<1> QED
  BY <1>1, <1>2, <1>3, AllBeside DEF Beside

\* The socket closes: what was on its way is lost, and shows as an error.
LEMMA ClosesResponses ==
  ASSUME TypeOK, Isolated, Responses, SocketCloses
  PROVE  Responses'
<1>1. /\ UNCHANGED <<key, sock, produced, got, answer, phase, link>> /\ pending' = {}
      /\ \A c \in Conn : s2c'[c] = s2c[c] \/ s2c'[c] = <<>>
  BY DEF SocketCloses, callVars, serverVars, TypeOK
<1>2. \A g \in Fetch : stream'[g] = stream[g] \/ (stream[g] = "open" /\ stream'[g] = "errored")
  BY DEF SocketCloses, Failed, TypeOK
<1>3. ASSUME NEW g \in Fetch PROVE Unanswered(g)' /\ Answering(g)' /\ Delivered(g)'
  <2>1. Unanswered(g) /\ Answering(g) /\ Delivered(g)
    BY DEF Responses
  <2>2. key[g] # 0 => s2c'[sock[g]] = s2c[sock[g]] \/ s2c'[sock[g]] = <<>>
    BY <1>1 DEF Isolated, Born
  <2>3. \A k : ~Has(<<>>, g, k)
    BY DEF Has
  <2>4. Unanswered(g)'
    BY <1>1, <1>2, <2>1, <2>2 DEF Unanswered
  <2>5. Answering(g)'
    BY <1>1, <2>1, <2>2, <2>3 DEF Answering
  <2>6. Delivered(g)'
    BY <1>1, <1>2, <2>1 DEF Delivered
  <2> QED
    BY <2>4, <2>5, <2>6
<1> QED
  BY <1>3 DEF Responses

\* The connection drops: nothing more gets in.
LEMMA DropsResponses ==
  ASSUME TypeOK, Isolated, Responses, NEW c \in Conn, LinkDrops(c)
  PROVE  Responses'
<1>1. /\ UNCHANGED <<pending, key, sock, produced, got, answer, phase, stream, s2c>>
      /\ link' = [link EXCEPT ![c] = "down"] /\ link \in [Conn -> {"idle", "up", "down"}]
  BY DEF LinkDrops, pageVars, callVars, viewVars, serverVars, TypeOK
<1>2. ASSUME NEW g \in Fetch PROVE Unanswered(g)' /\ Answering(g)' /\ Delivered(g)'
  <2>1. Unanswered(g) /\ Answering(g) /\ Delivered(g) /\ Born(g)
    BY DEF Responses, Isolated
  <2>2. Unanswered(g)' /\ Delivered(g)'
    BY <1>1, <2>1 DEF Unanswered, Delivered
  <2>3. CASE key[g] = 0
    BY <1>1, <2>2, <2>3 DEF Answering
  <2>4. CASE key[g] # 0
    <3>1. sock[g] \in Conn
      BY <2>1, <2>4 DEF Born
    <3>2. (link'[sock[g]] = "up") = (link[sock[g]] = "up") \/ (link'[sock[g]] = "up") = FALSE
      BY <1>1, <3>1
    <3>3. link'[sock[g]] = "up" => link[sock[g]] = "up"
      BY <1>1, <3>1
    <3>4. DownFlow(g) => DownFlow(g)'
      BY <1>1, <3>2, FlowDrops DEF DownFlow
    <3> QED
      BY <1>1, <2>1, <2>2, <2>4, <3>3, <3>4 DEF Answering
  <2> QED
    BY <2>3, <2>4
<1> QED
  BY <1>2 DEF Responses

\* The read loop answers only with errors, and starts only what was not seen before.
LEMMA ReadsResponses ==
  ASSUME NoWrap, TypeOK, Isolated, Uploads, Responses, NEW c \in Conn, Reads(c)
  PROVE  Responses'
<1>t. /\ s2c \in [Conn -> Seq(DownFrame)] /\ key \in [Fetch -> Nat]
      /\ phase \in [Fetch -> {"none", "collecting", "executing", "responding",
                              "ended", "failed", "dropped"}]
  BY DEF TypeOK
<1>1. UNCHANGED <<pending, key, sock, produced, got, answer, stream, link>>
  BY DEF Reads, OnStart, OnChunk, OnEnd, OnCancel, ReadFails, Read, pageVars, callVars, viewVars
<1>2. ASSUME NEW g \in Fetch, NEW d \in Conn PROVE Beside(s2c[d], s2c'[d], g, DownKinds, DownFrame)
  <2>1. CASE UNCHANGED s2c
    BY <2>1 DEF Beside
  <2>2. CASE OnStart(c)
    <3>1. PICK fr \in Arrived(c) : \/ UNCHANGED s2c
                                   \/ SendDown(c, <<Frame(RESPONSE_ERROR, fr.id, fr.of, 0)>>)
      BY <2>2 DEF OnStart
    <3>2. /\ Frame(RESPONSE_ERROR, fr.id, fr.of, 0) \in DownFrame
          /\ Frame(RESPONSE_ERROR, fr.id, fr.of, 0).kind = RESPONSE_ERROR
      BY ArrivedTyped, FrameTypes DEF Frame
    <3> QED
      BY <2>1, <3>1, <3>2, ErrorBeside
  <2>3. CASE OnChunk(c)
    <3>1. PICK fr \in Arrived(c) : \/ UNCHANGED s2c
                                   \/ \E f \in States(c, fr.id) : SendDown(c, OverflowReply(f))
      BY <2>3 DEF OnChunk
    <3>2. ASSUME NEW f \in States(c, fr.id)
          PROVE  /\ Frame(RESPONSE_ERROR, Wire(key[f]), f, 0) \in DownFrame
                 /\ Frame(RESPONSE_ERROR, Wire(key[f]), f, 0).kind = RESPONSE_ERROR
      <4>1. f \in Fetch /\ Wire(key[f]) \in Nat
        BY <1>t, WireType DEF States
      <4> QED
        BY <4>1, FrameTypes DEF Frame
    <3> QED
      BY <2>1, <3>1, <3>2, ErrorBeside DEF OverflowReply
  <2> QED
    BY <2>1, <2>2, <2>3 DEF Reads, OnEnd, OnCancel, ReadFails
<1>3. ASSUME NEW g \in Fetch
      PROVE  \/ phase'[g] = phase[g]
             \/ phase[g] = "none" /\ phase'[g] \in {"collecting", "failed"}
             \/ phase[g] = "collecting" /\ phase'[g] \in {"executing", "failed", "dropped"}
  <2>1. CASE OnStart(c)
    <3>1. PICK fr \in Arrived(c) :
            /\ Read(c, START, fr)
            /\ \/ phase' = [phase EXCEPT ![fr.of] = "collecting"]
               \/ phase' = [phase EXCEPT ![fr.of] = "failed"]
      BY <2>1 DEF OnStart
    <3>2. fr.of \in Fetch /\ key[fr.of] # 0 /\ Has(c2s[sock[fr.of]], fr.of, START)
      BY <3>1, ReadTakes
    <3>3. phase[fr.of] = "none"
      BY <3>2 DEF Uploads, Uploading
    <3> QED
      BY <1>t, <3>1, <3>2, <3>3
  <2>2. CASE OnChunk(c)
    BY <1>t, <2>2 DEF OnChunk, States, Overflow
  <2>3. CASE OnEnd(c) \/ OnCancel(c) \/ ReadFails(c)
    BY <1>t, <2>3 DEF OnEnd, OnCancel, ReadFails, States
  <2> QED
    BY <2>1, <2>2, <2>3 DEF Reads
<1>4. \A g \in Fetch : Aside(g)
  BY <1>1, <1>3 DEF Aside
<1>5. \A g \in Fetch : key[g] # 0 => Beside(s2c[sock[g]], s2c'[sock[g]], g, DownKinds, DownFrame)
  BY <1>2 DEF Isolated, Born
<1> QED
  BY <1>1, <1>4, <1>5, AllBeside

\* The page takes a message: its call is on this connection, the others see nothing.
LEMMA PageTakes ==
  ASSUME TypeOK, Isolated, Responses, NEW fr \in Message, NEW k, Receive(k, fr)
  PROVE  /\ fr.of \in Fetch /\ sock[fr.of] = conn /\ key[fr.of] # 0 /\ Is(s2c[conn][1], fr.of, k)
         /\ Has(s2c[conn], fr.of, k) /\ UNCHANGED <<key, sock, link, phase, produced>>
         /\ s2c[conn] \in Seq(DownFrame) /\ s2c[conn] # <<>> /\ Head(s2c[conn]) = fr
         /\ s2c'[conn] = Tail(s2c[conn]) /\ Addressed(fr) = pending \cap {fr.of}
         /\ \A g \in Fetch : Relevant(fr, g, DownKinds) \/ ~Aside(g)
                             \/ (Unanswered(g)' /\ Answering(g)' /\ Delivered(g)')
<1>t. s2c \in [Conn -> Seq(DownFrame)]
  BY DEF TypeOK
<1>1. /\ conn \in Conn /\ fr.of \in Fetch /\ s2c[conn] \in Seq(DownFrame) /\ s2c[conn] # <<>>
      /\ fr = Head(s2c[conn]) /\ fr = s2c[conn][1] /\ 1 \in DOMAIN s2c[conn]
  BY MessageTyped
<1>2. fr.kind = k /\ s2c' = [s2c EXCEPT ![conn] = Tail(@)] /\ UNCHANGED <<key, sock, link, phase, produced>>
  BY DEF Receive, callVars, serverVars
<1>3. s2c'[conn] = Tail(s2c[conn]) /\ \A d \in Conn : d # conn => s2c'[d] = s2c[d]
  BY <1>t, <1>1, <1>2
<1>4. Addressed(fr) = pending \cap {fr.of} /\ sock[fr.of] = conn /\ key[fr.of] # 0
  BY AddressedOf
<1>5. Is(s2c[conn][1], fr.of, k) /\ Has(s2c[conn], fr.of, k)
  BY <1>1, <1>2 DEF Is, Has
<1>6. ASSUME NEW g \in Fetch, ~Relevant(fr, g, DownKinds), Aside(g)
      PROVE  Unanswered(g)' /\ Answering(g)' /\ Delivered(g)'
  <2>1. \A d \in Conn : Beside(s2c[d], s2c'[d], g, DownKinds, DownFrame)
    BY <1>t, <1>1, <1>3, <1>6, BesideForms
  <2>2. Unanswered(g) /\ Answering(g) /\ Delivered(g) /\ Born(g)
    BY DEF Responses, Isolated
  <2>3. key[g] # 0 => Beside(s2c[sock[g]], s2c'[sock[g]], g, DownKinds, DownFrame)
    BY <2>1, <2>2 DEF Born
  <2> QED
    BY <1>2, <1>6, <2>2, <2>3, ResponseBeside
<1> QED
  BY <1>1, <1>2, <1>3, <1>4, <1>5, <1>6

\* A frame of a response is on its way: the executor has answered.
LEMMA ResponseSeen ==
  ASSUME NEW f \in Fetch, Unanswered(f), key[f] # 0,
         NEW k \in {RESPONSE, RESPONSE_CHUNK, RESPONSE_END}, Has(s2c[sock[f]], f, k)
  PROVE  phase[f] \notin {"none", "collecting", "executing"}
<1>1. \E i \in DOMAIN s2c[sock[f]] : Relevant(s2c[sock[f]][i], f, DownKinds)
  BY DownFramings DEF Has, Is, Relevant
<1> QED
  BY <1>1 DEF Unanswered

\* RESPONSE settles the promise of the call it answers.
LEMMA ResponseResponses ==
  ASSUME TypeOK, Isolated, Responses, HandleResponse
  PROVE  Responses'
<1>t. /\ answer \in [Fetch -> SUBSET Fetch] /\ got \in [Fetch -> Seq(Fetch \X Nat)]
      /\ produced \in [Fetch -> Nat]
      /\ stream \in [Fetch -> {"none", "nobody", "open", "closed", "errored", "cancelled"}]
  BY DEF TypeOK
<1>1. PICK fr \in Message :
        /\ Receive(RESPONSE, fr) /\ UNCHANGED <<pending, got>>
        /\ \A g \in Fetch : answer'[g] = answer[g] \/ (g \in Addressed(fr) /\ answer'[g] = {fr.of})
        /\ \A g \in Fetch : stream'[g] = IF g \in Addressed(fr)
                                         THEN (IF Bodyless(fr.n) THEN "nobody" ELSE "open")
                                         ELSE stream[g]
  BY <1>t DEF HandleResponse
<1> DEFINE f == fr.of
           q == s2c[conn]
<1>2. /\ f \in Fetch /\ sock[f] = conn /\ key[f] # 0 /\ Is(q[1], f, RESPONSE) /\ Has(q, f, RESPONSE)
      /\ UNCHANGED <<key, sock, link, phase, produced>> /\ q \in Seq(DownFrame) /\ q # <<>>
      /\ s2c'[conn] = Tail(q) /\ Is(Head(q), f, RESPONSE) /\ Addressed(fr) = pending \cap {f}
      /\ \A g \in Fetch : Relevant(fr, g, DownKinds) \/ ~Aside(g)
                          \/ (Unanswered(g)' /\ Answering(g)' /\ Delivered(g)')
  BY <1>1, PageTakes
<1>3. ASSUME NEW g \in Fetch, g # f PROVE Unanswered(g)' /\ Answering(g)' /\ Delivered(g)'
  <2>1. ~Relevant(fr, g, DownKinds)
    BY <1>3 DEF Relevant
  <2>2. Aside(g)
    BY <1>1, <1>2, <1>3 DEF Aside
  <2> QED
    BY <1>2, <2>1, <2>2
<1>4. Unanswered(f) /\ Answering(f) /\ Delivered(f)
  BY <1>2 DEF Responses
<1>5. phase'[f] \notin {"none", "collecting", "executing"}
  BY <1>2, <1>4, ResponseSeen
<1>6. /\ answer'[f] \subseteq {f} /\ pending' = pending /\ got' = got
      /\ stream'[f] = stream[f] \/ stream'[f] \in {"nobody", "open"}
      /\ f \notin pending => stream'[f] = stream[f]
      /\ f \in pending => stream'[f] \in {"nobody", "open"}
  BY <1>1, <1>2, <1>4 DEF Delivered
<1> HIDE DEF f, q
<1>7. Unanswered(f)'
  BY <1>5 DEF Unanswered
<1>8. Delivered(f)'
  BY <1>2, <1>4, <1>6 DEF Delivered
<1>9. Has(Tail(q), f, RESPONSE_END) => Has(q, f, RESPONSE_END)
  BY <1>2, TailHas
<1>10. ASSUME f \in pending
       PROVE  /\ ~Has(Tail(q), f, RESPONSE)
              /\ Flow(Tail(q), f, DownKinds, Len(got[f]), produced[f], link[conn] = "up", TRUE)
  <2>1. stream[f] = "none"
    BY <1>2, <1>4, <1>10 DEF Answering, q
  <2>2. Flow(q, f, DownKinds, Len(got[f]), produced[f], link[conn] = "up", stream[f] # "none")
    BY <1>2, <1>4, <1>10, <2>1 DEF Answering, DownFlow, q
  <2>3. Len(got[f]) \in Nat /\ produced[f] \in Nat /\ (link[conn] = "up") \in BOOLEAN
        /\ (stream[f] # "none") \in BOOLEAN /\ Is(Head(q), f, DownKinds.first)
    BY <1>t, <1>2, DownFramings
  <2>4. Flow(Tail(q), f, DownKinds, Len(got[f]), produced[f], link[conn] = "up", TRUE)
    BY <1>2, <2>2, <2>3, DownFramings, FlowTailFirst
  <2>5. ~Has(Tail(q), f, RESPONSE)
    BY <2>4, DownFramings DEF Flow, FirstFirst, Has
  <2> QED
    BY <2>4, <2>5
<1>11. Answering(f)'
  <2>1. CASE f \notin pending
    BY <1>2, <1>4, <1>6, <1>9, <2>1 DEF Answering, q
  <2>2. CASE f \in pending
    <3>1. (stream'[f] # "none") = TRUE
      BY <1>6, <2>2
    <3>2. DownFlow(f)'
      BY <1>2, <1>6, <1>10, <2>2, <3>1 DEF DownFlow
    <3> QED
      BY <1>2, <1>4, <1>9, <1>10, <2>2, <3>1, <3>2 DEF Answering, q
  <2> QED
    BY <2>1, <2>2
<1> QED
  BY <1>3, <1>7, <1>8, <1>11 DEF Responses

\* RESPONSE_CHUNK extends the stream of the call it belongs to.
LEMMA ChunkResponses ==
  ASSUME TypeOK, Isolated, Responses, HandleChunk
  PROVE  Responses'
<1>t. got \in [Fetch -> Seq(Fetch \X Nat)] /\ produced \in [Fetch -> Nat]
  BY DEF TypeOK
<1>1. PICK fr \in Message :
        /\ Receive(RESPONSE_CHUNK, fr) /\ UNCHANGED <<pending, promise, answer, stream>>
        /\ \A g \in Fetch : got'[g] = IF g \in Addressed(fr) /\ stream[g] = "open"
                                      THEN Append(got[g], <<fr.of, fr.n>>) ELSE got[g]
  BY DEF HandleChunk
<1> DEFINE f == fr.of
           q == s2c[conn]
<1>2. /\ f \in Fetch /\ sock[f] = conn /\ key[f] # 0 /\ Has(q, f, RESPONSE_CHUNK)
      /\ UNCHANGED <<key, sock, link, phase, produced>> /\ q \in Seq(DownFrame) /\ q # <<>>
      /\ s2c'[conn] = Tail(q) /\ Is(Head(q), f, RESPONSE_CHUNK) /\ Head(q) = fr
      /\ Addressed(fr) = pending \cap {f}
      /\ \A g \in Fetch : Relevant(fr, g, DownKinds) \/ ~Aside(g)
                          \/ (Unanswered(g)' /\ Answering(g)' /\ Delivered(g)')
  BY <1>1, PageTakes
<1>3. ASSUME NEW g \in Fetch, g # f PROVE Unanswered(g)' /\ Answering(g)' /\ Delivered(g)'
  <2>1. ~Relevant(fr, g, DownKinds)
    BY <1>3 DEF Relevant
  <2>2. Aside(g)
    BY <1>1, <1>2, <1>3 DEF Aside
  <2> QED
    BY <1>2, <2>1, <2>2
<1>4. Unanswered(f) /\ Answering(f) /\ Delivered(f)
  BY <1>2 DEF Responses
<1>5. phase'[f] \notin {"none", "collecting", "executing"}
  BY <1>2, <1>4, ResponseSeen
<1>6. got'[f] = IF f \in pending /\ stream[f] = "open" THEN Append(got[f], <<f, fr.n>>) ELSE got[f]
  BY <1>1, <1>2
<1> HIDE DEF f, q
<1>7. Unanswered(f)'
  BY <1>5 DEF Unanswered
<1>8. /\ Has(Tail(q), f, RESPONSE_END) => Has(q, f, RESPONSE_END)
      /\ Has(Tail(q), f, RESPONSE) => Has(q, f, RESPONSE)
  BY <1>2, TailHas
<1>9. ASSUME f \in pending, stream[f] \in {"none", "open"}
      PROVE  /\ stream[f] = "open" /\ fr.n = Len(got[f]) + 1 /\ Len(got[f]) + 1 <= produced[f]
             /\ Flow(Tail(q), f, DownKinds, Len(got[f]) + 1, produced[f], link[conn] = "up",
                     stream[f] # "none")
  <2>1. Flow(q, f, DownKinds, Len(got[f]), produced[f], link[conn] = "up", stream[f] # "none")
    BY <1>2, <1>4, <1>9 DEF Answering, DownFlow, q
  <2>2. Len(got[f]) \in Nat /\ produced[f] \in Nat /\ (link[conn] = "up") \in BOOLEAN
        /\ (stream[f] # "none") \in BOOLEAN /\ Is(Head(q), f, DownKinds.chunk)
    BY <1>t, <1>2, DownFramings
  <2>3. /\ stream[f] # "none" /\ Head(q).n = Len(got[f]) + 1 /\ Len(got[f]) + 1 <= produced[f]
        /\ Flow(Tail(q), f, DownKinds, Len(got[f]) + 1, produced[f], link[conn] = "up",
                stream[f] # "none")
    BY <1>2, <2>1, <2>2, DownFramings, FlowTailChunk
  <2> QED
    BY <1>2, <1>9, <2>3
<1>10. CASE f \in pending /\ stream[f] \in {"none", "open"}
  <2>1. got'[f] = Append(got[f], <<f, Len(got[f]) + 1>>)
    BY <1>6, <1>9, <1>10
  <2>2. Len(got'[f]) = Len(got[f]) + 1 /\ got'[f] = [n \in 1..Len(got'[f]) |-> <<f, n>>]
    <3>1. got[f] \in Seq(Fetch \X Nat) /\ got[f] = [n \in 1..Len(got[f]) |-> <<f, n>>]
      BY <1>t, <1>2, <1>4 DEF Delivered
    <3> QED
      BY ZenonT(30), <1>2, <2>1, <3>1, AppendsNext
  <2>3. Delivered(f)'
    BY <1>1, <1>2, <1>4, <1>9, <1>10, <2>2 DEF Delivered
  <2>4. DownFlow(f)'
    BY <1>1, <1>2, <1>9, <1>10, <2>2 DEF DownFlow
  <2>5. Answering(f)'
    BY <1>1, <1>2, <1>4, <1>8, <1>9, <1>10, <2>4 DEF Answering, q
  <2> QED
    BY <1>3, <1>7, <2>3, <2>5 DEF Responses
<1>11. CASE ~(f \in pending /\ stream[f] \in {"none", "open"})
  <2>1. got'[f] = got[f]
    BY <1>6, <1>11
  <2>2. Delivered(f)'
    BY <1>1, <1>2, <1>4, <2>1 DEF Delivered
  <2>3. Answering(f)'
    BY <1>1, <1>2, <1>4, <1>8, <1>11 DEF Answering, q
  <2> QED
    BY <1>3, <1>7, <2>2, <2>3 DEF Responses
<1> QED
  BY <1>10, <1>11

\* RESPONSE_END closes a stream that has every chunk.
LEMMA EndResponses ==
  ASSUME TypeOK, Isolated, Responses, HandleEnd
  PROVE  Responses'
<1>t. got \in [Fetch -> Seq(Fetch \X Nat)] /\ produced \in [Fetch -> Nat]
  BY DEF TypeOK
<1>1. PICK fr \in Message :
        /\ Receive(RESPONSE_END, fr) /\ UNCHANGED <<promise, answer, got>>
        /\ \A g \in Fetch : stream'[g] = IF g \in Addressed(fr) /\ stream[g] = "open"
                                         THEN "closed" ELSE stream[g]
        /\ pending' = pending \ {g \in Addressed(fr) : stream[g] # "cancelled"}
  BY DEF HandleEnd
<1> DEFINE f == fr.of
           q == s2c[conn]
<1>2. /\ f \in Fetch /\ sock[f] = conn /\ key[f] # 0 /\ Has(q, f, RESPONSE_END)
      /\ UNCHANGED <<key, sock, link, phase, produced>> /\ q \in Seq(DownFrame) /\ q # <<>>
      /\ s2c'[conn] = Tail(q) /\ Is(Head(q), f, RESPONSE_END)
      /\ Addressed(fr) = pending \cap {f}
      /\ \A g \in Fetch : Relevant(fr, g, DownKinds) \/ ~Aside(g)
                          \/ (Unanswered(g)' /\ Answering(g)' /\ Delivered(g)')
  BY <1>1, PageTakes
<1>3. ASSUME NEW g \in Fetch, g # f PROVE Unanswered(g)' /\ Answering(g)' /\ Delivered(g)'
  <2>1. ~Relevant(fr, g, DownKinds)
    BY <1>3 DEF Relevant
  <2>2. Aside(g)
    BY <1>1, <1>2, <1>3 DEF Aside
  <2> QED
    BY <1>2, <2>1, <2>2
<1>4. Unanswered(f) /\ Answering(f) /\ Delivered(f)
  BY <1>2 DEF Responses
<1>5. phase'[f] \notin {"none", "collecting", "executing"}
  BY <1>2, <1>4, ResponseSeen
<1>6. /\ stream'[f] = IF f \in pending /\ stream[f] = "open" THEN "closed" ELSE stream[f]
      /\ f \in pending' => f \in pending /\ stream[f] = "cancelled"
  BY <1>1, <1>2
<1> HIDE DEF f, q
<1>7. Unanswered(f)'
  BY <1>5 DEF Unanswered
<1>8. /\ Has(Tail(q), f, RESPONSE_END) => Has(q, f, RESPONSE_END)
      /\ Has(Tail(q), f, RESPONSE) => Has(q, f, RESPONSE)
  BY <1>2, TailHas
<1>9. Answering(f)'
  BY <1>2, <1>4, <1>6, <1>8 DEF Answering, q
<1>10. ASSUME f \in pending, stream[f] = "open"
       PROVE  phase[f] = "ended" /\ Len(got[f]) = produced[f]
  <2>1. Flow(q, f, DownKinds, Len(got[f]), produced[f], link[conn] = "up", stream[f] # "none")
    BY <1>2, <1>4, <1>10 DEF Answering, DownFlow, q
  <2>2. Len(got[f]) \in Nat /\ produced[f] \in Nat /\ (link[conn] = "up") \in BOOLEAN
        /\ (stream[f] # "none") \in BOOLEAN /\ Is(Head(q), f, DownKinds.last)
        /\ Len(got[f]) <= produced[f]
    BY <1>t, <1>2, <1>4, DownFramings DEF Delivered
  <2>3. Len(got[f]) = produced[f]
    BY <1>2, <2>1, <2>2, DownFramings, FlowHeadLast
  <2> QED
    BY <1>2, <1>4, <2>3 DEF Answering, q
<1>11. Delivered(f)'
  BY <1>1, <1>2, <1>4, <1>6, <1>10 DEF Delivered
<1> QED
  BY <1>3, <1>7, <1>9, <1>11 DEF Responses

\* RESPONSE_ERROR takes the call out of the table.
LEMMA ErrorResponses ==
  ASSUME TypeOK, Isolated, Responses, HandleError
  PROVE  Responses'
<1>1. PICK fr \in Message :
        /\ Receive(RESPONSE_ERROR, fr) /\ UNCHANGED <<answer, got>>
        /\ pending' = pending \ Addressed(fr) /\ Failed(Addressed(fr))
  BY DEF HandleError
<1>2. \A g \in Fetch : stream'[g] = stream[g] \/ (stream[g] = "open" /\ stream'[g] = "errored")
  BY <1>1 DEF Failed, TypeOK
<1>3. UNCHANGED <<key, sock, phase, produced>> /\ fr.kind = RESPONSE_ERROR
  BY <1>1, PageTakes DEF Receive
<1>4. ASSUME NEW g \in Fetch PROVE Unanswered(g)' /\ Answering(g)' /\ Delivered(g)'
  <2>1. ~Relevant(fr, g, DownKinds)
    BY <1>3, DownFramings DEF Relevant, RESPONSE, RESPONSE_CHUNK, RESPONSE_END, RESPONSE_ERROR
  <2>2. Aside(g)
    BY <1>1, <1>2, <1>3 DEF Aside
  <2> QED
    BY <1>1, <2>1, <2>2, PageTakes
<1> QED
  BY <1>4 DEF Responses

----------------------------------------------------------------------------
(* The executors.                                                          *)

\* An executor that refuses, fails or is cancelled adds nothing to a response.
LEMMA QuietResponses ==
  ASSUME TypeOK, Isolated, Responses, NEW f \in Fetch,
         ExecRefuses(f) \/ ExecInterrupted(f) \/ ExecCancelled(f)
  PROVE  Responses'
<1>t. key \in [Fetch -> Nat]
  BY DEF TypeOK
<1>1. UNCHANGED <<pending, key, sock, produced, got, answer, stream, link>>
  BY DEF ExecRefuses, ExecInterrupted, ExecCancelled, Executing, pageVars, callVars, viewVars, netVars
<1>2. /\ phase[f] \in {"executing", "responding"} /\ phase'[f] \in {"failed", "dropped"}
      /\ \A g \in Fetch : g # f => phase'[g] = phase[g]
  BY DEF ExecRefuses, ExecInterrupted, ExecCancelled, Executing, TypeOK
<1>3. key[f] # 0 /\ sock[f] \in Conn /\ Wire(key[f]) \in Nat
  BY <1>t, <1>2, WireType DEF Isolated, Unborn, Born
<1>4. ASSUME NEW g \in Fetch, NEW d \in Conn PROVE Beside(s2c[d], s2c'[d], g, DownKinds, DownFrame)
  <2> DEFINE fr == Frame(RESPONSE_ERROR, Wire(key[f]), f, 0)
  <2>1. UNCHANGED s2c \/ SendDown(sock[f], <<fr>>)
    BY DEF ExecRefuses, ExecInterrupted, ExecCancelled, InterruptedKind, netVars
  <2>2. fr \in DownFrame /\ fr.kind = RESPONSE_ERROR
    BY <1>3, FrameTypes DEF Frame
  <2> HIDE DEF fr
  <2> QED
    BY <1>3, <2>1, <2>2, ErrorBeside DEF Beside
<1>5. \A g \in Fetch : Aside(g)
  BY <1>1, <1>2 DEF Aside
<1>6. \A g \in Fetch : key[g] # 0 => Beside(s2c[sock[g]], s2c'[sock[g]], g, DownKinds, DownFrame)
  BY <1>4 DEF Isolated, Born
<1> QED
  BY <1>1, <1>5, <1>6, AllBeside

\* What a frame of one response does: the others see nothing.
LEMMA ExecutorSends ==
  ASSUME TypeOK, Isolated, Responses, NEW f \in Fetch, phase[f] \in {"executing", "responding"},
         UNCHANGED <<pageVars, link>>, \A g \in Fetch : g # f => phase'[g] = phase[g] /\ produced'[g] = produced[g],
         NEW k \in {RESPONSE, RESPONSE_CHUNK, RESPONSE_END}, NEW n \in Nat,
         SendDown(sock[f], <<Frame(k, Wire(key[f]), f, n)>>)
  PROVE  /\ UNCHANGED <<pending, key, sock, got, answer, stream, link>>
         /\ key[f] # 0 /\ s2c[sock[f]] \in Seq(DownFrame)
         /\ \E fr \in DownFrame : Is(fr, f, k) /\ fr.n = n
               /\ s2c'[sock[f]] = IF link[sock[f]] = "up" THEN Append(s2c[sock[f]], fr) ELSE s2c[sock[f]]
         /\ \A g \in Fetch : g # f => Unanswered(g)' /\ Answering(g)' /\ Delivered(g)'
<1>t. key \in [Fetch -> Nat] /\ s2c \in [Conn -> Seq(DownFrame)]
  BY DEF TypeOK
<1>1. UNCHANGED <<pending, key, sock, got, answer, stream, link>>
  BY DEF pageVars, callVars, viewVars
<1>2. key[f] # 0 /\ sock[f] \in Conn /\ Wire(key[f]) \in Nat
  BY <1>t, WireType DEF Isolated, Unborn, Born
<1> DEFINE fr == Frame(k, Wire(key[f]), f, n)
<1>3. fr \in DownFrame /\ Is(fr, f, k) /\ fr.n = n /\ fr.of = f
  <2>1. fr \in DownFrame
    BY <1>2, FrameTypes
  <2> QED
    BY <2>1 DEF Frame, Is
<1> HIDE DEF fr
<1>4. \A c \in Conn : s2c'[c] = IF c = sock[f] /\ link[sock[f]] = "up" THEN Append(s2c[c], fr) ELSE s2c[c]
  BY <1>2, <1>3, SendOne DEF fr
<1>5. ASSUME NEW g \in Fetch, g # f PROVE Unanswered(g)' /\ Answering(g)' /\ Delivered(g)'
  <2>1. ~Relevant(fr, g, DownKinds)
    BY <1>3, <1>5 DEF Relevant
  <2>2. Unanswered(g) /\ Answering(g) /\ Delivered(g) /\ Born(g)
    BY DEF Isolated, Responses
  <2>3. key[g] # 0 => Beside(s2c[sock[g]], s2c'[sock[g]], g, DownKinds, DownFrame)
    BY <1>t, <1>3, <1>4, <2>1, <2>2, BesideForms DEF Born
  <2>4. Aside(g)
    BY <1>1, <1>5 DEF Aside
  <2> QED
    BY <1>1, <2>2, <2>3, <2>4, ResponseBeside
<1> QED
  BY <1>t, <1>1, <1>2, <1>3, <1>4, <1>5

\* The head of a response comes first.
LEMMA RespondsResponses ==
  ASSUME TypeOK, Isolated, Responses, NEW f \in Fetch, ExecResponds(f)
  PROVE  Responses'
<1>1. /\ phase[f] = "executing" /\ phase' = [phase EXCEPT ![f] = "responding"]
      /\ produced' = produced /\ UNCHANGED <<pageVars, link>>
  BY DEF ExecResponds, Executing
<1>2. PICK s \in Nat : SendDown(sock[f], <<Frame(RESPONSE, Wire(key[f]), f, s)>>)
  BY MuxAssumption DEF ExecResponds, EMPTY, BODY, UNUSABLE, SWITCHING
<1>3. phase'[f] = "responding" /\ \A g \in Fetch : g # f => phase'[g] = phase[g]
  BY <1>1 DEF TypeOK
<1> DEFINE q == s2c[sock[f]]
           up == link[sock[f]] = "up"
<1>4. /\ UNCHANGED <<pending, key, sock, got, answer, stream, link>>
      /\ key[f] # 0 /\ q \in Seq(DownFrame)
      /\ \E fr \in DownFrame : Is(fr, f, RESPONSE) /\ s2c'[sock[f]] = IF up THEN Append(q, fr) ELSE q
      /\ \A g \in Fetch : g # f => Unanswered(g)' /\ Answering(g)' /\ Delivered(g)'
  BY <1>1, <1>2, <1>3, ExecutorSends
<1>5. PICK fr \in DownFrame : Is(fr, f, RESPONSE) /\ s2c'[sock[f]] = IF up THEN Append(q, fr) ELSE q
  BY <1>4
<1>6. /\ stream[f] = "none" /\ produced[f] = 0 /\ got[f] = <<>> /\ Len(got[f]) = 0
      /\ \A i \in DOMAIN q : ~Relevant(q[i], f, DownKinds)
  BY <1>1, <1>4 DEF Responses, Unanswered
<1>7. Unanswered(f)' /\ Delivered(f)'
  BY <1>1, <1>3, <1>4, <1>6 DEF Unanswered, Delivered, Responses
<1>8. Answering(f)'
  <2> DEFINE t == s2c'[sock[f]]
  <2> HIDE DEF q
  <2>1. ~Has(q, f, RESPONSE_END)
    BY <1>6, DownFramings, FlowNone
  <2>2. ~Has(t, f, RESPONSE_END)
    <3>1. ~Is(fr, f, RESPONSE_END)
      BY <1>5 DEF Is, RESPONSE, RESPONSE_END
    <3> QED
      BY SMTT(30), <1>4, <1>5, <2>1, <3>1, AppendHas
  <2>3. ASSUME up PROVE Has(t, f, RESPONSE)
    <3>1. Has(Append(q, fr), f, RESPONSE)
      BY <1>4, <1>5, AppendHas
    <3> QED
      BY <1>5, <2>3, <3>1
  <2>4. \A live \in BOOLEAN : Flow(Append(q, fr), f, DownKinds, 0, 0, live, FALSE)
    BY <1>4, <1>5, <1>6, DownFramings, FlowAppendFirst
  <2>5. \A live : Flow(q, f, DownKinds, 0, 0, live, FALSE)
    BY <1>6, DownFramings, FlowNone
  <2>6. Flow(t, f, DownKinds, 0, 0, up, FALSE)
    BY <1>5, <2>4, <2>5
  <2>7. (stream[f] # "none") = FALSE
    BY <1>6
  <2>8. DownFlow(f)'
    BY <1>1, <1>4, <1>6, <2>6, <2>7 DEF DownFlow
  <2> QED
    BY <1>4, <1>6, <2>2, <2>3, <2>8 DEF Answering
<1> QED
  BY <1>4, <1>7, <1>8 DEF Responses

\* Each chunk follows the one before.
LEMMA StreamsResponses ==
  ASSUME TypeOK, Isolated, Responses, NEW f \in Fetch, ExecStreams(f)
  PROVE  Responses'
<1>t. got \in [Fetch -> Seq(Fetch \X Nat)] /\ produced \in [Fetch -> Nat]
  BY DEF TypeOK
<1>1. /\ phase[f] = "responding" /\ phase' = phase
      /\ produced' = [produced EXCEPT ![f] = @ + 1] /\ UNCHANGED <<pageVars, link>>
      /\ SendDown(sock[f], <<Frame(RESPONSE_CHUNK, Wire(key[f]), f, produced[f] + 1)>>)
  BY DEF ExecStreams, Executing, TypeOK
<1>2. /\ produced[f] \in Nat /\ produced[f] + 1 \in Nat /\ produced'[f] = produced[f] + 1
      /\ \A g \in Fetch : g # f => produced'[g] = produced[g]
  <2>1. produced[f] \in Nat
    BY <1>t
  <2> QED
    BY <1>t, <1>1, <2>1
<1> DEFINE q == s2c[sock[f]]
           t == s2c'[sock[f]]
           lo == Len(got[f])
           up == link[sock[f]] = "up"
           opened == stream[f] # "none"
<1>3. /\ UNCHANGED <<pending, key, sock, got, answer, stream, link>>
      /\ key[f] # 0 /\ q \in Seq(DownFrame)
      /\ \E fr \in DownFrame : /\ Is(fr, f, RESPONSE_CHUNK) /\ fr.n = produced[f] + 1
                               /\ t = IF up THEN Append(q, fr) ELSE q
      /\ \A g \in Fetch : g # f => Unanswered(g)' /\ Answering(g)' /\ Delivered(g)'
  BY <1>1, <1>2, ExecutorSends
<1>4. PICK fr \in DownFrame : /\ Is(fr, f, RESPONSE_CHUNK) /\ fr.n = produced[f] + 1
                              /\ t = IF up THEN Append(q, fr) ELSE q
  BY <1>3
<1>5. Answering(f) /\ Delivered(f)
  BY DEF Responses
<1>6. lo \in Nat /\ lo <= produced[f] /\ up \in BOOLEAN /\ opened \in BOOLEAN
  BY <1>t, <1>5 DEF Delivered
<1>7. Unanswered(f)'
  BY <1>1 DEF Unanswered
<1>8. Delivered(f)'
  BY <1>1, <1>2, <1>3, <1>5, <1>6 DEF Delivered
<1>9. ~Has(q, f, RESPONSE_END)
  BY <1>1, <1>3, <1>5 DEF Answering
<1>10. /\ Is(fr, f, DownKinds.chunk)
       /\ ~Is(fr, f, RESPONSE) /\ ~Is(fr, f, RESPONSE_END)
  BY <1>4, DownFramings DEF Is, RESPONSE, RESPONSE_CHUNK, RESPONSE_END
<1>s. /\ f \in pending /\ opened => ~Has(q, f, RESPONSE)
      /\ f \in pending /\ stream[f] \in {"none", "open"} =>
            /\ Flow(q, f, DownKinds, lo, produced[f], up, opened)
            /\ up /\ ~opened => Has(q, f, RESPONSE)
  BY <1>1, <1>3, <1>5 DEF Answering, DownFlow
<1>g. /\ Has(t, f, RESPONSE_END) => phase[f] = "ended"
      /\ f \in pending /\ opened => ~Has(t, f, RESPONSE)
      /\ f \in pending /\ stream[f] \in {"none", "open"} =>
            /\ Flow(t, f, DownKinds, lo, produced[f] + 1, up, opened)
            /\ up /\ ~opened => Has(t, f, RESPONSE)
      => Answering(f)'
  BY <1>1, <1>2, <1>3 DEF Answering, DownFlow
<1> HIDE DEF q, t, lo, up, opened
<1>11. /\ Has(t, f, RESPONSE_END) <=> Has(q, f, RESPONSE_END)
       /\ Has(t, f, RESPONSE) <=> Has(q, f, RESPONSE)
  BY <1>3, <1>4, <1>10, AppendHas
<1>12. ASSUME f \in pending, stream[f] \in {"none", "open"}
       PROVE  Flow(t, f, DownKinds, lo, produced[f] + 1, up, opened)
  <2>1. CASE up
    <3>1. up = TRUE
      BY <1>6, <2>1
    <3>2. Flow(q, f, DownKinds, lo, produced[f], TRUE, opened)
      BY <1>s, <1>12, <3>1
    <3>3. opened \/ Has(q, f, DownKinds.first)
      BY <1>s, <1>12, <2>1, DownFramings
    <3>4. Flow(Append(q, fr), f, DownKinds, lo, produced[f] + 1, TRUE, opened)
      BY <1>2, <1>3, <1>4, <1>6, <1>9, <1>10, <3>2, <3>3, DownFramings, FlowAppendChunk
    <3> QED
      BY <1>4, <3>1, <3>4
  <2>2. CASE ~up
    <3>1. up = FALSE
      BY <1>6, <2>2
    <3>2. Flow(q, f, DownKinds, lo, produced[f], FALSE, opened)
      BY <1>s, <1>12, <3>1
    <3>3. Flow(q, f, DownKinds, lo, produced[f] + 1, FALSE, opened)
      BY <1>2, <1>3, <1>6, <1>9, <3>2, DownFramings, FlowLost
    <3> QED
      BY <1>4, <3>1, <3>3
  <2> QED
    BY <2>1, <2>2
<1>13. Answering(f)'
  BY <1>9, <1>11, <1>12, <1>s, <1>g
<1> QED
  BY <1>3, <1>7, <1>8, <1>13 DEF Responses

\* The end of a response comes last.
LEMMA EndsResponses ==
  ASSUME TypeOK, Isolated, Responses, NEW f \in Fetch, ExecEnds(f)
  PROVE  Responses'
<1>t. got \in [Fetch -> Seq(Fetch \X Nat)] /\ produced \in [Fetch -> Nat]
  BY DEF TypeOK
<1>1. /\ phase[f] = "responding" /\ phase' = [phase EXCEPT ![f] = "ended"]
      /\ produced' = produced /\ UNCHANGED <<pageVars, link>>
      /\ SendDown(sock[f], <<Frame(RESPONSE_END, Wire(key[f]), f, 0)>>)
  BY DEF ExecEnds, Executing
<1>2. phase'[f] = "ended" /\ \A g \in Fetch : g # f => phase'[g] = phase[g]
  BY <1>1 DEF TypeOK
<1> DEFINE q == s2c[sock[f]]
           t == s2c'[sock[f]]
           lo == Len(got[f])
           up == link[sock[f]] = "up"
           opened == stream[f] # "none"
<1>3. /\ UNCHANGED <<pending, key, sock, got, answer, stream, link>>
      /\ key[f] # 0 /\ q \in Seq(DownFrame)
      /\ \E fr \in DownFrame : Is(fr, f, RESPONSE_END) /\ t = IF up THEN Append(q, fr) ELSE q
      /\ \A g \in Fetch : g # f => Unanswered(g)' /\ Answering(g)' /\ Delivered(g)'
  BY <1>1, <1>2, ExecutorSends
<1>4. PICK fr \in DownFrame : Is(fr, f, RESPONSE_END) /\ t = IF up THEN Append(q, fr) ELSE q
  BY <1>3
<1>5. Answering(f) /\ Delivered(f)
  BY DEF Responses
<1>6. lo \in Nat /\ produced[f] \in Nat /\ up \in BOOLEAN /\ opened \in BOOLEAN
  BY <1>t
<1>7. Unanswered(f)'
  BY <1>2 DEF Unanswered
<1>8. Delivered(f)'
  BY <1>1, <1>2, <1>3, <1>5 DEF Delivered
<1>9. Is(fr, f, DownKinds.last) /\ ~Is(fr, f, RESPONSE)
  BY <1>4, DownFramings DEF Is, RESPONSE, RESPONSE_END
<1>s. /\ f \in pending /\ opened => ~Has(q, f, RESPONSE)
      /\ f \in pending /\ stream[f] \in {"none", "open"} =>
            /\ Flow(q, f, DownKinds, lo, produced[f], up, opened)
            /\ up /\ ~opened => Has(q, f, RESPONSE)
  BY <1>1, <1>3, <1>5 DEF Answering, DownFlow
<1>g. /\ f \in pending /\ opened => ~Has(t, f, RESPONSE)
      /\ f \in pending /\ stream[f] \in {"none", "open"} =>
            Flow(t, f, DownKinds, lo, produced[f], up, opened)
      => Answering(f)'
  BY <1>1, <1>2, <1>3 DEF Answering, DownFlow
<1> HIDE DEF q, t, lo, up, opened
<1>10. Has(t, f, RESPONSE) <=> Has(q, f, RESPONSE)
  BY <1>3, <1>4, <1>9, AppendHas
<1>11. ASSUME f \in pending, stream[f] \in {"none", "open"}
       PROVE  Flow(t, f, DownKinds, lo, produced[f], up, opened)
  <2>1. CASE up
    <3>1. up = TRUE
      BY <1>6, <2>1
    <3>2. Flow(q, f, DownKinds, lo, produced[f], TRUE, opened)
      BY <1>s, <1>11, <3>1
    <3>3. opened \/ Has(q, f, DownKinds.first)
      BY <1>s, <1>11, <2>1, DownFramings
    <3>4. Flow(Append(q, fr), f, DownKinds, lo, produced[f], TRUE, opened)
      BY <1>3, <1>4, <1>6, <1>9, <3>2, <3>3, DownFramings, FlowAppendLast
    <3> QED
      BY <1>4, <3>1, <3>4
  <2>2. CASE ~up
    BY <1>4, <1>s, <1>11, <2>2
  <2> QED
    BY <2>1, <2>2
<1>12. Answering(f)'
  BY <1>10, <1>11, <1>s, <1>g
<1> QED
  BY <1>3, <1>7, <1>8, <1>12 DEF Responses

----------------------------------------------------------------------------
\* Every step keeps responses whole.
LEMMA StepResponses ==
  NoWrap /\ TypeOK /\ Isolated /\ Uploads /\ Responses /\ [Next]_vars => Responses'
<1> SUFFICES ASSUME NoWrap, TypeOK, Isolated, Uploads, Responses, [Next]_vars PROVE Responses'
  OBVIOUS
<1>1. ASSUME NEW f \in Fetch, CallsOn(f) \/ Begin(f) PROVE Responses'
  BY <1>1, CallsResponses, BeginResponses
<1>2. CASE Events
  BY <1>2, OpensResponses, ClosesResponses, ResponseResponses, ChunkResponses, EndResponses,
     ErrorResponses DEF Events
<1>3. ASSUME NEW c \in Conn, Reads(c) PROVE Responses'
  BY <1>3, ReadsResponses
<1>4. ASSUME NEW f \in Fetch, Executes(f) PROVE Responses'
  BY <1>4, QuietResponses, RespondsResponses, StreamsResponses, EndsResponses DEF Executes
<1>5. CASE \E c \in Conn : LinkDrops(c)
  BY <1>5, DropsResponses
<1>6. CASE UNCHANGED vars
  <2>1. UNCHANGED <<key, sock, pending, link, phase, produced, got, answer, stream, s2c>>
    BY <1>6 DEF vars, netVars, pageVars, callVars, viewVars, serverVars
  <2> QED
    BY <2>1 DEF Responses, Unanswered, Answering, Delivered, DownFlow
<1> QED
  BY <1>1, <1>2, <1>3, <1>4, <1>5, <1>6 DEF Next, Page, Server, CallsOn, Events, Reads, Executes

\* Nothing is answered at first.
LEMMA InitResponses == Init => Responses
  BY DEF Init, Responses, Unanswered, Answering, Delivered

\* The conjunction of the parts is inductive while identifiers do not wrap.
THEOREM Invariant ==
  ASSUME NoWrap
  PROVE  Spec => []IInv
<1>1. Init => IInv
  BY InitTyped, InitIsolated, InitUploads, InitResponses DEF IInv
<1>2. IInv /\ [Next]_vars => IInv'
  BY NoWrap, StepTyped, StepIsolated, StepUploads, StepResponses DEF IInv
<1> QED
  BY <1>1, <1>2, PTL DEF Spec

\* A call is answered by the response to its own request, and its stream holds
\* that response's chunks in order from the first (runtime.js handleFrame,
\* mux.go muxWriter), for any calls, statuses and connections.
THEOREM AnswersAreOwn ==
  ASSUME NoWrap
  PROVE  Spec => []AnswersOwnRequest
<1>1. IInv => AnswersOwnRequest
  BY DEF IInv, Responses, Delivered, AnswersOwnRequest
<1> QED
  BY <1>1, Invariant, PTL

\* A stream that closes normally carries the whole response (mux.go:174-177,
\* runtime.js onclose), whatever is interrupted or lost.
THEOREM ClosedIsComplete ==
  ASSUME NoWrap
  PROVE  Spec => []ClosedMeansComplete
<1>1. IInv => ClosedMeansComplete
  BY DEF IInv, Responses, Delivered, ClosedMeansComplete
<1> QED
  BY <1>1, Invariant, PTL

=============================================================================
