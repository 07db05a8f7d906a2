-------------------------------- MODULE Mux --------------------------------
(***************************************************************************)
(* The request multiplexer: window.fetch of a proxied page                 *)
(* (internal/proxy/runtime.js, muxFetch / muxSocket / handleFrame) sends   *)
(* requests as numbered frame streams over one WebSocket, and the server   *)
(* (internal/proxy/mux.go, serveMux / executeMux) collects each request,   *)
(* runs it in a goroutine of its own and streams the response back.        *)
(*                                                                         *)
(* One page makes the calls in Fetch, each once.  A request body is a      *)
(* sequence of equal chunks; the payload of chunk n of call f is <<f, n>>, *)
(* and the START metadata and the response to it carry f as well, so that  *)
(* mixing two streams shows.  What an upstream answers is arbitrary.       *)
(***************************************************************************)
EXTENDS Naturals, Sequences, FiniteSets

CONSTANTS Fetch,      \* the muxFetch calls of the page
          BodyLen,    \* BodyLen[f]: chunks in the request body of f (0: no body)
          Endless,    \* calls whose response body never ends (server-sent events)
          Status,     \* what upstreams answer with, see EMPTY
          MaxBody,    \* maxMuxRequestBody, in chunks
          IdSpace,    \* number of stream identifiers on the wire (2^32)
          MaxId,      \* bound on nextID: how many calls a page lives for
          MaxChunks,  \* bound on the chunks of one response
          MaxConn     \* bound on the WebSockets the page opens

\* What the page makes of a status: a Response without a body (204, 205, 304), one
\* with a body, or none, since `new Response` throws outside of 200..599: for 101
\* without a stream, for any other (above 599) with a stream made already.
EMPTY == 0
BODY == 1
UNUSABLE == 2
SWITCHING == 3

ASSUME MuxAssumption ==
    /\ Status \subseteq {EMPTY, BODY, UNUSABLE, SWITCHING}
    /\ BodyLen \in [Fetch -> Nat]
    /\ Endless \subseteq Fetch
    /\ MaxBody \in Nat /\ MaxId \in Nat /\ MaxChunks \in Nat /\ MaxConn \in Nat
    /\ IdSpace \in Nat \ {0}

Conn == 1..MaxConn

VARIABLES
    \* the page
    nextID, pending, socket, conn,
    pc, sock, key, sent, promise, answer, stream, got,
    \* the connections
    link, c2s, s2c,
    \* the server
    serving, phase, body, produced

callVars == <<pc, sock, key, sent>>
viewVars == <<promise, answer, stream, got>>
pageVars == <<nextID, pending, socket, conn, callVars, viewVars>>
netVars == <<link, c2s, s2c>>
serverVars == <<serving, phase, body, produced>>
vars == <<pageVars, netVars, serverVars>>

START == 1
CHUNK == 2
END == 3
CANCEL == 4
RESPONSE == 11
RESPONSE_CHUNK == 12
RESPONSE_END == 13
RESPONSE_ERROR == 14

Frame(kind, id, f, n) == [kind |-> kind, id |-> id, of |-> f, n |-> n]
UpFrame == [kind : {START, CHUNK, END, CANCEL}, id : Nat, of : Fetch, n : Nat]
DownFrame == [kind : {RESPONSE, RESPONSE_CHUNK, RESPONSE_END, RESPONSE_ERROR},
              id : Nat, of : Fetch, n : Nat]

\* setUint32 writes the identifier modulo 2^32.
Wire(k) == k % IdSpace

----------------------------------------------------------------------------
(* Identifier allocation: `nextID++ >>> 0 || nextID++`.  Zero is skipped,  *)
(* but the second operand is not truncated.                                *)

KeyNeverAdvanced(n) == 1
Key(n) == IF n % IdSpace # 0 THEN n % IdSpace ELSE n + 1
NextIDStuck(n) == n
NextIDAfter(n) == IF n % IdSpace # 0 THEN n + 1 ELSE n + 2

(* Does one more chunk fit?  state.body.Len()+len(payload) > maxMuxRequestBody *)
FitsOffByOne(b) == Len(b) <= MaxBody
Fits(b) == Len(b) + 1 <= MaxBody

(* What becomes of a stream whose body grew too large: cancelled, deleted  *)
(* from states, and answered with error.proxy.mux.body_too_large.          *)
OverflowKept == "collecting"
Overflow == "failed"
OverflowSilent(f) == <<>>
OverflowReply(f) == <<Frame(RESPONSE_ERROR, Wire(key[f]), f, 0)>>

(* The frame that ends a response whose upstream body failed midway.       *)
InterruptedAsEnd == RESPONSE_END
InterruptedKind == RESPONSE_ERROR

(* Every stream's context derives from the request's, which ends with      *)
(* serveMux.                                                               *)
Detached(f) == FALSE
ContextDone(f) == serving[sock[f]] = "returned"

----------------------------------------------------------------------------
Init ==
    /\ nextID = 1 /\ pending = {} /\ socket = "none" /\ conn = 0
    /\ pc = [f \in Fetch |-> "idle"]
    /\ sock = [f \in Fetch |-> 0]
    /\ key = [f \in Fetch |-> 0]
    /\ sent = [f \in Fetch |-> 0]
    /\ promise = [f \in Fetch |-> "pending"]
    /\ answer = [f \in Fetch |-> {}]
    /\ stream = [f \in Fetch |-> "none"]
    /\ got = [f \in Fetch |-> <<>>]
    /\ link = [c \in Conn |-> "idle"]
    /\ c2s = [c \in Conn |-> <<>>]
    /\ s2c = [c \in Conn |-> <<>>]
    /\ serving = [c \in Conn |-> "idle"]
    /\ phase = [f \in Fetch |-> "none"]
    /\ body = [f \in Fetch |-> <<>>]
    /\ produced = [f \in Fetch |-> 0]

\* A frame handed to a connection that is down goes nowhere.
SendUp(c, frames) ==
    c2s' = IF link[c] = "up" THEN [c2s EXCEPT ![c] = @ \o frames] ELSE c2s
SendDown(c, frames) ==
    s2c' = IF link[c] = "up" THEN [s2c EXCEPT ![c] = @ \o frames] ELSE s2c

----------------------------------------------------------------------------
(* The page.                                                               *)

\* muxFetch up to `await muxSocket()`; the first call opens the socket.
Fetching(f) ==
    /\ pc[f] = "idle"
    /\ pc' = [pc EXCEPT ![f] = "await"]
    /\ \/ /\ socket # "none"
          /\ UNCHANGED <<socket, conn>>
       \/ /\ socket = "none" /\ conn < MaxConn
          /\ socket' = "connecting" /\ conn' = conn + 1
    /\ UNCHANGED <<nextID, pending, sock, key, sent, viewVars, netVars, serverVars>>

\* The upgrade succeeds: the page sees onopen, the server runs serveMux.
SocketOpens ==
    /\ socket = "connecting"
    /\ socket' = "open"
    /\ link' = [link EXCEPT ![conn] = "up"]
    /\ serving' = [serving EXCEPT ![conn] = "reading"]
    /\ UNCHANGED <<nextID, pending, conn, callVars, viewVars, c2s, s2c,
                   phase, body, produced>>

\* The upgrade fails: onerror rejects every call awaiting the socket, onclose
\* forgets the socket.
SocketFails ==
    /\ socket = "connecting"
    /\ socket' = "none"
    /\ pc' = [f \in Fetch |-> IF pc[f] = "await" THEN "threw" ELSE pc[f]]
    /\ UNCHANGED <<nextID, pending, conn, sock, key, sent, viewVars, netVars, serverVars>>

\* muxFetch after the await: allocate an identifier, register the call, send
\* START, and END at once when there is no body.
Begin(f) ==
    LET k == Key(nextID) IN
    /\ pc[f] = "await" /\ socket = "open"
    /\ nextID <= MaxId
    /\ nextID' = NextIDAfter(nextID)
    /\ key' = [key EXCEPT ![f] = k]
    /\ sock' = [sock EXCEPT ![f] = conn]
    /\ pending' = {g \in pending : key[g] # k} \cup {f}
    /\ SendUp(conn, IF BodyLen[f] = 0
                    THEN <<Frame(START, Wire(k), f, 0), Frame(END, Wire(k), f, 0)>>
                    ELSE <<Frame(START, Wire(k), f, 0)>>)
    /\ pc' = [pc EXCEPT ![f] = IF BodyLen[f] = 0 THEN "returned" ELSE "upload"]
    /\ UNCHANGED <<socket, conn, sent, viewVars, link, s2c, serverVars>>

\* One turn of the upload loop: reader.read() yields the next chunk.
Upload(f) ==
    /\ pc[f] = "upload" /\ sent[f] < BodyLen[f]
    /\ sent' = [sent EXCEPT ![f] = @ + 1]
    /\ SendUp(sock[f], <<Frame(CHUNK, Wire(key[f]), f, sent[f] + 1)>>)
    /\ UNCHANGED <<nextID, pending, socket, conn, pc, sock, key, viewVars, link, s2c, serverVars>>

\* The reader is done: send END and return the response promise.
UploadEnds(f) ==
    /\ pc[f] = "upload" /\ sent[f] = BodyLen[f]
    /\ pc' = [pc EXCEPT ![f] = "returned"]
    /\ SendUp(sock[f], <<Frame(END, Wire(key[f]), f, 0)>>)
    /\ UNCHANGED <<nextID, pending, socket, conn, sock, key, sent, viewVars, link, s2c, serverVars>>

\* The page's body stream errors: muxFetch throws; nothing tells the server.
UploadThrows(f) ==
    /\ pc[f] = "upload"
    /\ pc' = [pc EXCEPT ![f] = "threw"]
    /\ UNCHANGED <<nextID, pending, socket, conn, sock, key, sent, viewVars, netVars, serverVars>>

\* Calls whose socket is ready continue before the next event is handled.
Drained == socket = "open" => \A f \in Fetch : pc[f] # "await"

\* The page cancels the response stream it was given.
CancelStream(f) ==
    /\ stream[f] = "open" /\ promise[f] = "resolved" /\ pc[f] = "returned"
    /\ stream' = [stream EXCEPT ![f] = "cancelled"]
    /\ SendUp(sock[f], <<Frame(CANCEL, Wire(key[f]), f, 0)>>)
    /\ UNCHANGED <<nextID, pending, socket, conn, callVars, promise, answer, got,
                   link, s2c, serverVars>>

\* request.fail: error the stream if there is one, else reject the promise.
\* ("nobody": a RESPONSE came that has no stream.)
Failed(P) ==
    /\ stream' = [f \in Fetch |-> IF f \in P /\ stream[f] = "open" THEN "errored" ELSE stream[f]]
    /\ promise' = [f \in Fetch |-> IF f \in P /\ promise[f] = "pending" /\ stream[f] \in {"none", "nobody"}
                                   THEN "rejected" ELSE promise[f]]

\* The message event to be handled next, if there is one.
Message == IF socket = "open" /\ s2c[conn] # <<>> THEN {Head(s2c[conn])} ELSE {}

Receive(kind, fr) ==
    /\ Drained
    /\ fr.kind = kind
    /\ s2c' = [s2c EXCEPT ![conn] = Tail(@)]
    /\ UNCHANGED <<nextID, socket, conn, callVars, link, c2s, serverVars>>

\* pending.get(id)
Addressed(fr) == {f \in pending : key[f] = fr.id}

\* request.start: make the stream, if the status has one, then settle the
\* promise with a Response; a status `new Response` refuses throws in between.
Bodyless(status) == status \in {EMPTY, SWITCHING}
AcceptedWithBody(status) == status = BODY
Accepted(status) == status \in {EMPTY, BODY}
HandleResponse ==
    \E fr \in Message :
        /\ Receive(RESPONSE, fr)
        /\ LET first == {f \in Addressed(fr) : promise[f] = "pending" /\ Accepted(fr.n)} IN
           /\ promise' = [f \in Fetch |-> IF f \in first THEN "resolved" ELSE promise[f]]
           /\ answer' = [f \in Fetch |-> IF f \in first THEN {fr.of} ELSE answer[f]]
           /\ stream' = [f \in Fetch |-> IF f \in Addressed(fr)
                                         THEN (IF Bodyless(fr.n) THEN "nobody" ELSE "open")
                                         ELSE stream[f]]
        /\ UNCHANGED <<pending, got>>

\* request.chunk: enqueue; a cancelled stream throws, which changes nothing.
HandleChunk ==
    \E fr \in Message :
        /\ Receive(RESPONSE_CHUNK, fr)
        /\ got' = [f \in Fetch |-> IF f \in Addressed(fr) /\ stream[f] = "open"
                                   THEN Append(got[f], <<fr.of, fr.n>>) ELSE got[f]]
        /\ UNCHANGED <<pending, promise, answer, stream>>

\* request.end, then pending.delete: closing a cancelled stream throws, and the
\* entry stays.
HandleEnd ==
    \E fr \in Message :
        /\ Receive(RESPONSE_END, fr)
        /\ stream' = [f \in Fetch |-> IF f \in Addressed(fr) /\ stream[f] = "open"
                                      THEN "closed" ELSE stream[f]]
        /\ pending' = pending \ {f \in Addressed(fr) : stream[f] # "cancelled"}
        /\ UNCHANGED <<promise, answer, got>>

HandleError ==
    \E fr \in Message :
        /\ Receive(RESPONSE_ERROR, fr)
        /\ Failed(Addressed(fr))
        /\ pending' = pending \ Addressed(fr)
        /\ UNCHANGED <<answer, got>>

\* onclose: fail every pending call, clear the table, forget the socket.  What
\* was still on its way to the page is lost.
ForgottenOnClose == {}
FailedOnClose == pending
SocketCloses ==
    /\ socket = "open" /\ Drained
    /\ link[conn] = "down"
    /\ Failed(FailedOnClose)
    /\ pending' = {} /\ socket' = "none"
    /\ s2c' = [s2c EXCEPT ![conn] = <<>>]
    /\ UNCHANGED <<nextID, conn, callVars, answer, got, link, c2s, serverVars>>

----------------------------------------------------------------------------
(* The connection: it may drop at any moment; each end notices later, after *)
(* it has read as much of what was in flight as still arrives.             *)

LinkDrops(c) ==
    /\ link[c] = "up"
    /\ link' = [link EXCEPT ![c] = "down"]
    /\ UNCHANGED <<pageVars, c2s, s2c, serverVars>>

----------------------------------------------------------------------------
(* The server's read loop, one frame at a time.                            *)

\* states[id] of connection c
States(c, id) == {f \in Fetch : phase[f] = "collecting" /\ sock[f] = c /\ Wire(key[f]) = id}

\* What conn.Read returns next, if anything has arrived.
Arrived(c) == IF serving[c] = "reading" /\ c2s[c] # <<>> THEN {Head(c2s[c])} ELSE {}

Read(c, kind, fr) ==
    /\ fr.kind = kind
    /\ c2s' = [c2s EXCEPT ![c] = Tail(@)]
    /\ UNCHANGED <<pageVars, link, serving, produced>>

\* (A START whose metadata is invalid is not among what the page sends: a Request has a
\* method and a URL.)
OnStart(c) ==
    \E fr \in Arrived(c) :
        /\ Read(c, START, fr)
        /\ \/ /\ States(c, fr.id) = {}
              /\ phase' = [phase EXCEPT ![fr.of] = "collecting"]
              /\ UNCHANGED s2c
           \/ /\ States(c, fr.id) # {}    \* error.proxy.mux.duplicate_stream
              /\ phase' = [phase EXCEPT ![fr.of] = "failed"]
              /\ SendDown(c, <<Frame(RESPONSE_ERROR, fr.id, fr.of, 0)>>)
        /\ UNCHANGED body

OnChunk(c) ==
    \E fr \in Arrived(c) :
        /\ Read(c, CHUNK, fr)
        /\ \/ /\ States(c, fr.id) = {}
              /\ UNCHANGED <<phase, body, s2c>>
           \/ \E f \in States(c, fr.id) :
                /\ Fits(body[f])
                /\ body' = [body EXCEPT ![f] = Append(@, <<fr.of, fr.n>>)]
                /\ UNCHANGED <<phase, s2c>>
           \/ \E f \in States(c, fr.id) :
                /\ ~Fits(body[f])
                /\ phase' = [phase EXCEPT ![f] = Overflow]
                /\ SendDown(c, OverflowReply(f))
                /\ UNCHANGED body

\* The stream leaves states and executeMux runs in a new goroutine.
OnEnd(c) ==
    \E fr \in Arrived(c) :
        /\ Read(c, END, fr)
        /\ phase' = [f \in Fetch |-> IF f \in States(c, fr.id) THEN "executing" ELSE phase[f]]
        /\ UNCHANGED <<body, s2c>>

\* Only a stream that is still collecting is in states.
OnCancel(c) ==
    \E fr \in Arrived(c) :
        /\ Read(c, CANCEL, fr)
        /\ phase' = [f \in Fetch |-> IF f \in States(c, fr.id) THEN "dropped" ELSE phase[f]]
        /\ UNCHANGED <<body, s2c>>

\* conn.Read fails: serveMux returns, its defers cancel what was collecting,
\* and the request context ends for every executor.
ReadFails(c) ==
    /\ serving[c] = "reading" /\ link[c] = "down"
    /\ serving' = [serving EXCEPT ![c] = "returned"]
    /\ c2s' = [c2s EXCEPT ![c] = <<>>]
    /\ phase' = [f \in Fetch |-> IF phase[f] = "collecting" /\ sock[f] = c
                                 THEN "dropped" ELSE phase[f]]
    /\ UNCHANGED <<pageVars, link, s2c, body, produced>>

----------------------------------------------------------------------------
(* executeMux, one goroutine per stream; muxWriter makes each frame one    *)
(* message, and frames of different streams interleave.                    *)

Executing(f, from, to) ==
    /\ phase[f] = from
    /\ phase' = [phase EXCEPT ![f] = to]
    /\ UNCHANGED <<pageVars, link, c2s, serving, body>>

\* Unsupported method, target denied, no upstream answer, too many redirects.
ExecRefuses(f) ==
    /\ Executing(f, "executing", "failed")
    /\ SendDown(sock[f], <<Frame(RESPONSE_ERROR, Wire(key[f]), f, 0)>>)
    /\ UNCHANGED produced

ExecResponds(f) ==
    /\ Executing(f, "executing", "responding")
    /\ \E s \in Status : SendDown(sock[f], <<Frame(RESPONSE, Wire(key[f]), f, s)>>)
    /\ UNCHANGED produced

ExecStreams(f) ==
    /\ produced[f] < MaxChunks
    /\ Executing(f, "responding", "responding")
    /\ produced' = [produced EXCEPT ![f] = @ + 1]
    /\ SendDown(sock[f], <<Frame(RESPONSE_CHUNK, Wire(key[f]), f, produced[f] + 1)>>)

ExecEnds(f) ==
    /\ f \notin Endless
    /\ Executing(f, "responding", "ended")
    /\ SendDown(sock[f], <<Frame(RESPONSE_END, Wire(key[f]), f, 0)>>)
    /\ UNCHANGED produced

ExecInterrupted(f) ==
    /\ Executing(f, "responding", "failed")
    /\ SendDown(sock[f], <<Frame(InterruptedKind, Wire(key[f]), f, 0)>>)
    /\ UNCHANGED produced

\* The context is done: the upstream call or body read returns, sending fails.
ExecCancelled(f) ==
    /\ phase[f] \in {"executing", "responding"}
    /\ ContextDone(f)
    /\ phase' = [phase EXCEPT ![f] = "dropped"]
    /\ UNCHANGED <<pageVars, netVars, serving, body, produced>>

----------------------------------------------------------------------------
Page == 
    \/ \E f \in Fetch : \/ Fetching(f) \/ Begin(f) \/ Upload(f) \/ UploadEnds(f)
                        \/ UploadThrows(f) \/ CancelStream(f)
    \/ SocketOpens \/ SocketFails \/ SocketCloses
    \/ HandleResponse \/ HandleChunk \/ HandleEnd \/ HandleError

Server ==
    \/ \E c \in Conn : OnStart(c) \/ OnChunk(c) \/ OnEnd(c) \/ OnCancel(c) \/ ReadFails(c)
    \/ \E f \in Fetch : \/ ExecRefuses(f) \/ ExecResponds(f) \/ ExecStreams(f)
                        \/ ExecEnds(f) \/ ExecInterrupted(f) \/ ExecCancelled(f)

Next == Page \/ Server \/ \E c \in Conn : LinkDrops(c)

Spec == Init /\ [][Next]_vars

(***************************************************************************)
(* Fairness.  The page's event loop and the server's read loop run; body   *)
(* readers deliver; a dropped connection is noticed by both ends; an       *)
(* upstream answers or times out (the dialer's and transport's timeouts),  *)
(* and a body that is not endless ends.  The link need not drop and the    *)
(* page need not call, cancel or fail.                                     *)
(***************************************************************************)
FairSpec ==
    /\ Spec
    /\ \A f \in Fetch :
        /\ WF_vars(Begin(f)) /\ WF_vars(Upload(f)) /\ WF_vars(UploadEnds(f))
        /\ WF_vars(ExecRefuses(f) \/ ExecResponds(f))
        /\ WF_vars(ExecEnds(f) \/ (f \notin Endless /\ ExecInterrupted(f)))
        /\ WF_vars(ExecCancelled(f))
    /\ WF_vars(SocketOpens \/ SocketFails) /\ WF_vars(SocketCloses)
    /\ WF_vars(HandleResponse \/ HandleChunk \/ HandleEnd \/ HandleError)
    /\ \A c \in Conn : /\ WF_vars(OnStart(c) \/ OnChunk(c) \/ OnEnd(c) \/ OnCancel(c))
                       /\ WF_vars(ReadFails(c))

----------------------------------------------------------------------------
(* Types, and identifiers below nextID: an identifier handed out is never  *)
(* ahead of the counter (runtime.js nextID).                               *)
TypeOK ==
    /\ nextID \in Nat /\ pending \subseteq Fetch /\ conn \in 0..MaxConn
    /\ socket \in {"none", "connecting", "open"}
    /\ socket # "none" => conn \in Conn
    /\ pc \in [Fetch -> {"idle", "await", "upload", "returned", "threw"}]
    /\ sock \in [Fetch -> 0..MaxConn] /\ key \in [Fetch -> Nat] /\ sent \in [Fetch -> Nat]
    /\ \A f \in Fetch : key[f] < nextID
    /\ promise \in [Fetch -> {"pending", "resolved", "rejected"}]
    /\ answer \in [Fetch -> SUBSET Fetch]
    /\ stream \in [Fetch -> {"none", "nobody", "open", "closed", "errored", "cancelled"}]
    /\ got \in [Fetch -> Seq(Fetch \X Nat)]
    /\ link \in [Conn -> {"idle", "up", "down"}]
    /\ c2s \in [Conn -> Seq(UpFrame)] /\ s2c \in [Conn -> Seq(DownFrame)]
    /\ serving \in [Conn -> {"idle", "reading", "returned"}]
    /\ phase \in [Fetch -> {"none", "collecting", "executing", "responding",
                           "ended", "failed", "dropped"}]
    /\ body \in [Fetch -> Seq(Fetch \X Nat)]
    /\ produced \in [Fetch -> Nat]

Requested(f) == [n \in 1..BodyLen[f] |-> <<f, n>>]

(* executeMux never runs a request with a body that is truncated, reordered, *)
(* mixed with another stream's or over the limit (mux.go:97-115), whatever   *)
(* the interleaving of uploads, overflows and dropped connections.           *)
ExecutedBodyComplete ==
    \A f \in Fetch : phase[f] \in {"executing", "responding", "ended"} =>
        body[f] = Requested(f) /\ BodyLen[f] <= MaxBody

(* A call is answered by the response to its own request, and its stream     *)
(* holds that response's chunks in order from the first, none missing, none  *)
(* twice, none of another call (runtime.js handleFrame by stream identifier, *)
(* concurrent executors sharing muxWriter).                                  *)
AnswersOwnRequest ==
    \A f \in Fetch :
        /\ answer[f] \subseteq {f}
        /\ got[f] = [n \in 1..Len(got[f]) |-> <<f, n>>]

(* A stream the page sees closing normally carries the whole response: the   *)
(* upstream body ended and every chunk was handed over.  An interrupted body *)
(* or a lost connection must show as an error (mux.go:174-177, onclose).     *)
ClosedMeansComplete ==
    \A f \in Fetch : stream[f] = "closed" =>
        phase[f] = "ended" /\ Len(got[f]) = produced[f]

InFlight(q, f, kinds) == \E i \in DOMAIN q : q[i].of = f /\ q[i].kind \in kinds

\* The page has handled a RESPONSE of the call that settled nothing.
Unsettled(f) == promise[f] = "pending" /\ stream[f] # "none"

(* While the connection is up a call in the table that waits has something   *)
(* that will answer it: its upload, its END, its executor, or a RESPONSE or  *)
(* ERROR on the way.  No handler of either side drops a stream without       *)
(* saying so (mux.go:97-120, handleFrame), but one: a RESPONSE whose status  *)
(* `new Response` refuses throws (runtime.js:161) and leaves its call        *)
(* waiting.  Where upstreams send no such status, no call is left.           *)
NoOrphanedFetch ==
    \A f \in pending : promise[f] = "pending" /\ link[sock[f]] = "up" =>
        \/ Unsettled(f) /\ Status \cap {UNUSABLE, SWITCHING} # {}
        \/ pc[f] \in {"upload", "threw"} /\ phase[f] \in {"none", "collecting"}
        \/ InFlight(c2s[sock[f]], f, {END})
        \/ phase[f] = "executing"
        \/ InFlight(s2c[sock[f]], f, {RESPONSE, RESPONSE_ERROR})

(* Every call of fetch returns with its promise settled, or throws: no lost  *)
(* frame, overflow, refused upgrade or dropped connection leaves it hanging. *)
Settled(f) == pc[f] = "threw" \/ (pc[f] = "returned" /\ promise[f] # "pending")
FetchSettles == \A f \in Fetch : pc[f] = "await" ~> Settled(f)

(* When serveMux returns, the goroutines it started end too, the endless     *)
(* ones included, so a page that goes away leaves no upstream request behind *)
(* (mux.go:95 derives every context from the request's).                     *)
ConnectionFreesExecutors ==
    \A c \in Conn : serving[c] = "returned" ~>
        ~ \E f \in Fetch : sock[f] = c /\ phase[f] \in {"collecting", "executing", "responding"}

(* A response stream the page reads ends or errors once the upstream body    *)
(* does, or the connection is lost.                                          *)
StreamFinishes == \A f \in Fetch \ Endless : stream[f] = "open" ~> stream[f] # "open"

(* request/cancel (docs/proxy-protocol.md, the frame table) stops a request: *)
(* once the server has read it, no executor goes on for the call.            *)
CancelStops ==
    \A f \in Fetch : /\ stream[f] = "cancelled"
                     /\ link[sock[f]] = "up"
                     /\ ~InFlight(c2s[sock[f]], f, {CANCEL})
                     => phase[f] \notin {"executing", "responding"}

=============================================================================
