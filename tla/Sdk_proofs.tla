----------------------------- MODULE Sdk_proofs -----------------------------
(***************************************************************************)
(* Proofs about Sdk, for any number of goroutines and contexts, and for    *)
(* any loss of calls and answers.                                          *)
(***************************************************************************)
EXTENDS Sdk, TLAPS

----------------------------------------------------------------------------
(* The inductive invariant.                                                 *)

\* Who works on a context of its own, and who on the session's.
Holding == {"request", "body", "cleanup"}
Sharing == {"route", "navigate", "closing"}

\* The session, once there is one, names a context that was created; only then is it
\* used or closed.
SessionStands ==
    /\ session.id # None => server[session.id] # "none"
    /\ session.closed => session.id # None
    /\ \A k \in Caller : call[k].pc \in Sharing => session.id # None

\* What a call will return is attributed before it returns: a body left to the caller is
\* the target's, and the clean-up keeps the result it interrupts.
Fair(answer) ==
    /\ answer.result = "problem" => answer.by = "tvpn"
    /\ answer.result = "response" => answer.by = "target"

Attributed ==
    \A k \in Caller :
        /\ call[k].pc = "body" => call[k].by = "target"
        /\ call[k].pc = "cleanup" => Fair(call[k].then)
        /\ call[k].pc = "returned" => Fair(call[k])

IInv == TypeOK /\ SessionStands /\ Attributed /\ NothingLeftBehind /\ ClosedMeansClosed

----------------------------------------------------------------------------
(* The states of a call.                                                    *)

Calls == {Idle} \cup Answer
         \cup [pc : {"request"}, ctx : ContextId]
         \cup [pc : {"body"}, ctx : ContextId, by : {"target", "tvpn"}]
         \cup [pc : {"cleanup"}, ctx : ContextId, then : Answer]
         \cup [pc : Sharing]

\* The state of a call is told by its pc.
LEMMA Shapes ==
  ASSUME NEW v \in Calls
  PROVE  /\ v.pc = "idle" <=> v = Idle
         /\ v.pc \in {"idle", "returned"} \cup Holding \cup Sharing
         /\ "ctx" \in DOMAIN v <=> v.pc \in Holding
         /\ v.pc \in Holding => v.ctx \in ContextId
         /\ v.pc = "returned" => v \in Answer
         /\ v.pc = "body" => v.by \in {"target", "tvpn"}
         /\ v.pc = "cleanup" => v.then \in Answer
  BY DEF Calls, Idle, Answer, Holding, Sharing

\* The values calls are given.
LEMMA Values ==
  /\ Idle \in Calls
  /\ \A result \in {"response", "problem", "error", "closed"}, by \in {"target", "tvpn", None} :
        Returned(result, by) \in Answer /\ Returned(result, by) \in Calls
  /\ \A c \in ContextId : [pc |-> "request", ctx |-> c] \in Calls
  /\ \A c \in ContextId, by \in {"target", "tvpn"} : [pc |-> "body", ctx |-> c, by |-> by] \in Calls
  /\ \A c \in ContextId, a \in Answer : [pc |-> "cleanup", ctx |-> c, then |-> a] \in Calls
  /\ \A pc \in Sharing : [pc |-> pc] \in Calls
  BY DEF Calls, Idle, Answer, Returned

\* TypeOK, by the names used here, and the same of the state after a step.
LEMMA Typed ==
  ASSUME TypeOK
  PROVE  /\ server \in [ContextId -> {"none", "open", "closed"}]
         /\ late \subseteq ContextId /\ leaked \subseteq ContextId
         /\ session \in [id : ContextId \cup {None}, usedInitial : BOOLEAN, closed : BOOLEAN]
         /\ call \in [Caller -> Calls]
         /\ \A k \in Caller : call[k].pc \in Holding => server[call[k].ctx] # "none"
<1>1. call \in [Caller -> Calls]
  BY DEF TypeOK, Calls, Sharing
<1>2. \A k \in Caller : "ctx" \in DOMAIN call[k] <=> call[k].pc \in Holding
  BY <1>1, Shapes
<1> QED
  BY <1>1, <1>2 DEF TypeOK

LEMMA TypedNext ==
  ASSUME /\ server' \in [ContextId -> {"none", "open", "closed"}]
         /\ late' \subseteq ContextId /\ leaked' \subseteq ContextId
         /\ session' \in [id : ContextId \cup {None}, usedInitial : BOOLEAN, closed : BOOLEAN]
         /\ call' \in [Caller -> Calls]
         /\ \A k \in Caller : call'[k].pc \in Holding => server'[call'[k].ctx] # "none"
  PROVE  TypeOK'
<1>2. \A k \in Caller : "ctx" \in DOMAIN call'[k] <=> call'[k].pc \in Holding
  BY Shapes
<1> QED
  BY <1>2 DEF TypeOK, Calls, Sharing

\* A call that moves is in its new state, the others are where they were.
LEMMA Moved ==
  ASSUME NEW k \in Caller, NEW to \in Calls, call \in [Caller -> Calls], Moves(k, to)
  PROVE  /\ call' \in [Caller -> Calls]
         /\ call'[k] = to
         /\ \A j \in Caller : j # k => call'[j] = call[j]
  BY DEF Moves

----------------------------------------------------------------------------
(* Steps preserve the invariant.                                            *)

\* A step of one call that leaves the server and what was lost alone, keeps the context the
\* call holds, and may at most mark the session.
LEMMA SessionMove ==
  ASSUME IInv, NEW k \in Caller, NEW to \in Calls, Moves(k, to),
         UNCHANGED <<server, late, leaked>>,
         session' \in [id : ContextId \cup {None}, usedInitial : BOOLEAN, closed : BOOLEAN],
         session'.id = session.id,
         session'.closed => \/ session.closed /\ call[k].pc # "closing"
                            \/ session.id # None /\ to.pc = "closing",
         call[k].pc \in Holding => to.pc \in Holding /\ to.ctx = call[k].ctx,
         to.pc \in Holding => call[k].pc \in Holding,
         to.pc \in Sharing => session.id # None,
         to.pc = "body" => to.by = "target",
         to.pc = "cleanup" => Fair(to.then),
         to.pc = "returned" => Fair(to)
  PROVE  IInv'
<1>t. TypeOK /\ call \in [Caller -> Calls]
  BY Typed DEF IInv
<1>m. /\ call' \in [Caller -> Calls]
      /\ call'[k] = to
      /\ \A j \in Caller : j # k => call'[j] = call[j]
  BY <1>t, Moved
<1>h. \A j \in Caller :
        /\ call'[j].pc \in Holding <=> call[j].pc \in Holding
        /\ call[j].pc \in Holding => call'[j].ctx = call[j].ctx
  BY <1>m
<1>1. TypeOK'
  BY <1>t, <1>m, <1>h, Typed, TypedNext
<1>2. SessionStands'
  BY <1>m DEF IInv, SessionStands
<1>3. Attributed'
  BY <1>m DEF IInv, Attributed
<1>4. NothingLeftBehind'
  <2>1. \A j \in Caller : /\ "ctx" \in DOMAIN call[j] <=> call[j].pc \in Holding
                          /\ "ctx" \in DOMAIN call'[j] <=> call'[j].pc \in Holding
    BY <1>t, <1>m, Shapes
  <2> QED
    BY <2>1, <1>h DEF IInv, NothingLeftBehind
<1>5. ClosedMeansClosed'
  <2>1. ASSUME session'.closed, ~ (to.pc = "closing") PROVE server[session.id] = "closed" \/ \E j \in Caller : call'[j].pc = "closing"
    BY <1>m, <2>1 DEF IInv, ClosedMeansClosed
  <2> QED
    BY <1>m, <2>1 DEF ClosedMeansClosed
<1> QED
  BY <1>1, <1>2, <1>3, <1>4, <1>5 DEF IInv

\* The same without a mark.
LEMMA LocalMove ==
  ASSUME IInv, NEW k \in Caller, NEW to \in Calls, Moves(k, to),
         UNCHANGED <<server, late, leaked, session>>,
         call[k].pc # "closing",
         call[k].pc \in Holding => to.pc \in Holding /\ to.ctx = call[k].ctx,
         to.pc \in Holding => call[k].pc \in Holding,
         to.pc \in Sharing => session.id # None,
         to.pc = "body" => to.by = "target",
         to.pc = "cleanup" => Fair(to.then),
         to.pc = "returned" => Fair(to)
  PROVE  IInv'
<1>1. session' \in [id : ContextId \cup {None}, usedInitial : BOOLEAN, closed : BOOLEAN]
  BY Typed DEF IInv
<1> QED
  BY <1>1, SessionMove

\* Whatever header a target sends, an answer is a Problem just when it is Tvpn's.
LEMMA ProblemIsTvpns ==
  ASSUME NEW c, NEW response \in RouteReplies(c)
  PROVE  response.by = IF isProblem(response) THEN "tvpn" ELSE "target"
<1>1. \A reply \in TargetReply : Copied(reply).by = "target" /\ Copied(reply).code = FALSE
  BY DEF Copied, TargetReply
<1> QED
  BY <1>1 DEF RouteReplies, isProblem, ServerProblem

\* Single requests.
LEMMA RequestKeeps == ASSUME IInv, NEW k \in Caller, DoRequest(k) PROVE IInv'
<1>t. /\ call[k] \in Calls /\ call[k].pc = "request"
      /\ call[k].pc \in Holding /\ call[k].ctx \in ContextId
  BY Typed, Shapes DEF IInv, DoRequest, Holding
<1> DEFINE c == call[k].ctx
<1>u. UNCHANGED <<server, late, leaked, session>>
  BY DEF DoRequest
<1>1. CASE ThenCloses(k, c, Returned("error", None))
  <2> DEFINE to == [pc |-> "cleanup", ctx |-> c, then |-> Returned("error", None)]
  <2>1. to \in Calls /\ Fair(to.then)
    BY <1>t, Values DEF Fair, Returned
  <2>2. Moves(k, to)
    BY <1>1 DEF ThenCloses
  <2> QED
    BY <1>t, <1>u, <2>1, <2>2, LocalMove DEF Holding, Sharing
<1>2. ASSUME NEW response \in RouteReplies(c), isProblem(response),
             ThenCloses(k, c, Returned("problem", response.by))
      PROVE  IInv'
  <2> DEFINE to == [pc |-> "cleanup", ctx |-> c, then |-> Returned("problem", response.by)]
  <2>1. response.by = "tvpn"
    BY <1>2, ProblemIsTvpns
  <2>2. to \in Calls /\ Fair(to.then)
    BY <1>t, <2>1, Values DEF Fair, Returned
  <2>3. Moves(k, to)
    BY <1>2 DEF ThenCloses
  <2> QED
    BY <1>t, <1>u, <2>2, <2>3, LocalMove DEF Holding, Sharing
<1>3. ASSUME NEW response \in RouteReplies(c), ~ isProblem(response),
             Moves(k, [pc |-> "body", ctx |-> c, by |-> response.by])
      PROVE  IInv'
  <2> DEFINE to == [pc |-> "body", ctx |-> c, by |-> response.by]
  <2>1. response.by = "target"
    BY <1>3, ProblemIsTvpns
  <2>2. to \in Calls
    BY <1>t, <2>1, Values
  <2> QED
    BY <1>t, <1>u, <1>3, <2>1, <2>2, LocalMove DEF Holding, Sharing
<1> QED
  BY <1>1, <1>2, <1>3 DEF DoRequest

LEMMA CloseBodyKeeps == ASSUME IInv, NEW k \in Caller, CloseBody(k) PROVE IInv'
<1> DEFINE to == [pc |-> "cleanup", ctx |-> call[k].ctx, then |-> Returned("response", call[k].by)]
<1>t. /\ call[k] \in Calls /\ call[k].pc = "body"
      /\ call[k].pc \in Holding /\ call[k].ctx \in ContextId /\ call[k].by = "target"
  BY Typed, Shapes DEF IInv, CloseBody, Holding, Attributed
<1>1. to \in Calls /\ Fair(to.then)
  BY <1>t, Values DEF Fair, Returned
<1>2. Moves(k, to) /\ UNCHANGED <<server, late, leaked, session>>
  BY DEF CloseBody
<1> QED
  BY <1>t, <1>1, <1>2, LocalMove DEF Holding, Sharing

\* Session.Do and the first half of Session.Close.
LEMMA SessionDoKeeps == ASSUME IInv, NEW k \in Caller, NEW initial \in BOOLEAN, SessionDo(k, initial) PROVE IInv'
<1>t. /\ call[k] = Idle /\ call[k].pc = "idle" /\ session.id # None
      /\ session \in [id : ContextId \cup {None}, usedInitial : BOOLEAN, closed : BOOLEAN]
  BY Typed DEF IInv, SessionDo, Idle
<1>u. UNCHANGED <<server, late, leaked>>
  BY DEF SessionDo
<1>1. CASE Moves(k, Returned("error", None)) /\ UNCHANGED session
  BY <1>t, <1>u, <1>1, Values, LocalMove DEF Holding, Sharing, Returned, Fair
<1>2. CASE Moves(k, [pc |-> "route"]) /\ session' = [session EXCEPT !.usedInitial = TRUE] /\ ~ session.closed
  BY <1>t, <1>u, <1>2, Values, SessionMove DEF Holding, Sharing
<1>3. CASE Moves(k, [pc |-> "navigate"]) /\ UNCHANGED session
  BY <1>t, <1>u, <1>3, Values, LocalMove DEF Holding, Sharing
<1> QED
  BY <1>1, <1>2, <1>3 DEF SessionDo

LEMMA SessionCloseKeeps == ASSUME IInv, NEW k \in Caller, SessionClose(k) PROVE IInv'
<1>t. /\ call[k] = Idle /\ call[k].pc = "idle" /\ session.id # None
      /\ session \in [id : ContextId \cup {None}, usedInitial : BOOLEAN, closed : BOOLEAN]
  BY Typed DEF IInv, SessionClose, Idle
<1>u. UNCHANGED <<server, late, leaked>>
  BY DEF SessionClose
<1>1. CASE Moves(k, Returned("closed", None)) /\ UNCHANGED session
  BY <1>t, <1>u, <1>1, Values, LocalMove DEF Holding, Sharing, Returned, Fair
<1>2. CASE Moves(k, [pc |-> "closing"]) /\ session' = [session EXCEPT !.closed = TRUE]
  BY <1>t, <1>u, <1>2, Values, SessionMove DEF Holding, Sharing
<1> QED
  BY <1>1, <1>2 DEF SessionClose

LEMMA NavigateKeeps == ASSUME IInv, NEW k \in Caller, Navigate(k) PROVE IInv'
<1>t. call[k] \in Calls /\ call[k].pc = "navigate" /\ session.id # None
  BY Typed DEF IInv, Navigate, SessionStands, Sharing
<1>u. UNCHANGED <<server, late, leaked, session>>
  BY DEF Navigate
<1>1. CASE Moves(k, [pc |-> "route"])
  BY <1>t, <1>u, <1>1, Values, LocalMove DEF Holding, Sharing
<1>2. CASE Moves(k, Returned("problem", "tvpn"))
  BY <1>t, <1>u, <1>2, Values, LocalMove DEF Holding, Sharing, Returned, Fair
<1>3. CASE Moves(k, Returned("error", None))
  BY <1>t, <1>u, <1>3, Values, LocalMove DEF Holding, Sharing, Returned, Fair
<1> QED
  BY <1>1, <1>2, <1>3 DEF Navigate

\* What is returned as a Problem is Tvpn's, for a target's error header is removed.
LEMMA DoRouteKeeps == ASSUME IInv, NEW k \in Caller, DoRoute(k) PROVE IInv'
<1>t. call[k] \in Calls /\ call[k].pc = "route"
  BY Typed DEF IInv, DoRoute
<1>u. UNCHANGED <<server, late, leaked, session>>
  BY DEF DoRoute
<1>1. CASE Moves(k, Returned("error", None))
  BY <1>t, <1>u, <1>1, Values, LocalMove DEF Holding, Sharing, Returned, Fair
<1>2. ASSUME NEW response \in RouteReplies(session.id), isProblem(response),
             Moves(k, Returned("problem", response.by))
      PROVE  IInv'
  <2>1. response.by = "tvpn"
    BY <1>2, ProblemIsTvpns
  <2> QED
    BY <1>t, <1>u, <1>2, <2>1, Values, LocalMove DEF Holding, Sharing, Returned, Fair
<1>3. ASSUME NEW response \in RouteReplies(session.id), ~ isProblem(response),
             Moves(k, Returned("response", response.by))
      PROVE  IInv'
  <2>1. response.by = "target"
    BY <1>3, ProblemIsTvpns
  <2> QED
    BY <1>t, <1>u, <1>3, <2>1, Values, LocalMove DEF Holding, Sharing, Returned, Fair
<1> QED
  BY <1>1, <1>2, <1>3 DEF DoRoute

\* A call that has returned may be followed by another.
LEMMA NextCallKeeps ==
  ASSUME IInv, NEW k \in Caller, call[k].pc = "returned", Moves(k, Idle),
         UNCHANGED <<server, late, leaked, session>>
  PROVE  IInv'
<1>1. Idle \in Calls /\ Idle.pc = "idle"
  BY Values DEF Idle
<1> QED
  BY <1>1, LocalMove DEF Holding, Sharing

----------------------------------------------------------------------------
(* Creating and closing contexts.                                           *)

\* A DELETE of a context by the call that holds it, or by the one that closes the session:
\* the context is closed, or lost if it stays open, and the call returns.
LEMMA DeleteMove ==
  ASSUME IInv, NEW k \in Caller, NEW to \in Calls, Moves(k, to), to.pc = "returned", Fair(to),
         NEW c \in ContextId, server[c] # "none",
         server' \in {server, [server EXCEPT ![c] = "closed"]},
         late' \subseteq late \cup {c}, leaked \subseteq leaked', leaked' \subseteq leaked \cup {c},
         server'[c] # "open" \/ c \in leaked',
         call[k].pc \in Holding => call[k].ctx = c,
         session' \in [id : ContextId \cup {None}, usedInitial : BOOLEAN, closed : BOOLEAN],
         session'.id = session.id,
         session'.closed => session.closed /\ (call[k].pc = "closing" => server'[session.id] = "closed")
  PROVE  IInv'
<1>t. /\ server \in [ContextId -> {"none", "open", "closed"}]
      /\ late \subseteq ContextId /\ leaked \subseteq ContextId
      /\ call \in [Caller -> Calls]
      /\ \A j \in Caller : call[j].pc \in Holding => server[call[j].ctx] # "none"
  BY Typed DEF IInv
<1>m. /\ call' \in [Caller -> Calls]
      /\ call'[k] = to
      /\ \A j \in Caller : j # k => call'[j] = call[j]
  BY <1>t, Moved
<1>p. to.pc \notin Holding /\ to.pc \notin Sharing
  BY DEF Holding, Sharing
<1>s. /\ server' \in [ContextId -> {"none", "open", "closed"}]
      /\ \A d \in ContextId : server[d] # "none" => server'[d] # "none"
      /\ \A d \in ContextId : server[d] = "closed" => server'[d] = "closed"
      /\ \A d \in ContextId : server'[d] = "open" => server[d] = "open"
  BY <1>t
<1>1. TypeOK'
  <2>1. \A j \in Caller : call'[j].pc \in Holding => server'[call'[j].ctx] # "none"
    BY <1>t, <1>m, <1>p, <1>s, Shapes
  <2> QED
    BY <1>t, <1>m, <1>s, <2>1, TypedNext
<1>i. session.id \in ContextId \cup {None}
  OBVIOUS
<1>2. SessionStands'
  BY <1>m, <1>p, <1>s, <1>i DEF IInv, SessionStands
<1>3. Attributed'
  BY <1>m DEF IInv, Attributed
<1>4. NothingLeftBehind'
  <2>1. \A j \in Caller : /\ "ctx" \in DOMAIN call[j] <=> call[j].pc \in Holding
                          /\ "ctx" \in DOMAIN call'[j] <=> call'[j].pc \in Holding
    BY <1>t, <1>m, Shapes
  <2>2. ASSUME NEW d \in ContextId, server'[d] = "open", d # c
        PROVE  \/ d = session.id \/ d \in leaked
               \/ \E j \in Caller : call[j].pc \in Holding /\ call[j].ctx = d
    BY <1>s, <2>1, <2>2 DEF IInv, NothingLeftBehind
  <2>3. ASSUME NEW j \in Caller, call[j].pc \in Holding, call[j].ctx # c
        PROVE  call'[j].pc \in Holding /\ call'[j].ctx = call[j].ctx
    BY <1>m, <2>3
  <2> QED
    BY <2>1, <2>2, <2>3 DEF NothingLeftBehind
<1>5. ClosedMeansClosed'
  <2> SUFFICES ASSUME session'.closed
               PROVE  server'[session.id] = "closed" \/ \E j \in Caller : call'[j].pc = "closing"
    BY DEF ClosedMeansClosed
  <2>1. session.closed /\ session.id \in ContextId
    BY <1>i DEF IInv, SessionStands
  <2>2. server[session.id] = "closed" \/ \E j \in Caller : call[j].pc = "closing"
    BY <2>1 DEF IInv, ClosedMeansClosed
  <2> QED
    BY <1>m, <1>s, <2>1, <2>2
<1> QED
  BY <1>1, <1>2, <1>3, <1>4, <1>5 DEF IInv

LEMMA CleanupKeeps == ASSUME IInv, NEW k \in Caller, Cleanup(k) PROVE IInv'
<1> DEFINE c == call[k].ctx
           to == call[k].then
<1>t. /\ call[k].pc = "cleanup" /\ c \in ContextId /\ to \in Answer /\ Fair(to)
      /\ server[c] # "none" /\ server \in [ContextId -> {"none", "open", "closed"}]
      /\ session \in [id : ContextId \cup {None}, usedInitial : BOOLEAN, closed : BOOLEAN]
  BY Typed, Shapes DEF IInv, Cleanup, Holding, Attributed
<1>a. to \in Calls /\ to.pc = "returned"
  BY <1>t DEF Answer, Calls
<1>1. Moves(k, to) /\ UNCHANGED session /\ Delete(c, TRUE, TRUE)
  BY DEF Cleanup, Delete
<1>2. /\ server' \in {server, [server EXCEPT ![c] = "closed"]}
      /\ late' \subseteq late \cup {c} /\ leaked \subseteq leaked' /\ leaked' \subseteq leaked \cup {c}
      /\ server'[c] # "open" \/ c \in leaked'
  BY <1>t, <1>1 DEF Delete
<1> QED
  BY <1>t, <1>a, <1>1, <1>2, DeleteMove

\* The session is marked closed for good only when the server has confirmed it.
LEMMA CloseSessionKeeps == ASSUME IInv, NEW k \in Caller, CloseSession(k) PROVE IInv'
<1> DEFINE c == session.id
<1>t. /\ call[k].pc = "closing" /\ c \in ContextId
      /\ server[c] # "none" /\ server \in [ContextId -> {"none", "open", "closed"}]
      /\ session \in [id : ContextId \cup {None}, usedInitial : BOOLEAN, closed : BOOLEAN]
  BY Typed DEF IInv, CloseSession, Sharing, SessionStands
<1>v. \A to \in {Returned("closed", None), Returned("error", None)} :
        to \in Calls /\ to.pc = "returned" /\ Fair(to)
  BY Values DEF Returned, Fair
<1>1. CASE /\ server[c] = "open" /\ server' = [server EXCEPT ![c] = "closed"]
           /\ Moves(k, Returned("closed", None)) /\ UNCHANGED <<late, leaked, session>>
  BY <1>t, <1>v, <1>1, DeleteMove DEF Holding
<1>2. CASE /\ Moves(k, Returned("error", None)) /\ session' = OpenAgain
           /\ server' \in {server, [server EXCEPT ![c] = "closed"]}
           /\ late' \subseteq late \cup {c} /\ leaked \subseteq leaked' /\ leaked' \subseteq leaked \cup {c}
           /\ server'[c] # "open" \/ c \in leaked'
  <2>1. /\ session' \in [id : ContextId \cup {None}, usedInitial : BOOLEAN, closed : BOOLEAN]
        /\ session'.id = session.id /\ ~ session'.closed
    BY <1>t, <1>2 DEF OpenAgain
  <2> QED
    BY <1>t, <1>v, <1>2, <2>1, DeleteMove DEF Holding
<1> QED
  BY <1>t, <1>1, <1>2 DEF CloseSession, Delete

\* The late arrival of a DELETE.
LEMMA LateDeleteKeeps == ASSUME IInv, NEW c \in ContextId, LateDelete(c) PROVE IInv'
<1>t. /\ server \in [ContextId -> {"none", "open", "closed"}]
      /\ late \subseteq ContextId /\ leaked \subseteq ContextId
      /\ session \in [id : ContextId \cup {None}, usedInitial : BOOLEAN, closed : BOOLEAN]
      /\ call \in [Caller -> Calls]
      /\ \A j \in Caller : call[j].pc \in Holding => server[call[j].ctx] # "none"
  BY Typed DEF IInv
<1>u. /\ UNCHANGED <<leaked, session, call>> /\ late' = late \ {c}
      /\ server' = [server EXCEPT ![c] = IF @ = "open" THEN "closed" ELSE @]
  BY DEF LateDelete
<1>s. /\ server' \in [ContextId -> {"none", "open", "closed"}]
      /\ \A d \in ContextId : server[d] # "none" => server'[d] # "none"
      /\ \A d \in ContextId : server[d] = "closed" => server'[d] = "closed"
      /\ \A d \in ContextId : server'[d] = "open" => server[d] = "open"
  BY <1>t, <1>u
<1>1. TypeOK'
  <2>1. \A j \in Caller : call[j].pc \in Holding => call[j].ctx \in ContextId
    BY <1>t, Shapes
  <2> QED
    BY <1>t, <1>u, <1>s, <2>1, TypedNext
<1>2. SessionStands' /\ Attributed'
  BY <1>t, <1>u, <1>s DEF IInv, SessionStands, Attributed
<1>3. NothingLeftBehind' /\ ClosedMeansClosed'
  BY <1>t, <1>u, <1>s DEF IInv, NothingLeftBehind, ClosedMeansClosed, SessionStands
<1> QED
  BY <1>1, <1>2, <1>3 DEF IInv

\* What creating a context does, whoever asks for it: afterwards the context is the
\* session's, the call's, or lost.
LEMMA CreateMove ==
  ASSUME IInv, NEW k \in Caller, NEW to \in Calls, Moves(k, to), call[k] = Idle,
         NEW c \in ContextId, server[c] = "none",
         server' \in {server, [server EXCEPT ![c] = "open"]},
         leaked' \in {leaked, leaked \cup {c}}, late' = late,
         server'[c] = "open" => \/ to.pc = "request" /\ to.ctx = c
                                \/ session'.id = c
                                \/ c \in leaked',
         session' \in [id : ContextId \cup {None}, usedInitial : BOOLEAN, closed : BOOLEAN],
         \/ session' = session
         \/ session = NoSession /\ session'.id = c /\ ~ session'.closed /\ server'[c] = "open",
         \/ to.pc = "request" /\ to.ctx = c /\ server'[c] = "open"
         \/ to.pc = "returned" /\ Fair(to)
         \/ to.pc = "idle"
  PROVE  IInv'
<1>t. /\ server \in [ContextId -> {"none", "open", "closed"}]
      /\ late \subseteq ContextId /\ leaked \subseteq ContextId
      /\ session \in [id : ContextId \cup {None}, usedInitial : BOOLEAN, closed : BOOLEAN]
      /\ call \in [Caller -> Calls]
      /\ \A j \in Caller : call[j].pc \in Holding => server[call[j].ctx] # "none"
  BY Typed DEF IInv
<1>m. /\ call' \in [Caller -> Calls]
      /\ call'[k] = to
      /\ \A j \in Caller : j # k => call'[j] = call[j]
  BY <1>t, Moved
<1>k. /\ call[k].pc = "idle" /\ to.pc \notin Sharing
      /\ to.pc \in Holding => to.pc = "request"
  BY DEF Idle, Holding, Sharing
<1>s. /\ server' \in [ContextId -> {"none", "open", "closed"}]
      /\ \A d \in ContextId : d # c => server'[d] = server[d]
      /\ \A d \in ContextId : server[d] # "none" => server'[d] = server[d]
  BY <1>t
<1>1. TypeOK'
  <2>1. \A j \in Caller : call'[j].pc \in Holding => server'[call'[j].ctx] # "none"
    BY <1>t, <1>m, <1>k, <1>s, Shapes
  <2> QED
    BY <1>t, <1>m, <1>s, <2>1, TypedNext
<1>2. SessionStands'
  BY <1>t, <1>m, <1>k, <1>s, SdkAssumption DEF IInv, SessionStands, NoSession, Sharing
<1>3. Attributed'
  BY <1>m DEF IInv, Attributed
<1>4. NothingLeftBehind'
  <2>1. \A j \in Caller : /\ "ctx" \in DOMAIN call[j] <=> call[j].pc \in Holding
                          /\ "ctx" \in DOMAIN call'[j] <=> call'[j].pc \in Holding
    BY <1>t, <1>m, Shapes
  <2>2. ASSUME NEW d \in ContextId, server'[d] = "open", d # c
        PROVE  \/ d = session.id \/ d \in leaked
               \/ \E j \in Caller : call[j].pc \in Holding /\ call[j].ctx = d
    BY <1>s, <2>1, <2>2 DEF IInv, NothingLeftBehind
  <2>3. \A j \in Caller : call[j].pc \in Holding => call'[j] = call[j]
    BY <1>m, <1>k DEF Holding
  <2>4. \A d \in ContextId : d = session.id => d = session'.id
    BY SdkAssumption DEF NoSession
  <2>5. ASSUME server'[c] = "open"
        PROVE  \/ c = session'.id \/ c \in leaked'
               \/ \E j \in Caller : call'[j].pc \in Holding /\ call'[j].ctx = c
    BY <1>m, <2>5 DEF Holding
  <2> QED
    BY <2>1, <2>2, <2>3, <2>4, <2>5 DEF NothingLeftBehind
<1>5. ClosedMeansClosed'
  <2> SUFFICES ASSUME session'.closed
               PROVE  server'[session'.id] = "closed" \/ \E j \in Caller : call'[j].pc = "closing"
    BY DEF ClosedMeansClosed
  <2>1. session' = session /\ session.id \in ContextId
    BY <1>t DEF IInv, SessionStands
  <2>2. server[session.id] = "closed" \/ \E j \in Caller : call[j].pc = "closing"
    BY <2>1 DEF IInv, ClosedMeansClosed
  <2> QED
    BY <1>m, <1>k, <1>s, <2>1, <2>2
<1> QED
  BY <1>1, <1>2, <1>3, <1>4, <1>5 DEF IInv

LEMMA DoCreateKeeps == ASSUME IInv, NEW k \in Caller, NEW c \in ContextId, DoCreate(k, c) PROVE IInv'
<1>t. /\ session \in [id : ContextId \cup {None}, usedInitial : BOOLEAN, closed : BOOLEAN]
      /\ server \in [ContextId -> {"none", "open", "closed"}]
  BY Typed DEF IInv
<1>u. call[k] = Idle /\ server[c] = "none" /\ late' = late
  BY DEF DoCreate, Create
<1>v. \A to \in {Returned("problem", "tvpn"), Returned("error", None)} :
        to \in Calls /\ to.pc = "returned" /\ Fair(to)
  BY Values DEF Returned, Fair
<1>1. CASE /\ server' = [server EXCEPT ![c] = "open"] /\ UNCHANGED <<leaked, session>>
           /\ Moves(k, [pc |-> "request", ctx |-> c])
  <2> DEFINE to == [pc |-> "request", ctx |-> c]
  <2>1. to \in Calls
    BY Values
  <2>2. server'[c] = "open"
    BY <1>t, <1>1
  <2> QED
    BY <1>t, <1>u, <1>1, <2>1, <2>2, CreateMove
<1>2. CASE /\ server' = [server EXCEPT ![c] = "open"] /\ leaked' = leaked \cup {c} /\ UNCHANGED session
           /\ Moves(k, Returned("error", None))
  BY <1>t, <1>u, <1>v, <1>2, CreateMove
<1>3. CASE /\ Moves(k, Returned("problem", "tvpn")) \/ Moves(k, Returned("error", None))
           /\ UNCHANGED <<server, leaked, session>>
  <2>1. server'[c] # "open"
    BY <1>u, <1>3
  <2> QED
    BY <1>t, <1>u, <1>v, <1>3, <2>1, CreateMove
<1> QED
  BY <1>1, <1>2, <1>3 DEF DoCreate, Create, IsComplete

LEMMA OpenKeeps == ASSUME IInv, NEW k \in Caller, NEW c \in ContextId, Open(k, c) PROVE IInv'
<1>t. /\ session \in [id : ContextId \cup {None}, usedInitial : BOOLEAN, closed : BOOLEAN]
      /\ call \in [Caller -> Calls]
      /\ server \in [ContextId -> {"none", "open", "closed"}]
  BY Typed DEF IInv
<1>u. call[k] = Idle /\ session = NoSession /\ server[c] = "none" /\ late' = late
  BY DEF Open, Create
<1>v. \A to \in {Returned("problem", "tvpn"), Returned("error", None)} :
        to \in Calls /\ to.pc = "returned" /\ Fair(to)
  BY Values DEF Returned, Fair
<1>1. CASE /\ server' = [server EXCEPT ![c] = "open"] /\ UNCHANGED <<leaked, call>>
           /\ session' = [NoSession EXCEPT !.id = c]
  <2>1. Moves(k, Idle) /\ Idle \in Calls /\ Idle.pc = "idle"
    BY <1>t, <1>u, <1>1, Values DEF Moves, Idle
  <2>2. /\ session' \in [id : ContextId \cup {None}, usedInitial : BOOLEAN, closed : BOOLEAN]
        /\ session'.id = c /\ ~ session'.closed
    BY <1>1 DEF NoSession
  <2>3. server'[c] = "open"
    BY <1>t, <1>1
  <2> QED
    BY <1>u, <1>1, <2>1, <2>2, <2>3, CreateMove
<1>2. CASE /\ server' = [server EXCEPT ![c] = "open"] /\ leaked' = leaked \cup {c} /\ UNCHANGED session
           /\ Moves(k, Returned("error", None))
  BY <1>t, <1>u, <1>v, <1>2, CreateMove
<1>3. CASE /\ Moves(k, Returned("problem", "tvpn")) \/ Moves(k, Returned("error", None))
           /\ UNCHANGED <<server, leaked, session>>
  <2>1. server'[c] # "open"
    BY <1>u, <1>3
  <2> QED
    BY <1>t, <1>u, <1>v, <1>3, <2>1, CreateMove
<1> QED
  BY <1>1, <1>2, <1>3 DEF Open, Create, IsComplete

----------------------------------------------------------------------------
(* Theorems.                                                                *)

LEMMA InitInvariant == Init => IInv
<1> SUFFICES ASSUME Init PROVE IInv
  OBVIOUS
<1>1. call = [k \in Caller |-> Idle] /\ Idle.pc = "idle" /\ "ctx" \notin DOMAIN Idle
  BY DEF Init, Idle
<1>2. TypeOK
  BY <1>1 DEF Init, TypeOK, NoSession
<1>3. SessionStands /\ Attributed /\ ClosedMeansClosed /\ NothingLeftBehind
  BY <1>1 DEF Init, NoSession, SessionStands, Attributed, ClosedMeansClosed, NothingLeftBehind, Sharing
<1> QED
  BY <1>2, <1>3 DEF IInv

LEMMA StepInvariant == IInv /\ [Next]_vars => IInv'
<1> SUFFICES ASSUME IInv, [Next]_vars PROVE IInv'
  OBVIOUS
<1>1. CASE UNCHANGED vars
  BY <1>1 DEF IInv, TypeOK, SessionStands, Attributed, Fair, NothingLeftBehind, ClosedMeansClosed, vars
<1>2. ASSUME NEW k \in Caller, NEW c \in ContextId, DoCreate(k, c) \/ Open(k, c) PROVE IInv'
  BY <1>2, DoCreateKeeps, OpenKeeps
<1>3. ASSUME NEW k \in Caller, DoRequest(k) \/ CloseBody(k) \/ Cleanup(k) PROVE IInv'
  BY <1>3, RequestKeeps, CloseBodyKeeps, CleanupKeeps
<1>4. ASSUME NEW k \in Caller, NEW initial \in BOOLEAN, SessionDo(k, initial) PROVE IInv'
  BY <1>4, SessionDoKeeps
<1>5. ASSUME NEW k \in Caller, Navigate(k) \/ DoRoute(k) \/ SessionClose(k) \/ CloseSession(k) PROVE IInv'
  BY <1>5, NavigateKeeps, DoRouteKeeps, SessionCloseKeeps, CloseSessionKeeps
<1>6. ASSUME NEW k \in Caller, call[k].pc = "returned", Moves(k, Idle),
             UNCHANGED <<server, late, leaked, session>>
      PROVE  IInv'
  BY <1>6, NextCallKeeps
<1>7. ASSUME NEW c \in ContextId, LateDelete(c) PROVE IInv'
  BY <1>7, LateDeleteKeeps
<1> QED
  BY <1>1, <1>2, <1>3, <1>4, <1>5, <1>6, <1>7 DEF Next

\* The invariant that follows a context from its creation to its DELETE.
THEOREM Invariant == Spec => []IInv
  BY InitInvariant, StepInvariant, PTL DEF Spec

\* Types; and nobody works on a context that was not created.
THEOREM TypeCorrect == Spec => []TypeOK
<1>1. IInv => TypeOK
  BY DEF IInv
<1> QED
  BY <1>1, Invariant, PTL

\* However many goroutines make single requests and share a session, and whatever the
\* network loses, an open context has somebody to close it or was lost by the network.
THEOREM ContextsAreClosed == Spec => []NothingLeftBehind
<1>1. IInv => NothingLeftBehind
  BY DEF IInv
<1> QED
  BY <1>1, Invariant, PTL

\* A session that refuses calls has its context closed, or is being closed, for any
\* number of overlapping and failing calls of Close.
THEOREM ClosedIsClosed == Spec => []ClosedMeansClosed
<1>1. IInv => ClosedMeansClosed
  BY DEF IInv
<1> QED
  BY <1>1, Invariant, PTL

\* A Problem is Tvpn's and a response the target's.
THEOREM ErrorsAttributed == Spec => []ProblemsAreTvpns
<1>1. IInv => ProblemsAreTvpns
  BY DEF IInv, Attributed, Fair, ProblemsAreTvpns
<1> QED
  BY <1>1, Invariant, PTL

=============================================================================
