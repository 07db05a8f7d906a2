--------------------------------- MODULE Sdk ---------------------------------
(***************************************************************************)
(* The Go client (sdk/go/tvpn/client.go): single requests, which create    *)
(* and close a context of their own, and a persistent session that several *)
(* goroutines share, over a network that may lose a call or its answer.    *)
(* Of the server there is what the client meets: the states of contexts    *)
(* (module Contexts) and the protected error header.                       *)
(***************************************************************************)
EXTENDS Naturals, FiniteSets

CONSTANTS Caller,    \* goroutines
          ContextId, \* bound: the contexts created
          None

ASSUME SdkAssumption == None \notin ContextId

VARIABLES
    server,  \* contexts at the server
    late,    \* contexts whose DELETE the client gave up while it was on its way
    leaked,  \* contexts whose creation or closing was not answered, or not delivered
    session, \* the persistent session
    call     \* what a goroutine is at

vars == <<server, late, leaked, session, call>>

NoSession == [id |-> None, usedInitial |-> FALSE, closed |-> FALSE]
Idle == [pc |-> "idle"]

Init ==
    /\ server = [c \in ContextId |-> "none"]
    /\ late = {} /\ leaked = {}
    /\ session = NoSession
    /\ call = [k \in Caller |-> Idle]

Moves(k, to) == call' = [call EXCEPT ![k] = to]

\* A call returns a response, a Problem, or another error; by: whose answer it was.
Returned(result, by) == [pc |-> "returned", result |-> result, by |-> by]

----------------------------------------------------------------------------
(* The server's side of a request to a route.                              *)

\* The target's reply carries the error header or not; Tvpn's own errors do.
TargetReply == [by : {"target"}, good : BOOLEAN, code : BOOLEAN]
ServerProblem == [by |-> "tvpn", good |-> FALSE, code |-> TRUE]

\* copyResponseHeaders
CopiedWhole(reply) == reply
Copied(reply) == [reply EXCEPT !.code = FALSE]

\* A route of a context that is not open is not found.
RouteReplies(c) ==
    {ServerProblem} \cup IF server[c] = "open" THEN {Copied(reply) : reply \in TargetReply} ELSE {}

isProblem(response) == ~ response.good /\ response.code

----------------------------------------------------------------------------
(* Contexts.                                                               *)

TakesAnything(id) == TRUE
IsComplete(id) == id # None

\* createContext: created, and id answered (None: an answer that names no context);
\* created without a usable answer; or refused.
Create(k, c, id, created) ==
    /\ server[c] = "none"
    /\ \/ /\ server' = [server EXCEPT ![c] = "open"]
          /\ IsComplete(id) /\ created /\ UNCHANGED leaked
       \/ /\ server' = [server EXCEPT ![c] = "open"]
          /\ leaked' = leaked \cup {c}
          /\ Moves(k, Returned("error", None)) /\ UNCHANGED session
       \/ /\ \/ Moves(k, Returned("problem", "tvpn"))
             \/ Moves(k, Returned("error", None))
          /\ UNCHANGED <<server, leaked, session>>
    /\ UNCHANGED late

\* closeContext: answered with success or a Problem; carried out without an answer;
\* given up before it arrived.
Delete(c, succeeded, failed) ==
    \/ /\ server[c] = "open"
       /\ server' = [server EXCEPT ![c] = "closed"]
       /\ succeeded \/ failed
       /\ UNCHANGED <<late, leaked>>
    \/ /\ failed
       /\ late' \in {late, late \cup {c}}
       /\ leaked' = leaked \cup {c}
       /\ UNCHANGED server
    \/ /\ server[c] # "open"
       /\ failed
       /\ UNCHANGED <<server, late, leaked>>

\* A DELETE nobody waits for arrives.
LateDelete(c) ==
    /\ c \in late
    /\ late' = late \ {c}
    /\ server' = [server EXCEPT ![c] = IF @ = "open" THEN "closed" ELSE @]
    /\ UNCHANGED <<leaked, session, call>>

----------------------------------------------------------------------------
(* Client.Do                                                               *)

DoCreate(k, c) ==
    /\ call[k] = Idle
    /\ \E id \in {c, None} :
          Create(k, c, id, Moves(k, [pc |-> "request", ctx |-> id]) /\ UNCHANGED session)

ThenForgets(k, c, returned) == Moves(k, returned)
ThenCloses(k, c, returned) == Moves(k, [pc |-> "cleanup", ctx |-> c, then |-> returned])

\* The request is malformed or fails; is a Problem; or its body is left to the caller.
DoRequest(k) ==
    LET c == call[k].ctx IN
    /\ call[k].pc = "request"
    /\ \/ ThenCloses(k, c, Returned("error", None))
       \/ \E response \in RouteReplies(c) :
            IF isProblem(response) THEN ThenCloses(k, c, Returned("problem", response.by))
            ELSE Moves(k, [pc |-> "body", ctx |-> c, by |-> response.by])
    /\ UNCHANGED <<server, late, leaked, session>>

\* cleanupBody.Close, the first time.
CloseBody(k) ==
    /\ call[k].pc = "body"
    /\ Moves(k, [pc |-> "cleanup", ctx |-> call[k].ctx, then |-> Returned("response", call[k].by)])
    /\ UNCHANGED <<server, late, leaked, session>>

Cleanup(k) ==
    /\ call[k].pc = "cleanup"
    /\ Delete(call[k].ctx, Moves(k, call[k].then), Moves(k, call[k].then))
    /\ UNCHANGED session

----------------------------------------------------------------------------
(* Open, Session.Do, Session.Close                                         *)

Open(k, c) ==
    /\ call[k] = Idle /\ session = NoSession
    /\ \E id \in {c, None} :
          Create(k, c, id, session' = [NoSession EXCEPT !.id = id] /\ UNCHANGED call)

\* Session.Do, under the lock.  initial: the URL is the one the session opened with.
SessionDo(k, initial) ==
    /\ call[k] = Idle /\ session.id # None
    /\ IF session.closed THEN Moves(k, Returned("error", None)) /\ UNCHANGED session
       ELSE IF initial /\ ~ session.usedInitial
            THEN /\ Moves(k, [pc |-> "route"])
                 /\ session' = [session EXCEPT !.usedInitial = TRUE]
            ELSE Moves(k, [pc |-> "navigate"]) /\ UNCHANGED session
    /\ UNCHANGED <<server, late, leaked>>

Navigate(k) ==
    /\ call[k].pc = "navigate"
    /\ \/ server[session.id] = "open" /\ Moves(k, [pc |-> "route"])
       \/ Moves(k, Returned("problem", "tvpn"))
       \/ Moves(k, Returned("error", None))
    /\ UNCHANGED <<server, late, leaked, session>>

DoRoute(k) ==
    /\ call[k].pc = "route"
    /\ \/ Moves(k, Returned("error", None))
       \/ \E response \in RouteReplies(session.id) :
            Moves(k, Returned(IF isProblem(response) THEN "problem" ELSE "response", response.by))
    /\ UNCHANGED <<server, late, leaked, session>>

\* Session.Close: nothing to do when another has closed it, or is at it ...
SessionClose(k) ==
    /\ call[k] = Idle /\ session.id # None
    /\ IF session.closed THEN Moves(k, Returned("closed", None)) /\ UNCHANGED session
       ELSE /\ session' = [session EXCEPT !.closed = TRUE]
            /\ Moves(k, [pc |-> "closing"])
    /\ UNCHANGED <<server, late, leaked>>

\* ... and a failure leaves the session open for another try.
StaysClosed == session
OpenAgain == [session EXCEPT !.closed = FALSE]

CloseSession(k) ==
    /\ call[k].pc = "closing"
    /\ Delete(session.id,
              Moves(k, Returned("closed", None)) /\ UNCHANGED session,
              Moves(k, Returned("error", None)) /\ session' = OpenAgain)

Next ==
    \/ \E k \in Caller :
        \/ \E c \in ContextId : DoCreate(k, c) \/ Open(k, c)
        \/ DoRequest(k) \/ CloseBody(k) \/ Cleanup(k)
        \/ \E initial \in BOOLEAN : SessionDo(k, initial)
        \/ Navigate(k) \/ DoRoute(k) \/ SessionClose(k) \/ CloseSession(k)
        \/ call[k].pc = "returned" /\ Moves(k, Idle) /\ UNCHANGED <<server, late, leaked, session>>
    \/ \E c \in ContextId : LateDelete(c)

Spec == Init /\ [][Next]_vars

----------------------------------------------------------------------------
(* Properties.                                                             *)

Answer == [pc : {"returned"}, result : {"response", "problem", "error", "closed"}, by : {"target", "tvpn", None}]

\* Types; a context that was not created is nobody's.
TypeOK ==
    /\ server \in [ContextId -> {"none", "open", "closed"}]
    /\ late \subseteq ContextId /\ leaked \subseteq ContextId
    /\ session \in [id : ContextId \cup {None}, usedInitial : BOOLEAN, closed : BOOLEAN]
    /\ call \in [Caller -> {Idle} \cup Answer
                   \cup [pc : {"request"}, ctx : ContextId]
                   \cup [pc : {"body"}, ctx : ContextId, by : {"target", "tvpn"}]
                   \cup [pc : {"cleanup"}, ctx : ContextId, then : Answer]
                   \cup [pc : {"route", "navigate", "closing"}]]
    /\ \A k \in Caller : "ctx" \in DOMAIN call[k] => server[call[k].ctx] # "none"

\* A single request leaves no context behind: one that is open belongs to the session, to
\* a call that will close it or a body its caller has to close, or was lost with a call
\* or an answer of the network (closeContext is tried once, its error ignored).
NothingLeftBehind ==
    \A c \in ContextId : server[c] = "open" =>
        \/ c = session.id \/ c \in leaked
        \/ \E k \in Caller : "ctx" \in DOMAIN call[k] /\ call[k].ctx = c

\* A session that takes no more calls is closed at the server, or somebody is closing it,
\* whichever calls of Close overlap and fail: it never ends up refusing calls with its
\* context open.
ClosedMeansClosed ==
    session.closed => server[session.id] = "closed" \/ \E k \in Caller : call[k].pc = "closing"

\* Errors of the target, its own RFC problems among them, come back as responses; a
\* Problem is Tvpn's (docs/error-codes.md:3), whatever header the target sends.
ProblemsAreTvpns ==
    \A k \in Caller : call[k].pc = "returned" =>
        /\ call[k].result = "problem" => call[k].by = "tvpn"
        /\ call[k].result = "response" => call[k].by = "target"
=============================================================================
