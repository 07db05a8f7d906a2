------------------------------ MODULE Contexts ------------------------------
(***************************************************************************)
(* Browsing contexts, their routes, tickets and proxy sessions: the store, *)
(* the application routes and the proxy domain of internal/proxy, and the  *)
(* deletion of an upstream proxy.                                          *)
(*                                                                         *)
(* Every handler is a process whose database statements are steps of their *)
(* own.  A target is its origin; a route is a context with an origin (the  *)
(* unique index of proxy_routes), its random label the same pair.  Whether *)
(* a policy, the resolver or a target refuses is not decided here: a       *)
(* handler may fail at any step.                                           *)
(***************************************************************************)
EXTENDS Naturals

CONSTANTS User, ContextId, Origin, Ticket, Proxy, Request,
          Stranger,   \* a browser without a session, perhaps showing a page of another context
          SamePage,   \* a page of the very context, which shows its Origin and no session
          Direct, None, Superseded,
          Programs,   \* users whose program token has the proxy scope
          Modes,      \* the compatibility modes contexts are created with
          Creators    \* bound: the users who create contexts

ASSUME ContextsAssumption ==
    /\ {Stranger, SamePage} \cap User = {} /\ Stranger # SamePage
    /\ Direct \notin Proxy /\ {None, Superseded} \cap Origin = {}
    /\ Programs \subseteq User /\ Creators \subseteq User /\ Modes \subseteq BOOLEAN

VARIABLES
    contexts,  \* rows of proxy_contexts
    routes,    \* rows of proxy_routes
    tickets,   \* rows of proxy_tickets
    sessions,  \* users with a row of proxy_sessions, which their browser carries
    proxies,   \* rows of upstream_proxies
    deleting,  \* the contexts an open transaction that deletes a proxy has deleted
    channels,  \* open multiplexer connections: who opened it, in which context
    req        \* the handler at work for a request

vars == <<contexts, routes, tickets, sessions, proxies, deleting, channels, req>>

Fresh == [state |-> "none"]
Deleted == [state |-> "deleted"]
NoTicket == [live |-> FALSE]
Idle == [pc |-> "idle"]
NoDeletion == [open |-> FALSE, rows |-> {}]

IsRow(c) == contexts[c].state \in {"open", "closed"}
IsOpen(c) == contexts[c].state = "open"
Owns(u, c) == contexts[c].owner = u

Init ==
    /\ contexts = [c \in ContextId |-> Fresh]
    /\ routes = {}
    /\ tickets = [t \in Ticket |-> NoTicket]
    /\ sessions = {}
    /\ proxies = Proxy
    /\ deleting = [p \in Proxy |-> NoDeletion]
    /\ channels = {}
    /\ req = [r \in Request |-> Idle]

\* A row another transaction has deleted is waited for.
Locked(c) == \E p \in Proxy : c \in deleting[p].rows

\* A handler for context c, at pc: at is the origin of the page that becomes current_url
\* (None if it is no document), to the one to route next, meant where a navigation and
\* its ticket lead, until another write of current_url.  late: the handler began after
\* the context was closed.
Handling(pc, op, asker, c, at, to, meant) ==
    [pc |-> pc, op |-> op, asker |-> asker, ctx |-> c, at |-> at, to |-> to, meant |-> meant,
     late |-> ~ IsOpen(c)]

Document(q) == q.op = "forward" /\ q.at # None

Starts(r, handling) == req[r] = Idle /\ req' = [req EXCEPT ![r] = handling]

Moves(r, pc) == req' = [req EXCEPT ![r].pc = pc]
Ends(r) == req' = [req EXCEPT ![r] = Idle]

----------------------------------------------------------------------------
(* The application routes; the user is authenticated (module Accounts).    *)

\* createContext: the egress is authorized, then the target ...
BeginCreate(r, u, o, via, compat) ==
    /\ req[r] = Idle
    /\ via \in proxies \cup {Direct}
    /\ req' = [req EXCEPT ![r] = [pc |-> "insert", op |-> "create", asker |-> u, to |-> o,
                                  via |-> via, compat |-> compat]]
    /\ UNCHANGED <<contexts, routes, tickets, sessions, proxies, deleting, channels>>

\* ... and one transaction inserts the context, its first route and a ticket.  A
\* proxy deleted meanwhile violates the foreign key, and the request fails.
CreateContext(r, c, t) ==
    LET q == req[r] IN
    /\ q.pc = "insert"
    /\ contexts[c] = Fresh /\ tickets[t] = NoTicket
    /\ IF q.via \in proxies \cup {Direct}
       THEN /\ contexts' = [contexts EXCEPT ![c] = [state |-> "open", owner |-> q.asker, url |-> q.to,
                                                    via |-> q.via, compat |-> q.compat]]
            /\ routes' = routes \cup {<<c, q.to>>}
            /\ tickets' = [tickets EXCEPT ![t] = [live |-> TRUE, user |-> q.asker, ctx |-> c,
                                                  uses |-> 0, meant |-> q.to]]
       ELSE UNCHANGED <<contexts, routes, tickets>>
    /\ Ends(r)
    /\ UNCHANGED <<sessions, proxies, deleting, channels>>

\* navigate: Context finds the user's open context.
Visible(c, u) == IsOpen(c) /\ Owns(u, c)
RouteLater == "update"
RouteFirst == "select"
BeginNavigate(r, u, c, o) ==
    /\ Visible(c, u)
    /\ Starts(r, Handling(RouteFirst, "navigate", u, c, o, o, o))
    /\ UNCHANGED <<contexts, routes, tickets, sessions, proxies, deleting, channels>>

CloseContext(c, u) ==
    /\ Visible(c, u) /\ ~ Locked(c)
    /\ contexts' = [contexts EXCEPT ![c].state = "closed"]
    /\ UNCHANGED <<routes, tickets, sessions, proxies, deleting, channels, req>>

----------------------------------------------------------------------------
(* Steps the handlers share.                                               *)

\* The user a handler acts for: in the proxy domain the owner of the route.
ActsFor(r) == IF req[r].op \in {"navigate", "bootstrap"} THEN req[r].asker ELSE contexts[req[r].ctx].owner

\* ResolveRoute: the context is open and the user's ...
SelectOwner(r) ==
    /\ req[r].pc = "select"
    /\ IF IsRow(req[r].ctx) /\ Visible(req[r].ctx, ActsFor(r)) THEN Moves(r, "insertRoute") ELSE Ends(r)
    /\ UNCHANGED <<contexts, routes, tickets, sessions, proxies, deleting, channels>>

\* ... then the route is inserted or found.  (A context deleted meanwhile violates
\* the foreign key.)
AfterRouteTicket(op) == CASE op = "navigate" -> "ticketSelect" [] op = "forward" -> "answer" [] OTHER -> "reply"
AfterRoute(op) == CASE op = "navigate" -> "update" [] op = "forward" -> "answer" [] OTHER -> "reply"

InsertRoute(r) ==
    LET q == req[r] IN
    /\ q.pc = "insertRoute"
    /\ ~ Locked(q.ctx)
    /\ IF IsRow(q.ctx) THEN /\ routes' = routes \cup {<<q.ctx, q.to>>}
            /\ req' = [req EXCEPT ![r].pc = AfterRoute(q.op), ![r].to = IF q.op = "forward" THEN None ELSE @]
       ELSE UNCHANGED routes /\ IF q.op = "forward" THEN Moves(r, "answer") ELSE Ends(r)
    /\ UNCHANGED <<contexts, tickets, sessions, proxies, deleting, channels>>

\* UpdateCurrentURL, whose failure nobody learns of: what it writes supersedes what
\* earlier navigations of the context meant.
Overtaken(q, c) == IF "meant" \in DOMAIN req[q] /\ req[q].ctx = c /\ req[q].meant # None
                   THEN [req[q] EXCEPT !.meant = Superseded] ELSE req[q]

UpdateCurrentURL(r) ==
    LET q == req[r]
        next == IF q.op = "navigate" THEN [q EXCEPT !.pc = "ticketSelect"] ELSE Idle IN
    /\ q.pc = "update"
    /\ \/ /\ ~ Locked(q.ctx)
          /\ contexts' = IF IsRow(q.ctx) THEN [contexts EXCEPT ![q.ctx].url = q.at] ELSE contexts
          /\ tickets' = [t \in Ticket |-> IF tickets[t].live /\ tickets[t].ctx = q.ctx
                                          THEN [tickets[t] EXCEPT !.meant = Superseded] ELSE tickets[t]]
          /\ req' = [s \in Request |-> IF s = r THEN next ELSE Overtaken(s, q.ctx)]
       \/ /\ req' = [req EXCEPT ![r] = IF next = Idle THEN Idle ELSE [next EXCEPT !.meant = Superseded]]
          /\ UNCHANGED <<contexts, tickets>>
    /\ UNCHANGED <<routes, sessions, proxies, deleting, channels>>

\* CreateTicket asks for the context again, then inserts.
TicketSelect(r) ==
    /\ req[r].pc = "ticketSelect"
    /\ IF IsRow(req[r].ctx) /\ Visible(req[r].ctx, req[r].asker) THEN Moves(r, "ticketInsert") ELSE Ends(r)
    /\ UNCHANGED <<contexts, routes, tickets, sessions, proxies, deleting, channels>>

TicketInsert(r, t) ==
    LET q == req[r] IN
    /\ q.pc = "ticketInsert"
    /\ tickets[t] = NoTicket /\ ~ Locked(q.ctx)
    /\ IF IsRow(q.ctx)
       THEN /\ tickets' = [tickets EXCEPT ![t] = [live |-> TRUE, user |-> q.asker, ctx |-> q.ctx,
                                                  uses |-> 0, meant |-> q.meant]]
            /\ Moves(r, "reply")
       ELSE UNCHANGED tickets /\ Ends(r)
    /\ UNCHANGED <<contexts, routes, sessions, proxies, deleting, channels>>

----------------------------------------------------------------------------
(* The proxy domain.                                                       *)

\* bootstrap: ConsumeTicket uses the ticket up and inserts a session ...
UnusedOrNot(t) == tickets[t].live
Unused(t) == tickets[t].live /\ tickets[t].uses = 0

ConsumeTicket(r, t) ==
    LET k == tickets[t] IN
    /\ Unused(t)
    /\ ~ Locked(k.ctx)
    /\ tickets' = [tickets EXCEPT ![t].uses = @ + 1]
    /\ sessions' = sessions \cup {k.user}
    /\ Starts(r, Handling("context", "bootstrap", k.user, k.ctx, None, None, k.meant))
    /\ UNCHANGED <<contexts, routes, proxies, deleting, channels>>

\* ... then reads where the context is.
ReadContext(r) ==
    LET c == req[r].ctx IN
    /\ req[r].pc = "context"
    /\ IF IsRow(c) /\ Visible(c, req[r].asker)
       THEN req' = [req EXCEPT ![r].pc = "select", ![r].to = contexts[c].url]
       ELSE Ends(r)
    /\ UNCHANGED <<contexts, routes, tickets, sessions, proxies, deleting, channels>>

\* ServeHTTP: RouteByLabel, then the credentials: a program token, the session
\* cookie, or a compatible context's page whose Origin is a route of the context.
RouteOfAny(c, o) == <<c, o>> \in routes /\ IsRow(c)
RouteByLabel(c, o) == <<c, o>> \in routes /\ IsOpen(c)

AuthenticateProxy(who) == who \in sessions
SessionByProgramToken(who) == who \in Programs

SomeSession(who, c) == SessionByProgramToken(who) \/ AuthenticateProxy(who)
Authenticated(who, c) == (SessionByProgramToken(who) \/ AuthenticateProxy(who)) /\ Owns(who, c)

\* compatibilityRequestAllowed: the Origin is a route of this context (mapProxyURLForContext).
CompatibilityAllowed(who, c) == contexts[c].compat /\ who = SamePage

ResolveURL(r, who, c, at, to) ==
    /\ RouteByLabel(c, at) /\ Authenticated(who, c)
    /\ Starts(r, Handling("select", "resolve", who, c, None, to, None))
    /\ UNCHANGED <<contexts, routes, tickets, sessions, proxies, deleting, channels>>

\* document: Sec-Fetch-Dest, which never comes with the compatibility mode's pass.
Forward(r, who, c, at, document) ==
    /\ RouteByLabel(c, at)
    /\ \/ Authenticated(who, c)
       \/ ~ document /\ CompatibilityAllowed(who, c)
    /\ Starts(r, Handling("exchange", "forward", who, c, IF document THEN at ELSE None, None, None))
    /\ UNCHANGED <<contexts, routes, tickets, sessions, proxies, deleting, channels>>

OpenChannel(who, c, at) ==
    /\ RouteByLabel(c, at) /\ Authenticated(who, c)
    /\ channels' = channels \cup {<<who, c>>}
    /\ UNCHANGED <<contexts, routes, tickets, sessions, proxies, deleting, req>>

CloseChannel(who, c) ==
    /\ <<who, c>> \in channels
    /\ channels' = channels \ {<<who, c>>}
    /\ UNCHANGED <<contexts, routes, tickets, sessions, proxies, deleting, req>>

\* A request of the multiplexer asks for no credential and for no route any more.
ChannelRequest(r, who, c) ==
    /\ <<who, c>> \in channels
    /\ Starts(r, Handling("exchange", "channel", who, c, None, None, None))
    /\ UNCHANGED <<contexts, routes, tickets, sessions, proxies, deleting, channels>>

\* The target answers; the egress is authorized again (module Access).
Exchange(r) ==
    LET c == req[r].ctx IN
    /\ req[r].pc = "exchange"
    /\ IF IsRow(c) /\ contexts[c].via \in proxies \cup {Direct}
       THEN Moves(r, "answer") ELSE Ends(r)
    /\ UNCHANGED <<contexts, routes, tickets, sessions, proxies, deleting, channels>>

\* Location, and rewriteURL for every other origin a page or style sheet names:
\* ResolveRoute.  (Where it finds no open context, the link becomes about:blank.)
Link(r, o) ==
    LET q == req[r] IN
    /\ q.pc = "answer" /\ q.op = "forward"
    /\ IsRow(q.ctx) /\ Visible(q.ctx, ActsFor(r))
    /\ req' = [req EXCEPT ![r].pc = "insertRoute", ![r].to = o]
    /\ UNCHANGED <<contexts, routes, tickets, sessions, proxies, deleting, channels>>

\* The reply is written; a document becomes the context's current page.
Reply(r) ==
    /\ req[r].pc \in {"answer", "reply"}
    /\ IF Document(req[r]) THEN Moves(r, "update") ELSE Ends(r)
    /\ UNCHANGED <<contexts, routes, tickets, sessions, proxies, deleting, channels>>

----------------------------------------------------------------------------
\* A refusal by policy or resolver, a failing statement or target, a client that is
\* gone: the handler ends.
HandlerFails(r) ==
    /\ req[r] # Idle
    /\ Ends(r)
    /\ UNCHANGED <<contexts, routes, tickets, sessions, proxies, deleting, channels>>

----------------------------------------------------------------------------
(* Deleting a proxy: its contexts with all that is theirs, then itself.    *)

BoundTo(p) == {c \in ContextId : IsRow(c) /\ contexts[c].via = p}

DeleteContexts(p) ==
    /\ p \in proxies /\ ~ deleting[p].open
    /\ deleting' = [deleting EXCEPT ![p] = [open |-> TRUE, rows |-> BoundTo(p)]]
    /\ UNCHANGED <<contexts, routes, tickets, sessions, proxies, channels, req>>

\* A context created since the first statement still refers to the proxy: the
\* foreign key fails the second one, and the transaction is rolled back.
NeverReferenced(p) == FALSE
StillReferenced(p) == ~ BoundTo(p) \subseteq deleting[p].rows

DeleteProxy(p) ==
    LET D == deleting[p].rows IN
    /\ deleting[p].open
    /\ deleting' = [deleting EXCEPT ![p] = NoDeletion]
    /\ IF StillReferenced(p) THEN UNCHANGED <<contexts, routes, tickets, proxies>>
       ELSE /\ contexts' = [c \in ContextId |-> IF c \in D THEN Deleted ELSE contexts[c]]
            /\ routes' = {x \in routes : x[1] \notin D}
            /\ tickets' = [t \in Ticket |-> IF tickets[t].live /\ tickets[t].ctx \in D THEN NoTicket ELSE tickets[t]]
            /\ proxies' = proxies \ {p}
    /\ UNCHANGED <<sessions, channels, req>>

----------------------------------------------------------------------------
(* Time.                                                                   *)

ExpireTicket(t) ==
    /\ tickets[t].live
    /\ tickets' = [tickets EXCEPT ![t] = NoTicket]
    /\ UNCHANGED <<contexts, routes, sessions, proxies, deleting, channels, req>>

ExpireSession(u) ==
    /\ u \in sessions
    /\ sessions' = sessions \ {u}
    /\ UNCHANGED <<contexts, routes, tickets, proxies, deleting, channels, req>>

----------------------------------------------------------------------------
Browser == User \cup {Stranger, SamePage}

AppRequest(r) ==
    \E u \in User, o \in Origin :
        \/ /\ u \in Creators
           /\ \E via \in Proxy \cup {Direct}, compat \in Modes : BeginCreate(r, u, o, via, compat)
        \/ \E c \in ContextId : BeginNavigate(r, u, c, o)

ProxyRequest(r) ==
    \/ \E t \in Ticket : ConsumeTicket(r, t)
    \/ \E who \in Browser, c \in ContextId :
        \/ \E at \in Origin : \/ \E to \in Origin : ResolveURL(r, who, c, at, to)
                              \/ \E document \in BOOLEAN : Forward(r, who, c, at, document)
        \/ ChannelRequest(r, who, c)

HandlerStep(r) ==
    \/ \E c \in ContextId, t \in Ticket : CreateContext(r, c, t)
    \/ SelectOwner(r) \/ InsertRoute(r) \/ UpdateCurrentURL(r)
    \/ TicketSelect(r) \/ \E t \in Ticket : TicketInsert(r, t)
    \/ ReadContext(r) \/ Exchange(r) \/ Reply(r)
    \/ \E o \in Origin : Link(r, o)

Next ==
    \/ \E r \in Request : AppRequest(r) \/ ProxyRequest(r) \/ HandlerStep(r) \/ HandlerFails(r)
    \/ \E u \in User, c \in ContextId : CloseContext(c, u)
    \/ \E who \in Browser, c \in ContextId : CloseChannel(who, c) \/ \E at \in Origin : OpenChannel(who, c, at)
    \/ \E p \in Proxy : DeleteContexts(p) \/ DeleteProxy(p)
    \/ \E t \in Ticket : ExpireTicket(t)
    \/ \E u \in User : ExpireSession(u)

Spec == Init /\ [][Next]_vars

----------------------------------------------------------------------------
(* Properties.                                                             *)

ContextRow == [state : {"open", "closed"}, owner : User, url : Origin, via : Proxy \cup {Direct}, compat : BOOLEAN]
TicketRow == [live : {TRUE}, user : User, ctx : ContextId, uses : {0, 1}, meant : Origin \cup {Superseded}]
Handler ==
    [pc : {"insert"}, op : {"create"}, asker : User, to : Origin, via : Proxy \cup {Direct}, compat : BOOLEAN]
    \cup [pc : {"select", "insertRoute", "update", "ticketSelect", "ticketInsert", "context", "exchange", "answer", "reply"},
          op : {"navigate", "bootstrap", "resolve", "forward", "channel"}, asker : Browser, ctx : ContextId,
          at : Origin \cup {None}, to : Origin \cup {None}, meant : Origin \cup {None, Superseded},
          late : BOOLEAN]

\* Types of the tables and handlers; a ticket is used at most once ("两分钟有效、只能使用
\* 一次", docs/architecture.md:13), and lives no longer than its context.
TypeOK ==
    /\ contexts \in [ContextId -> {Fresh, Deleted} \cup ContextRow]
    /\ routes \subseteq ContextId \X Origin
    /\ tickets \in [Ticket -> {NoTicket} \cup TicketRow]
    /\ sessions \subseteq User
    /\ proxies \subseteq Proxy
    /\ deleting \in [Proxy -> [open : BOOLEAN, rows : SUBSET ContextId]]
    /\ channels \subseteq Browser \X ContextId
    /\ req \in [Request -> {Idle} \cup Handler]
    /\ \A t \in Ticket : tickets[t].live => IsRow(tickets[t].ctx)

\* What a context's current_url names has a route, whichever of navigations, page loads,
\* failures and deletions overlap: navigate resolves the route before it writes the URL,
\* and a page was loaded through its own.  (A bootstrap's ResolveRoute would insert a
\* missing one, so what is at stake is that no target is written that was not resolved.)
CurrentUrlRouted == \A c \in ContextId : IsRow(c) => <<c, contexts[c].url>> \in routes

\* The bootstrap of a navigation's ticket leads where the navigation went, unless
\* another page of the same context was loaded or navigated to since, or the write
\* of current_url failed, which UpdateCurrentURL tells nobody.
LandsWhereNavigated ==
    \A r \in Request : req[r].pc \in {"select", "insertRoute", "reply"} /\ req[r].op = "bootstrap" =>
        req[r].meant \in {req[r].to, Superseded}

\* A context is served to its owner only, whose session or program token it takes;
\* in compatibility mode ordinary requests, no documents, also to a page of the
\* same context without them, and to none of another.
OwnerOnly ==
    \A r \in Request : req[r] # Idle /\ req[r].op # "create" /\ IsRow(req[r].ctx) =>
        \/ Owns(req[r].asker, req[r].ctx)
        \/ /\ contexts[req[r].ctx].compat /\ req[r].asker = SamePage
           /\ req[r].op = "forward" /\ ~ Document(req[r])

\* Once a context is closed, a request that comes later reaches no target and is given
\* no route: not with an old ticket, an open page's session or a navigation.  Only the
\* multiplexer connections accepted before go on (serveMux keeps its route).
ClosedContextSilent ==
    \A r \in Request : req[r] # Idle /\ req[r].op \notin {"create", "channel"} /\ req[r].late =>
        req[r].pc \notin {"exchange", "answer", "reply"}

\* A context keeps the egress it was created with: the proxy is not deleted from under
\* it, even when a context is created between the two statements of the deletion.
EgressStands == \A c \in ContextId : IsRow(c) => contexts[c].via \in proxies \cup {Direct}
=============================================================================
