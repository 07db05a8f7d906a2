--------------------------- MODULE Contexts_proofs ---------------------------
(***************************************************************************)
(* Proofs about Contexts, for any users, contexts, origins, tickets,       *)
(* proxies and handlers.                                                   *)
(***************************************************************************)
EXTENDS Contexts, TLAPS

----------------------------------------------------------------------------
(* The inductive invariant.                                                 *)

Via == Proxy \cup {Direct}
Pcs == {"select", "insertRoute", "update", "ticketSelect", "ticketInsert", "context", "exchange", "answer", "reply"}
Inserting == [pc : {"insert"}, op : {"create"}, asker : User, to : Origin, via : Via, compat : BOOLEAN]
Serving ==
    [pc : Pcs, op : {"navigate", "bootstrap", "resolve", "forward", "channel"}, asker : Browser, ctx : ContextId,
     at : Origin \cup {None}, to : Origin \cup {None}, meant : Origin \cup {None, Superseded}, late : BOOLEAN]

\* The rows cs of proxy_contexts, of which c may be one.
RowIn(cs, c) == cs[c].state \in {"open", "closed"}
OpenIn(cs, c) == cs[c].state = "open"

\* Which steps each operation takes, and what they may rely on.
OnItsWay(v) ==
    /\ v.op = "navigate" =>
          /\ v.pc \in {"select", "insertRoute", "update", "ticketSelect", "ticketInsert", "reply"}
          /\ v.asker \in User /\ v.at \in Origin /\ v.to = v.at /\ v.meant \in {v.at, Superseded}
    /\ v.op = "bootstrap" =>
          /\ v.pc \in {"context", "select", "insertRoute", "reply"}
          /\ v.asker \in User /\ v.meant \in Origin \cup {Superseded}
          /\ v.pc # "context" => v.to \in Origin /\ v.meant \in {v.to, Superseded}
    /\ v.op = "resolve" => v.pc \in {"select", "insertRoute", "reply"} /\ v.to \in Origin
    /\ v.op = "forward" =>
          /\ v.pc \in {"exchange", "answer", "insertRoute", "update"}
          /\ v.pc = "insertRoute" => v.to \in Origin
          /\ v.pc = "update" => v.at # None
    /\ v.op = "channel" => v.pc \in {"exchange", "answer"}

\* A handler at work for the context v.ctx of the rows cs and the routes rs: it serves
\* the owner, has routed what it will write to current_url, leads where it was meant to,
\* and found the context open if it will reach a target.
Stands(v, cs, rs) ==
    /\ OnItsWay(v)
    /\ cs[v.ctx] # Fresh
    /\ v.late => ~ OpenIn(cs, v.ctx) /\ (v.op = "channel" \/ v.pc = "context")
    /\ RowIn(cs, v.ctx) =>
          /\ cs[v.ctx].owner = v.asker \/ (cs[v.ctx].compat /\ v.asker = SamePage /\ v.op = "forward" /\ ~ Document(v))
          /\ v.pc = "update" \/ Document(v) => <<v.ctx, v.at>> \in rs
          /\ v.pc \in {"ticketSelect", "ticketInsert", "context"} => v.meant \in {cs[v.ctx].url, Superseded}

AtWork(v) == v.pc \notin {"idle", "insert"}

HandlersStand == \A r \in Request : AtWork(req[r]) => Stands(req[r], contexts, routes)

\* A ticket is its owner's, and leads to the current page unless that was overtaken.
TicketStands(k, cs) ==
    RowIn(cs, k.ctx) /\ cs[k.ctx].owner = k.user /\ k.meant \in {cs[k.ctx].url, Superseded}

TicketsStand == \A t \in Ticket : tickets[t].live => TicketStands(tickets[t], contexts)

ChannelsStand ==
    \A who \in Browser, c \in ContextId : <<who, c>> \in channels =>
        contexts[c] # Fresh /\ (RowIn(contexts, c) => contexts[c].owner = who)

IInv == TypeOK /\ HandlersStand /\ TicketsStand /\ ChannelsStand /\ CurrentUrlRouted /\ EgressStands

----------------------------------------------------------------------------
(* The states of handlers.                                                  *)

LEMMA Handlers == Handler = Inserting \cup Serving
  BY DEF Handler, Inserting, Serving, Via, Pcs

LEMMA Shapes ==
  ASSUME NEW v \in {Idle} \cup Handler
  PROVE  /\ v.pc = "idle" <=> v = Idle
         /\ v.pc = "insert" <=> v \in Inserting
         /\ AtWork(v) <=> v \in Serving
         /\ v \in Serving <=> v.pc \in Pcs
         /\ "meant" \in DOMAIN v <=> v \in Serving
  BY Handlers DEF Idle, AtWork, Inserting, Serving, Pcs

\* The values of a handler are what its types say.
LEMMA Fields ==
  ASSUME NEW v \in Serving
  PROVE  /\ v.pc \in Pcs /\ v.asker \in Browser /\ v.ctx \in ContextId /\ v.at \in Origin \cup {None}
         /\ v.to \in Origin \cup {None} /\ v.meant \in Origin \cup {None, Superseded}
         /\ v.op \in {"navigate", "bootstrap", "resolve", "forward", "channel"}
  BY DEF Serving

\* A handler that goes on, to a step, an origin and what was meant.
On(v, pc, to, meant) ==
    [pc |-> pc, op |-> v.op, asker |-> v.asker, ctx |-> v.ctx, at |-> v.at, to |-> to, meant |-> meant, late |-> v.late]

LEMMA GoesOn ==
  ASSUME NEW v \in Serving, NEW pc \in Pcs, NEW to \in Origin \cup {None}, NEW meant \in Origin \cup {None, Superseded}
  PROVE  /\ On(v, pc, to, meant) \in Serving /\ AtWork(On(v, pc, to, meant))
         /\ On(v, pc, to, meant).pc = pc /\ On(v, pc, to, meant).to = to /\ On(v, pc, to, meant).meant = meant
         /\ On(v, pc, to, meant).op = v.op /\ On(v, pc, to, meant).asker = v.asker
         /\ On(v, pc, to, meant).ctx = v.ctx /\ On(v, pc, to, meant).at = v.at
         /\ Document(On(v, pc, to, meant)) <=> Document(v)
  BY DEF Serving, On, AtWork, Document, Pcs

LEMMA OnServing ==
  ASSUME NEW v \in Serving, NEW pc \in Pcs
  PROVE  On(v, pc, v.to, v.meant) \in Serving /\ On(v, pc, v.to, Superseded) \in Serving
  BY DEF Serving, On

LEMMA OnLate == ASSUME NEW v, NEW pc, NEW to, NEW meant PROVE On(v, pc, to, meant).late = v.late
  BY DEF On

LEMMA SetsPc == ASSUME NEW v \in Serving, NEW pc \in Pcs PROVE [v EXCEPT !.pc = pc] = On(v, pc, v.to, v.meant)
  BY DEF Serving, On

LEMMA SetsTo ==
  ASSUME NEW v \in Serving, NEW to \in Origin \cup {None}
  PROVE  [v EXCEPT !.to = to] = On(v, v.pc, to, v.meant)
  BY DEF Serving, On

LEMMA SetsMeant == ASSUME NEW v \in Serving PROVE [v EXCEPT !.meant = Superseded] = On(v, v.pc, v.to, Superseded)
  BY DEF Serving, On

LEMMA SetsBoth ==
  ASSUME NEW v \in Serving, NEW pc \in Pcs, NEW to \in Origin \cup {None}
  PROVE  /\ [v EXCEPT !.pc = pc, !.to = to] = On(v, pc, to, v.meant)
         /\ [[v EXCEPT !.pc = pc] EXCEPT !.meant = Superseded] = On(v, pc, v.to, Superseded)
<1> DEFINE w == [v EXCEPT !.pc = pc]
<1>1. w = On(v, pc, v.to, v.meant) /\ w \in Serving
  <2>1. w = On(v, pc, v.to, v.meant)
    BY SetsPc
  <2>2. On(v, pc, v.to, v.meant) \in Serving
    BY GoesOn, Fields
  <2> HIDE DEF w
  <2> QED
    BY <2>1, <2>2
<1>2. [w EXCEPT !.to = to] = On(w, w.pc, to, w.meant) /\ [w EXCEPT !.meant = Superseded] = On(w, w.pc, w.to, Superseded)
  BY <1>1, SetsTo, SetsMeant
<1>3. [v EXCEPT !.pc = pc, !.to = to] = [w EXCEPT !.to = to]
  OBVIOUS
<1>4. On(w, w.pc, to, w.meant) = On(v, pc, to, v.meant) /\ On(w, w.pc, w.to, Superseded) = On(v, pc, v.to, Superseded)
  BY <1>1 DEF On
<1> QED
  BY <1>2, <1>3, <1>4

----------------------------------------------------------------------------
(* What steps have in common.                                               *)

Tables ==
    /\ contexts \in [ContextId -> {Fresh, Deleted} \cup ContextRow]
    /\ routes \subseteq ContextId \X Origin
    /\ tickets \in [Ticket -> {NoTicket} \cup TicketRow]
    /\ sessions \subseteq User
    /\ proxies \subseteq Proxy
    /\ deleting \in [Proxy -> [open : BOOLEAN, rows : SUBSET ContextId]]
    /\ channels \subseteq Browser \X ContextId

LEMMA Typed ==
  IInv <=> /\ Tables /\ req \in [Request -> {Idle} \cup Handler]
           /\ HandlersStand /\ TicketsStand /\ ChannelsStand /\ CurrentUrlRouted /\ EgressStands
  BY DEF IInv, TypeOK, Tables, TicketsStand, TicketStands, RowIn, IsRow

LEMMA TypedNext ==
  ASSUME Tables', req' \in [Request -> {Idle} \cup Handler], HandlersStand', TicketsStand', ChannelsStand',
         CurrentUrlRouted', EgressStands'
  PROVE  IInv'
  BY DEF IInv, TypeOK, Tables, TicketsStand, TicketStands, RowIn, IsRow

\* The names of the predicates on rows, and what a row is.
LEMMA RowsNow == \A c : /\ IsRow(c) <=> RowIn(contexts, c)
                        /\ IsOpen(c) <=> OpenIn(contexts, c)
                        /\ OpenIn(contexts, c) => RowIn(contexts, c)
  BY DEF IsRow, IsOpen, RowIn, OpenIn

LEMMA RowsNext == \A c : IsRow(c)' <=> RowIn(contexts', c)
  BY DEF IsRow, RowIn

LEMMA RowValues ==
  ASSUME NEW cs \in [ContextId -> {Fresh, Deleted} \cup ContextRow], NEW c \in ContextId
  PROVE  /\ RowIn(cs, c) <=> cs[c] \in ContextRow
         /\ RowIn(cs, c) <=> cs[c] \notin {Fresh, Deleted}
         /\ OpenIn(cs, c) => RowIn(cs, c)
         /\ Fresh # Deleted
         /\ RowIn(cs, c) => cs[c].owner \in User /\ cs[c].url \in Origin /\ cs[c].via \in Via
  BY DEF RowIn, OpenIn, Fresh, Deleted, ContextRow, Via

LEMMA NoTicketDead == ~ NoTicket.live
  BY DEF NoTicket

LEMMA LiveTicket ==
  ASSUME NEW ts \in [Ticket -> {NoTicket} \cup TicketRow], NEW t \in Ticket, ts[t].live
  PROVE  /\ ts[t] \in TicketRow /\ ts[t].user \in User /\ ts[t].ctx \in ContextId
         /\ ts[t].meant \in Origin \cup {Superseded} /\ ts[t].uses \in {0, 1}
  BY NoTicketDead DEF TicketRow

\* The rows only lose or close what is at work: cs, rs become ds, ss.
Ages(cs, rs, ds, ss) ==
    \A c \in ContextId : cs[c] # Fresh =>
        /\ ds[c] # Fresh
        /\ OpenIn(ds, c) => OpenIn(cs, c)
        /\ RowIn(ds, c) =>
              /\ RowIn(cs, c) /\ ds[c].owner = cs[c].owner /\ ds[c].url = cs[c].url /\ ds[c].compat = cs[c].compat
              /\ \A o \in Origin : <<c, o>> \in rs => <<c, o>> \in ss

\* Handlers, tickets and channels stand whatever becomes of the rows.
LEMMA StandsOn ==
  ASSUME NEW v \in Serving, NEW cs, NEW rs, NEW ds, NEW ss, Stands(v, cs, rs), Ages(cs, rs, ds, ss)
  PROVE  Stands(v, ds, ss)
<1>1. v.ctx \in ContextId /\ v.at \in Origin \cup {None}
  BY Fields
<1>2. cs[v.ctx] # Fresh /\ OnItsWay(v) /\ (v.late => ~ OpenIn(cs, v.ctx) /\ (v.op = "channel" \/ v.pc = "context"))
  BY DEF Stands
<1>3. /\ ds[v.ctx] # Fresh
      /\ v.late => ~ OpenIn(ds, v.ctx) /\ (v.op = "channel" \/ v.pc = "context")
  BY <1>1, <1>2 DEF Ages
<1>4. ASSUME RowIn(ds, v.ctx)
      PROVE  /\ ds[v.ctx].owner = v.asker \/ (ds[v.ctx].compat /\ v.asker = SamePage /\ v.op = "forward" /\ ~ Document(v))
             /\ v.pc = "update" \/ Document(v) => <<v.ctx, v.at>> \in ss
             /\ v.pc \in {"ticketSelect", "ticketInsert", "context"} => v.meant \in {ds[v.ctx].url, Superseded}
  <2>1. /\ RowIn(cs, v.ctx) /\ ds[v.ctx].owner = cs[v.ctx].owner /\ ds[v.ctx].url = cs[v.ctx].url
        /\ ds[v.ctx].compat = cs[v.ctx].compat
        /\ \A o \in Origin : <<v.ctx, o>> \in rs => <<v.ctx, o>> \in ss
    BY <1>1, <1>2, <1>4 DEF Ages
  <2>2. v.pc = "update" \/ Document(v) => v.at \in Origin
    BY <1>1, <1>2, Fields DEF OnItsWay, Document
  <2>3. v.pc = "update" \/ Document(v) => <<v.ctx, v.at>> \in ss
    BY <2>1, <2>2 DEF Stands
  <2> QED
    BY <2>1, <2>3 DEF Stands
<1> QED
  BY <1>2, <1>3, <1>4 DEF Stands

\* A step that ages the rows, whose tickets and channels stand, and which no handler moves
\* in but as it may.
LEMMA StepKeeps ==
  ASSUME IInv, Tables', req' \in [Request -> {Idle} \cup Handler], Ages(contexts, routes, contexts', routes'),
         \A q \in Request : req'[q] = req[q] \/ (AtWork(req'[q]) => Stands(req'[q], contexts', routes')),
         \A t \in Ticket : tickets'[t].live => TicketStands(tickets'[t], contexts'),
         \A who \in Browser, c \in ContextId : <<who, c>> \in channels' =>
            \/ <<who, c>> \in channels
            \/ contexts'[c] # Fresh /\ (RowIn(contexts', c) => contexts'[c].owner = who),
         CurrentUrlRouted', EgressStands'
  PROVE  IInv'
<1>1. ASSUME NEW q \in Request, AtWork(req'[q]), req'[q] = req[q] PROVE Stands(req'[q], contexts', routes')
  <2>1. req[q] \in Serving
    BY <1>1, Typed, Shapes
  <2>2. Stands(req[q], contexts, routes)
    BY <1>1 DEF IInv, HandlersStand
  <2> QED
    BY <1>1, <2>1, <2>2, StandsOn
<1>2. HandlersStand' /\ TicketsStand'
  BY <1>1 DEF HandlersStand, TicketsStand
<1>3. ChannelsStand'
  BY DEF IInv, ChannelsStand, Ages
<1> QED
  BY <1>2, <1>3, TypedNext

LEMMA MoveKeeps ==
  ASSUME IInv, NEW r \in Request, NEW to \in {Idle} \cup Handler, req' = [req EXCEPT ![r] = to],
         Tables', Ages(contexts, routes, contexts', routes'),
         AtWork(to) => Stands(to, contexts', routes'),
         \A t \in Ticket : tickets'[t].live => TicketStands(tickets'[t], contexts'),
         channels' = channels, CurrentUrlRouted', EgressStands'
  PROVE  IInv'
<1>1. req \in [Request -> {Idle} \cup Handler]
  BY Typed
<1>2. /\ req' \in [Request -> {Idle} \cup Handler]
      /\ \A q \in Request : req'[q] = req[q] \/ (AtWork(req'[q]) => Stands(req'[q], contexts', routes'))
  BY <1>1
<1> QED
  BY <1>2, StepKeeps

\* Tickets stand when the rows age.
LEMMA TicketsAge ==
  ASSUME IInv, Ages(contexts, routes, contexts', routes'), NEW t \in Ticket, tickets[t].live,
         RowIn(contexts', tickets[t].ctx)
  PROVE  TicketStands(tickets[t], contexts')
<1>1. tickets[t].ctx \in ContextId
  BY LiveTicket, Typed DEF Tables
<1>2. TicketStands(tickets[t], contexts) /\ contexts[tickets[t].ctx] # Fresh
  BY <1>1, RowValues, Typed DEF IInv, TicketsStand, TicketStands, Tables
<1> QED
  BY <1>1, <1>2 DEF TicketStands, Ages

\* Only a handler moves.
LEMMA OnlyMoves ==
  ASSUME IInv, NEW r \in Request, NEW to \in {Idle} \cup Handler, req' = [req EXCEPT ![r] = to],
         AtWork(to) => Stands(to, contexts, routes),
         UNCHANGED <<contexts, routes, tickets, sessions, proxies, deleting, channels>>
  PROVE  IInv'
<1>t. Tables
  BY Typed
<1>1. Ages(contexts, routes, contexts', routes')
  BY DEF Ages
<1>2. Tables'
  BY <1>t DEF Tables
<1>3. CurrentUrlRouted' /\ EgressStands'
  BY DEF IInv, CurrentUrlRouted, EgressStands, IsRow
<1>4. \A t \in Ticket : tickets'[t].live => TicketStands(tickets'[t], contexts')
  BY DEF IInv, TicketsStand
<1> QED
  BY <1>1, <1>2, <1>3, <1>4, MoveKeeps

----------------------------------------------------------------------------
(* Steps that only move a handler.                                          *)

\* What is known of a handler that is at work.
LEMMA Serves ==
  ASSUME IInv, NEW r \in Request, req[r].pc \in Pcs
  PROVE  req[r] \in Serving /\ Stands(req[r], contexts, routes) /\ contexts[req[r].ctx] \in {Fresh, Deleted} \cup ContextRow
<1>1. req[r] \in Serving /\ AtWork(req[r])
  BY Typed, Shapes
<1> QED
  BY <1>1, Fields, Typed DEF IInv, HandlersStand, Tables

LEMMA EndKeeps ==
  ASSUME IInv, NEW r \in Request, Ends(r),
         UNCHANGED <<contexts, routes, tickets, sessions, proxies, deleting, channels>>
  PROVE  IInv'
<1>1. ~ AtWork(Idle)
  BY DEF AtWork, Idle
<1> QED
  BY <1>1, OnlyMoves DEF Ends

\* A handler that goes on to a step of its operation, where what that step relies on holds.
LEMMA GoKeeps ==
  ASSUME IInv, NEW r \in Request, req[r].pc \in Pcs, NEW pc \in Pcs, NEW to \in Origin \cup {None},
         req' = [req EXCEPT ![r] = On(req[r], pc, to, req[r].meant)],
         UNCHANGED <<contexts, routes, tickets, sessions, proxies, deleting, channels>>,
         Stands(On(req[r], pc, to, req[r].meant), contexts, routes)
  PROVE  IInv'
<1>1. req[r] \in Serving
  BY Serves
<1>2. On(req[r], pc, to, req[r].meant) \in Handler
  BY <1>1, GoesOn, Fields, Handlers
<1> QED
  BY <1>2, OnlyMoves

LEMMA BeginCreateKeeps ==
  ASSUME IInv, NEW r \in Request, NEW u \in User, NEW o \in Origin, NEW via \in Via, NEW compat \in Modes,
         BeginCreate(r, u, o, via, compat)
  PROVE  IInv'
<1> DEFINE to == [pc |-> "insert", op |-> "create", asker |-> u, to |-> o, via |-> via, compat |-> compat]
<1>1. to \in Handler /\ ~ AtWork(to)
  BY ContextsAssumption, Handlers DEF Inserting, AtWork
<1>2. /\ req' = [req EXCEPT ![r] = to]
      /\ UNCHANGED <<contexts, routes, tickets, sessions, proxies, deleting, channels>>
  BY DEF BeginCreate
<1> HIDE DEF to
<1> QED
  BY <1>1, <1>2, OnlyMoves

\* A handler begins for the owner, or for a page of a compatible context.
LEMMA StartKeeps ==
  ASSUME IInv, NEW r \in Request, NEW to \in Serving, Starts(r, to), Stands(to, contexts, routes),
         UNCHANGED <<contexts, routes, tickets, sessions, proxies, deleting, channels>>
  PROVE  IInv'
  BY OnlyMoves, Handlers DEF Starts

LEMMA HandlingStarts ==
  ASSUME NEW pc \in Pcs, NEW op \in {"navigate", "bootstrap", "resolve", "forward", "channel"}, NEW who \in Browser,
         NEW c \in ContextId, NEW at \in Origin \cup {None}, NEW to \in Origin \cup {None},
         NEW meant \in Origin \cup {None, Superseded}
  PROVE  LET v == Handling(pc, op, who, c, at, to, meant) IN
         /\ v \in Serving
         /\ v.pc = pc /\ v.op = op /\ v.asker = who /\ v.ctx = c /\ v.at = at /\ v.to = to /\ v.meant = meant
         /\ Document(v) <=> op = "forward" /\ at # None
  BY DEF Handling, Serving, Document

LEMMA HandlingLate ==
  ASSUME NEW pc, NEW op, NEW who, NEW c, NEW at, NEW to, NEW meant
  PROVE  Handling(pc, op, who, c, at, to, meant).late = ~ OpenIn(contexts, c)
  BY DEF Handling, IsOpen, OpenIn

LEMMA BeginNavigateKeeps ==
  ASSUME IInv, NEW r \in Request, NEW u \in User, NEW c \in ContextId, NEW o \in Origin, BeginNavigate(r, u, c, o)
  PROVE  IInv'
<1> DEFINE v == Handling("select", "navigate", u, c, o, o, o)
<1>1. Starts(r, v) /\ Visible(c, u) /\ UNCHANGED <<contexts, routes, tickets, sessions, proxies, deleting, channels>>
  BY DEF BeginNavigate, RouteFirst
<1>2. /\ v \in Serving /\ ~ Document(v)
      /\ v.pc = "select" /\ v.op = "navigate" /\ v.asker = u /\ v.ctx = c /\ v.at = o /\ v.to = o /\ v.meant = o
  BY HandlingStarts DEF Pcs, Browser
<1>3. ~ v.late
  BY <1>1, HandlingLate, RowsNow DEF Visible
<1>4. contexts[c].owner = u /\ contexts[c] # Fresh
  BY <1>1, RowsNow, RowValues, Typed DEF Visible, Owns, Tables
<1>5. Stands(v, contexts, routes)
  BY <1>2, <1>3, <1>4 DEF Stands, OnItsWay
<1> QED
  BY <1>1, <1>2, <1>5, StartKeeps

LEMMA ResolveURLKeeps ==
  ASSUME IInv, NEW r \in Request, NEW who \in Browser, NEW c \in ContextId, NEW at \in Origin, NEW to \in Origin,
         ResolveURL(r, who, c, at, to)
  PROVE  IInv'
<1> DEFINE v == Handling("select", "resolve", who, c, None, to, None)
<1>1. /\ Starts(r, v) /\ RouteByLabel(c, at) /\ Owns(who, c)
      /\ UNCHANGED <<contexts, routes, tickets, sessions, proxies, deleting, channels>>
  BY DEF ResolveURL, Authenticated
<1>2. /\ v \in Serving /\ ~ Document(v)
      /\ v.pc = "select" /\ v.op = "resolve" /\ v.asker = who /\ v.ctx = c /\ v.at = None /\ v.to = to
  BY DEF Handling, Serving, Document, Pcs
<1>3. ~ v.late
  BY <1>1, HandlingLate, RowsNow DEF RouteByLabel
<1>4. contexts[c].owner = who /\ contexts[c] # Fresh
  BY <1>1, RowsNow, RowValues, Typed DEF RouteByLabel, Owns, Tables
<1>5. Stands(v, contexts, routes)
  BY <1>2, <1>3, <1>4 DEF Stands, OnItsWay
<1> QED
  BY <1>1, <1>2, <1>5, StartKeeps

LEMMA ForwardKeeps ==
  ASSUME IInv, NEW r \in Request, NEW who \in Browser, NEW c \in ContextId, NEW at \in Origin, NEW document \in BOOLEAN,
         Forward(r, who, c, at, document)
  PROVE  IInv'
<1> DEFINE page == IF document THEN at ELSE None
           v == Handling("exchange", "forward", who, c, page, None, None)
<1>1. /\ Starts(r, v) /\ RouteByLabel(c, at)
      /\ Owns(who, c) \/ (~ document /\ contexts[c].compat /\ who = SamePage)
      /\ UNCHANGED <<contexts, routes, tickets, sessions, proxies, deleting, channels>>
  BY DEF Forward, Authenticated, CompatibilityAllowed
<1>2. /\ v \in Serving /\ (Document(v) <=> page # None)
      /\ v.pc = "exchange" /\ v.op = "forward" /\ v.asker = who /\ v.ctx = c /\ v.at = page
  <2>1. page \in Origin \cup {None}
    OBVIOUS
  <2> HIDE DEF page
  <2> QED
    BY <2>1 DEF Handling, Serving, Document, Pcs
<1>3. ~ v.late
  BY <1>1, HandlingLate, RowsNow DEF RouteByLabel
<1>4. contexts[c] # Fresh /\ <<c, at>> \in routes
  BY <1>1, RowsNow, RowValues, Typed DEF RouteByLabel, Tables
<1>5. (page # None <=> document) /\ (document => page = at)
  BY ContextsAssumption
<1>6. Stands(v, contexts, routes)
  BY <1>1, <1>2, <1>3, <1>4, <1>5 DEF Stands, OnItsWay, Owns
<1> QED
  BY <1>1, <1>2, <1>6, StartKeeps

LEMMA ChannelRequestKeeps ==
  ASSUME IInv, NEW r \in Request, NEW who \in Browser, NEW c \in ContextId, ChannelRequest(r, who, c)
  PROVE  IInv'
<1> DEFINE v == Handling("exchange", "channel", who, c, None, None, None)
<1>1. /\ Starts(r, v) /\ <<who, c>> \in channels
      /\ UNCHANGED <<contexts, routes, tickets, sessions, proxies, deleting, channels>>
  BY DEF ChannelRequest
<1>2. /\ v \in Serving /\ ~ Document(v)
      /\ v.pc = "exchange" /\ v.op = "channel" /\ v.asker = who /\ v.ctx = c
  BY HandlingStarts DEF Pcs
<1>3. v.late => ~ OpenIn(contexts, c)
  BY HandlingLate
<1>4. contexts[c] # Fresh /\ (RowIn(contexts, c) => contexts[c].owner = who)
  BY <1>1 DEF IInv, ChannelsStand
<1>5. Stands(v, contexts, routes)
  BY <1>2, <1>3, <1>4 DEF Stands, OnItsWay
<1> QED
  BY <1>1, <1>2, <1>5, StartKeeps

LEMMA SelectOwnerKeeps == ASSUME IInv, NEW r \in Request, SelectOwner(r) PROVE IInv'
<1> DEFINE v == req[r]
           w == On(v, "insertRoute", v.to, v.meant)
<1>1. /\ v.pc = "select" /\ v.pc \in Pcs
      /\ (Moves(r, "insertRoute") /\ IsOpen(v.ctx)) \/ Ends(r)
      /\ UNCHANGED <<contexts, routes, tickets, sessions, proxies, deleting, channels>>
  BY DEF SelectOwner, Pcs, Visible
<1>2. v \in Serving /\ Stands(v, contexts, routes)
  BY <1>1, Serves
<1>3. CASE Ends(r)
  BY <1>1, <1>3, EndKeeps
<1>4. CASE Moves(r, "insertRoute")
  <2>1. req' = [req EXCEPT ![r] = w]
    BY <1>2, <1>4, SetsPc DEF Moves, Pcs
  <2>2. /\ w.pc = "insertRoute" /\ w.to = v.to /\ w.meant = v.meant /\ w.op = v.op /\ w.asker = v.asker
        /\ w.ctx = v.ctx /\ w.at = v.at /\ (Document(w) <=> Document(v)) /\ w.late = v.late
    BY <1>2 DEF On, Document
  <2> HIDE DEF w
  <2>3. Stands(w, contexts, routes)
    BY <1>1, <1>2, <2>2, Fields DEF Stands, OnItsWay
  <2>4. v.to \in Origin \cup {None} /\ w.pc \in Pcs
    BY <1>2, <2>2, Fields DEF Pcs
  <2>5. w = On(v, w.pc, v.to, v.meant)
    BY <2>2 DEF w
  <2> QED
    BY <1>1, <2>1, <2>3, <2>4, <2>5, GoKeeps
<1> QED
  BY <1>1, <1>3, <1>4

LEMMA TicketSelectKeeps == ASSUME IInv, NEW r \in Request, TicketSelect(r) PROVE IInv'
<1> DEFINE v == req[r]
           w == On(v, "ticketInsert", v.to, v.meant)
<1>1. /\ v.pc = "ticketSelect" /\ v.pc \in Pcs
      /\ Moves(r, "ticketInsert") \/ Ends(r)
      /\ UNCHANGED <<contexts, routes, tickets, sessions, proxies, deleting, channels>>
  BY DEF TicketSelect, Pcs
<1>2. v \in Serving /\ Stands(v, contexts, routes)
  BY <1>1, Serves
<1>3. CASE Ends(r)
  BY <1>1, <1>3, EndKeeps
<1>4. CASE Moves(r, "ticketInsert")
  <2>1. req' = [req EXCEPT ![r] = w]
    BY <1>2, <1>4, SetsPc DEF Moves, Pcs
  <2>2. /\ w.pc = "ticketInsert" /\ w.to = v.to /\ w.meant = v.meant /\ w.op = v.op /\ w.asker = v.asker
        /\ w.ctx = v.ctx /\ w.at = v.at /\ (Document(w) <=> Document(v)) /\ w.late = v.late
    BY <1>2 DEF On, Document
  <2> HIDE DEF w
  <2>3. Stands(w, contexts, routes)
    BY <1>1, <1>2, <2>2, Fields DEF Stands, OnItsWay
  <2>4. v.to \in Origin \cup {None} /\ w.pc \in Pcs
    BY <1>2, <2>2, Fields DEF Pcs
  <2>5. w = On(v, w.pc, v.to, v.meant)
    BY <2>2 DEF w
  <2> QED
    BY <1>1, <2>1, <2>3, <2>4, <2>5, GoKeeps
<1> QED
  BY <1>1, <1>3, <1>4

\* The bootstrap leads where the context is.
LEMMA ReadContextKeeps == ASSUME IInv, NEW r \in Request, ReadContext(r) PROVE IInv'
<1> DEFINE v == req[r]
           url == contexts[v.ctx].url
           w == On(v, "select", url, v.meant)
<1>1. /\ v.pc = "context" /\ v.pc \in Pcs
      /\ \/ IsOpen(v.ctx) /\ req' = [req EXCEPT ![r] = [v EXCEPT !.pc = "select", !.to = url]]
         \/ Ends(r)
      /\ UNCHANGED <<contexts, routes, tickets, sessions, proxies, deleting, channels>>
  BY DEF ReadContext, Pcs, Visible
<1>2. v \in Serving /\ Stands(v, contexts, routes)
  BY <1>1, Serves
<1>3. CASE Ends(r)
  BY <1>1, <1>3, EndKeeps
<1>4. CASE IsOpen(v.ctx) /\ req' = [req EXCEPT ![r] = [v EXCEPT !.pc = "select", !.to = url]]
  <2>1. url \in Origin /\ OpenIn(contexts, v.ctx) /\ RowIn(contexts, v.ctx)
    BY <1>2, <1>4, Fields, RowsNow, RowValues, Typed DEF Tables
  <2>2. [v EXCEPT !.pc = "select", !.to = url] = w
    BY <1>2, <2>1, SetsBoth DEF Pcs
  <2>3. /\ w.pc = "select" /\ w.to = url /\ w.meant = v.meant /\ w.op = v.op /\ w.asker = v.asker
        /\ w.ctx = v.ctx /\ w.at = v.at /\ (Document(w) <=> Document(v)) /\ w.late = v.late
    BY <1>2 DEF On, Document
  <2>4. v.op = "bootstrap" /\ v.meant \in {url, Superseded} /\ ~ v.late
    BY <1>1, <1>2, <2>1, Fields DEF Stands, OnItsWay
  <2> HIDE DEF w
  <2>5. Stands(w, contexts, routes)
    BY <1>1, <1>2, <2>1, <2>3, <2>4, Fields DEF Stands, OnItsWay
  <2>6. req' = [req EXCEPT ![r] = w]
    BY <1>4, <2>2
  <2> QED
    BY <1>1, <1>2, <2>1, <2>5, <2>6, GoKeeps DEF w, Pcs
<1> QED
  BY <1>1, <1>3, <1>4

LEMMA ExchangeKeeps == ASSUME IInv, NEW r \in Request, Exchange(r) PROVE IInv'
<1> DEFINE v == req[r]
           w == On(v, "answer", v.to, v.meant)
<1>1. /\ v.pc = "exchange" /\ v.pc \in Pcs
      /\ Moves(r, "answer") \/ Ends(r)
      /\ UNCHANGED <<contexts, routes, tickets, sessions, proxies, deleting, channels>>
  BY DEF Exchange, Pcs
<1>2. v \in Serving /\ Stands(v, contexts, routes)
  BY <1>1, Serves
<1>3. CASE Ends(r)
  BY <1>1, <1>3, EndKeeps
<1>4. CASE Moves(r, "answer")
  <2>1. req' = [req EXCEPT ![r] = w]
    BY <1>2, <1>4, SetsPc DEF Moves, Pcs
  <2>2. /\ w.pc = "answer" /\ w.to = v.to /\ w.meant = v.meant /\ w.op = v.op /\ w.asker = v.asker
        /\ w.ctx = v.ctx /\ w.at = v.at /\ (Document(w) <=> Document(v)) /\ w.late = v.late
    BY <1>2 DEF On, Document
  <2> HIDE DEF w
  <2>3. Stands(w, contexts, routes)
    BY <1>1, <1>2, <2>2, Fields DEF Stands, OnItsWay
  <2>4. v.to \in Origin \cup {None} /\ w.pc \in Pcs
    BY <1>2, <2>2, Fields DEF Pcs
  <2>5. w = On(v, w.pc, v.to, v.meant)
    BY <2>2 DEF w
  <2> QED
    BY <1>1, <2>1, <2>3, <2>4, <2>5, GoKeeps
<1> QED
  BY <1>1, <1>3, <1>4

LEMMA LinkKeeps == ASSUME IInv, NEW r \in Request, NEW o \in Origin, Link(r, o) PROVE IInv'
<1> DEFINE v == req[r]
           w == On(v, "insertRoute", o, v.meant)
<1>1. /\ v.pc = "answer" /\ v.op = "forward" /\ v.pc \in Pcs
      /\ req' = [req EXCEPT ![r] = [v EXCEPT !.pc = "insertRoute", !.to = o]]
      /\ UNCHANGED <<contexts, routes, tickets, sessions, proxies, deleting, channels>>
  BY DEF Link, Pcs
<1>2. v \in Serving /\ Stands(v, contexts, routes)
  BY <1>1, Serves
<1>3. [v EXCEPT !.pc = "insertRoute", !.to = o] = w
  BY <1>2, SetsBoth DEF Pcs
<1>4. /\ w.pc = "insertRoute" /\ w.to = o /\ w.meant = v.meant /\ w.op = v.op /\ w.asker = v.asker
      /\ w.ctx = v.ctx /\ w.at = v.at /\ (Document(w) <=> Document(v)) /\ w.late = v.late
  BY <1>2 DEF On, Document
<1> HIDE DEF w
<1>5. Stands(w, contexts, routes)
  BY <1>1, <1>2, <1>4, Fields DEF Stands, OnItsWay
<1>6. req' = [req EXCEPT ![r] = w]
  BY <1>1, <1>3
<1> QED
  BY <1>1, <1>5, <1>6, GoKeeps DEF w, Pcs

LEMMA ReplyKeeps == ASSUME IInv, NEW r \in Request, Reply(r) PROVE IInv'
<1> DEFINE v == req[r]
           w == On(v, "update", v.to, v.meant)
<1>1. /\ v.pc \in {"answer", "reply"} /\ v.pc \in Pcs
      /\ (Document(v) /\ Moves(r, "update")) \/ Ends(r)
      /\ UNCHANGED <<contexts, routes, tickets, sessions, proxies, deleting, channels>>
  BY DEF Reply, Pcs
<1>2. v \in Serving /\ Stands(v, contexts, routes)
  BY <1>1, Serves
<1>3. CASE Ends(r)
  BY <1>1, <1>3, EndKeeps
<1>4. CASE Document(v) /\ Moves(r, "update")
  <2>1. req' = [req EXCEPT ![r] = w]
    BY <1>2, <1>4, SetsPc DEF Moves, Pcs
  <2>2. /\ w.pc = "update" /\ w.to = v.to /\ w.meant = v.meant /\ w.op = v.op /\ w.asker = v.asker
        /\ w.ctx = v.ctx /\ w.at = v.at /\ (Document(w) <=> Document(v)) /\ w.late = v.late
    BY <1>2 DEF On, Document
  <2>3. v.op = "forward" /\ v.at # None /\ v.pc = "answer"
    BY <1>1, <1>2, <1>4 DEF Document, Stands, OnItsWay
  <2> HIDE DEF w
  <2>4. Stands(w, contexts, routes)
    BY <1>2, <1>4, <2>2, <2>3, Fields DEF Stands, OnItsWay
  <2> QED
    BY <1>1, <1>2, <2>1, <2>4, GoKeeps, Fields DEF w, Pcs
<1> QED
  BY <1>1, <1>3, <1>4

----------------------------------------------------------------------------
(* Steps that write the tables.                                             *)

\* No ticket, page or channel knows a context that is new.
LEMMA CreateContextKeeps ==
  ASSUME IInv, NEW r \in Request, NEW c \in ContextId, NEW t \in Ticket, CreateContext(r, c, t)
  PROVE  IInv'
<1> DEFINE v == req[r]
           row == [state |-> "open", owner |-> v.asker, url |-> v.to, via |-> v.via, compat |-> v.compat]
           ticket == [live |-> TRUE, user |-> v.asker, ctx |-> c, uses |-> 0, meant |-> v.to]
<1>t. Tables /\ req \in [Request -> {Idle} \cup Handler]
  BY Typed
<1>1. /\ v.pc = "insert" /\ contexts[c] = Fresh /\ Ends(r) /\ UNCHANGED <<sessions, proxies, deleting, channels>>
      /\ \/ UNCHANGED <<contexts, routes, tickets>>
         \/ /\ v.via \in proxies \cup {Direct}
            /\ contexts' = [contexts EXCEPT ![c] = row] /\ routes' = routes \cup {<<c, v.to>>}
            /\ tickets' = [tickets EXCEPT ![t] = ticket]
  BY DEF CreateContext
<1>2. v \in Inserting
  BY <1>t, <1>1, Shapes
<1>3. CASE UNCHANGED <<contexts, routes, tickets>>
  BY <1>1, <1>3, EndKeeps
<1>4. CASE /\ v.via \in proxies \cup {Direct}
           /\ contexts' = [contexts EXCEPT ![c] = row] /\ routes' = routes \cup {<<c, v.to>>}
           /\ tickets' = [tickets EXCEPT ![t] = ticket]
  <2>1. /\ row \in ContextRow /\ row.owner = v.asker /\ row.url = v.to /\ row.via = v.via /\ row.state = "open"
        /\ v.to \in Origin
    BY <1>2 DEF Inserting, ContextRow, Via
  <2>2. ticket \in TicketRow /\ ticket.user = v.asker /\ ticket.ctx = c /\ ticket.meant = v.to
    BY <1>2 DEF Inserting, TicketRow
  <2> HIDE DEF row, ticket
  <2>3. Tables'
    BY <1>t, <1>1, <1>4, <2>1, <2>2 DEF Tables
  <2>4. contexts'[c] = row /\ \A x \in ContextId : x # c => contexts'[x] = contexts[x]
    BY <1>t, <1>4 DEF Tables
  <2>5. Ages(contexts, routes, contexts', routes')
    BY <1>1, <1>4, <2>4 DEF Ages, OpenIn, RowIn
  <2>6. ~ RowIn(contexts, c) /\ RowIn(contexts', c)
    BY <1>t, <1>1, <2>1, <2>4, RowValues DEF Tables, RowIn
  <2>7. ASSUME NEW k \in Ticket, tickets'[k].live PROVE TicketStands(tickets'[k], contexts')
    <3>1. CASE k = t
      BY <1>t, <1>4, <2>1, <2>2, <2>4, <2>6, <3>1 DEF TicketStands, Tables
    <3>2. CASE k # t
      <4>1. tickets'[k] = tickets[k] /\ tickets[k].live
        BY <1>t, <1>4, <2>7, <3>2 DEF Tables
      <4>2. TicketStands(tickets[k], contexts) /\ tickets[k].ctx \in ContextId
        BY <1>t, <4>1, LiveTicket DEF IInv, TicketsStand, Tables
      <4>3. tickets[k].ctx # c
        BY <2>6, <4>2 DEF TicketStands
      <4> QED
        BY <2>4, <4>1, <4>2, <4>3 DEF TicketStands, RowIn
    <3> QED
      BY <3>1, <3>2
  <2>8. CurrentUrlRouted' /\ EgressStands'
    BY <1>1, <1>4, <2>1, <2>4 DEF IInv, CurrentUrlRouted, EgressStands, IsRow
  <2>9. ~ AtWork(Idle)
    BY DEF AtWork, Idle
  <2> QED
    BY <1>1, <2>3, <2>5, <2>7, <2>8, <2>9, MoveKeeps DEF Ends
<1> QED
  BY <1>1, <1>3, <1>4

LEMMA InsertRouteKeeps == ASSUME IInv, NEW r \in Request, InsertRoute(r) PROVE IInv'
<1> DEFINE v == req[r]
           origin == IF v.op = "forward" THEN None ELSE v.to
           w == On(v, AfterRoute(v.op), origin, v.meant)
           back == On(v, "answer", v.to, v.meant)
<1>t. Tables /\ req \in [Request -> {Idle} \cup Handler]
  BY Typed
<1>1. /\ v.pc = "insertRoute" /\ v.pc \in Pcs /\ UNCHANGED <<contexts, tickets, sessions, proxies, deleting, channels>>
      /\ \/ /\ routes' = routes \cup {<<v.ctx, v.to>>}
            /\ req' = [req EXCEPT ![r] = [v EXCEPT !.pc = AfterRoute(v.op), !.to = origin]]
         \/ routes' = routes /\ v.op = "forward" /\ Moves(r, "answer")
         \/ routes' = routes /\ Ends(r)
  BY DEF InsertRoute, Pcs
<1>2. v \in Serving /\ Stands(v, contexts, routes) /\ v.ctx \in ContextId /\ v.to \in Origin
  BY <1>1, Serves, Fields DEF Stands, OnItsWay
<1>3. CASE routes' = routes /\ Ends(r)
  BY <1>1, <1>3, EndKeeps
<1>4. CASE routes' = routes /\ v.op = "forward" /\ Moves(r, "answer")
  <2>1. req' = [req EXCEPT ![r] = back]
    BY <1>2, <1>4, SetsPc DEF Moves, Pcs
  <2>2. /\ back.pc = "answer" /\ back.to = v.to /\ back.meant = v.meant /\ back.op = v.op /\ back.asker = v.asker
        /\ back.ctx = v.ctx /\ back.at = v.at /\ (Document(back) <=> Document(v)) /\ back.late = v.late
    BY <1>2 DEF On, Document
  <2> HIDE DEF back
  <2>3. Stands(back, contexts, routes)
    BY <1>1, <1>2, <1>4, <2>2, Fields DEF Stands, OnItsWay
  <2>4. UNCHANGED <<contexts, routes, tickets, sessions, proxies, deleting, channels>>
    BY <1>1, <1>4
  <2>5. "answer" \in Pcs /\ v.to \in Origin \cup {None}
    BY <1>2 DEF Pcs
  <2> QED
    BY <1>1, <2>1, <2>3, <2>4, <2>5, GoKeeps DEF back
<1>5. CASE /\ routes' = routes \cup {<<v.ctx, v.to>>}
           /\ req' = [req EXCEPT ![r] = [v EXCEPT !.pc = AfterRoute(v.op), !.to = origin]]
  <2>1. AfterRoute(v.op) \in Pcs /\ origin \in Origin \cup {None}
    BY <1>2 DEF AfterRoute, Pcs
  <2>2. [v EXCEPT !.pc = AfterRoute(v.op), !.to = origin] = w
    BY <1>2, <2>1, SetsBoth
  <2>3. w \in Handler
    BY <1>2, <2>1, GoesOn, Fields, Handlers
  <2>4. /\ w.pc = AfterRoute(v.op) /\ w.to = origin /\ w.meant = v.meant /\ w.op = v.op /\ w.asker = v.asker
        /\ w.ctx = v.ctx /\ w.at = v.at /\ (Document(w) <=> Document(v)) /\ w.late = v.late
    BY <1>2 DEF On, Document
  <2> HIDE DEF w
  <2>5. Ages(contexts, routes, contexts', routes')
    BY <1>1, <1>5 DEF Ages
  <2>6. Stands(v, contexts', routes')
    BY <1>2, <2>5, StandsOn
  <2>7. v.op \in {"navigate", "bootstrap", "resolve", "forward"} /\ AfterRoute(v.op) \in {"update", "answer", "reply"}
    BY <1>1, <1>2, Fields DEF AfterRoute, Stands, OnItsWay
  <2>8. OnItsWay(w)
    BY <1>1, <1>2, <2>4, <2>7, Fields DEF AfterRoute, Stands, OnItsWay
  <2>9. v.op = "navigate" => v.at = v.to
    BY <1>2 DEF Stands, OnItsWay
  <2>10. w.pc = "update" \/ Document(w) => <<w.ctx, w.at>> \in routes' \/ ~ RowIn(contexts', v.ctx)
    <3>1. CASE v.op = "navigate"
      BY <1>5, <2>4, <2>9, <3>1 DEF Document
    <3>2. CASE v.op # "navigate"
      BY <2>4, <2>6, <3>2 DEF Stands, AfterRoute
    <3> QED
      BY <3>1, <3>2
  <2>11. ~ v.late /\ w.pc \notin {"ticketSelect", "ticketInsert", "context"}
    BY <1>1, <1>2, <2>4, <2>7 DEF Stands, OnItsWay
  <2>12. Stands(w, contexts', routes')
    BY <2>4, <2>6, <2>8, <2>10, <2>11 DEF Stands
  <2>13. Tables'
    BY <1>t, <1>1, <1>2, <1>5 DEF Tables
  <2>14. CurrentUrlRouted' /\ EgressStands'
    BY <1>1, <1>5 DEF IInv, CurrentUrlRouted, EgressStands, IsRow
  <2>15. \A t \in Ticket : tickets'[t].live => TicketStands(tickets'[t], contexts')
    BY <1>1 DEF IInv, TicketsStand
  <2>16. req' = [req EXCEPT ![r] = w]
    BY <1>5, <2>2
  <2> QED
    BY <1>1, <2>3, <2>5, <2>12, <2>13, <2>14, <2>15, <2>16, MoveKeeps
<1> QED
  BY <1>1, <1>3, <1>4, <1>5

\* A write of current_url supersedes what other handlers meant.
LEMMA Overtakes ==
  ASSUME NEW v \in Serving, NEW cs, NEW rs, NEW ds, NEW c \in ContextId, NEW w \in Serving, Stands(v, cs, rs),
         \A x \in ContextId : x # c => ds[x] = cs[x],
         /\ ds[c] # Fresh
         /\ OpenIn(ds, c) <=> OpenIn(cs, c)
         /\ RowIn(ds, c) => RowIn(cs, c) /\ ds[c].owner = cs[c].owner /\ ds[c].compat = cs[c].compat,
         \/ w = v /\ (v.ctx # c \/ v.meant = None)
         \/ w = On(v, v.pc, v.to, Superseded)
  PROVE  Stands(w, ds, rs)
<1>1. CASE v.ctx # c
  <2>1. ds[v.ctx] = cs[v.ctx]
    BY <1>1, Fields
  <2>2. CASE w = v
    BY <2>1, <2>2 DEF Stands, OpenIn, RowIn
  <2>3. CASE w = On(v, v.pc, v.to, Superseded)
    <3>1. /\ w.pc = v.pc /\ w.to = v.to /\ w.meant = Superseded /\ w.op = v.op /\ w.asker = v.asker
          /\ w.ctx = v.ctx /\ w.at = v.at /\ (Document(w) <=> Document(v)) /\ w.late = v.late
      BY <2>3 DEF On, Document
    <3> QED
      BY <2>1, <3>1 DEF Stands, OnItsWay, OpenIn, RowIn
  <2> QED
    BY <2>2, <2>3
<1>2. CASE v.ctx = c /\ w = On(v, v.pc, v.to, Superseded)
  <2>1. /\ w.pc = v.pc /\ w.to = v.to /\ w.meant = Superseded /\ w.op = v.op /\ w.asker = v.asker
        /\ w.ctx = v.ctx /\ w.at = v.at /\ (Document(w) <=> Document(v)) /\ w.late = v.late
    BY <1>2 DEF On, Document
  <2> QED
    BY <1>2, <2>1 DEF Stands, OnItsWay
<1>3. CASE v.ctx = c /\ w = v /\ v.meant = None
  <2>1. v.pc \in {"ticketSelect", "ticketInsert", "context"} => v.meant = Superseded
    BY <1>3, Fields, ContextsAssumption DEF Stands, OnItsWay
  <2> QED
    BY <1>3, <2>1 DEF Stands
<1> QED
  BY <1>1, <1>2, <1>3

LEMMA UpdateCurrentURLKeeps == ASSUME IInv, NEW r \in Request, UpdateCurrentURL(r) PROVE IInv'
<1> DEFINE v == req[r]
           c == v.ctx
           next == IF v.op = "navigate" THEN [v EXCEPT !.pc = "ticketSelect"] ELSE Idle
           failed == IF next = Idle THEN Idle ELSE [next EXCEPT !.meant = Superseded]
           on == On(v, "ticketSelect", v.to, v.meant)
           lost == On(v, "ticketSelect", v.to, Superseded)
<1>t. Tables /\ req \in [Request -> {Idle} \cup Handler]
  BY Typed
<1>1. v.pc = "update" /\ v.pc \in Pcs /\ UNCHANGED <<routes, sessions, proxies, deleting, channels>>
  BY DEF UpdateCurrentURL, Pcs
<1>2. v \in Serving /\ Stands(v, contexts, routes) /\ c \in ContextId /\ v.at \in Origin
  BY <1>1, Serves, Fields DEF Stands, OnItsWay
<1>3. v.op \in {"navigate", "forward"} /\ ~ v.late
  BY <1>1, <1>2, Fields DEF Stands, OnItsWay
<1>4. /\ on.pc = "ticketSelect" /\ on.to = v.to /\ on.meant = v.meant /\ on.op = v.op /\ on.asker = v.asker
      /\ on.ctx = v.ctx /\ on.at = v.at /\ (Document(on) <=> Document(v)) /\ on.late = v.late
  BY DEF On, Document
<1>5. /\ lost.pc = "ticketSelect" /\ lost.to = v.to /\ lost.meant = Superseded /\ lost.op = v.op /\ lost.asker = v.asker
      /\ lost.ctx = v.ctx /\ lost.at = v.at /\ (Document(lost) <=> Document(v)) /\ lost.late = v.late
  BY DEF On, Document
<1>6. on \in Serving /\ lost \in Serving
  BY <1>2, OnServing DEF Pcs
<1>7. /\ v.op = "navigate" => next = on /\ failed = lost
      /\ v.op # "navigate" => next = Idle /\ failed = Idle
  <2>1. [v EXCEPT !.pc = "ticketSelect"] = on /\ [[v EXCEPT !.pc = "ticketSelect"] EXCEPT !.meant = Superseded] = lost
    BY <1>2, SetsPc, SetsBoth, Fields DEF Pcs
  <2>2. on # Idle
    BY <1>4 DEF Idle
  <2> QED
    BY <2>1, <2>2
<1> HIDE DEF next, failed, on, lost
<1>8. CASE req' = [req EXCEPT ![r] = failed] /\ UNCHANGED <<contexts, tickets>>
  <2>1. failed \in {Idle} \cup Handler
    BY <1>6, <1>7, Handlers
  <2>2. AtWork(failed) => Stands(failed, contexts, routes)
    <3>1. ~ AtWork(Idle)
      BY DEF AtWork, Idle
    <3>2. v.op = "navigate" => Stands(lost, contexts, routes)
      BY <1>1, <1>2, <1>3, <1>5 DEF Stands, OnItsWay
    <3> QED
      BY <1>7, <3>1, <3>2
  <2> QED
    BY <1>1, <1>8, <2>1, <2>2, OnlyMoves
<1>9. CASE /\ contexts' = IF IsRow(c) THEN [contexts EXCEPT ![c].url = v.at] ELSE contexts
           /\ tickets' = [t \in Ticket |-> IF tickets[t].live /\ tickets[t].ctx = c
                                           THEN [tickets[t] EXCEPT !.meant = Superseded] ELSE tickets[t]]
           /\ req' = [q \in Request |-> IF q = r THEN next ELSE Overtaken(q, c)]
  <2>1. /\ contexts' \in [ContextId -> {Fresh, Deleted} \cup ContextRow]
        /\ \A x \in ContextId : x # c => contexts'[x] = contexts[x]
        /\ contexts'[c] # Fresh
        /\ OpenIn(contexts', c) <=> OpenIn(contexts, c)
        /\ RowIn(contexts', c) => /\ RowIn(contexts, c) /\ contexts'[c].owner = contexts[c].owner
                                  /\ contexts'[c].via = contexts[c].via
                                  /\ contexts'[c].compat = contexts[c].compat /\ contexts'[c].url = v.at
        /\ RowIn(contexts, c) => RowIn(contexts', c)
    <3>1. CASE ~ RowIn(contexts, c)
      <4>1. contexts' = contexts
        BY <1>9, <3>1, RowsNow
      <4> QED
        BY <1>t, <1>2, <3>1, <4>1 DEF Tables, Stands
    <3>2. CASE RowIn(contexts, c)
      <4> DEFINE row == [contexts[c] EXCEPT !.url = v.at]
      <4>1. contexts[c] \in ContextRow
        BY <1>t, <1>2, <3>2, RowValues DEF Tables
      <4>2. /\ row \in ContextRow /\ row.state = contexts[c].state /\ row.owner = contexts[c].owner
            /\ row.via = contexts[c].via /\ row.url = v.at
        BY <1>2, <4>1 DEF ContextRow
      <4>3. row.compat = contexts[c].compat
        BY <1>2, <4>1 DEF ContextRow
      <4>4. contexts' = [contexts EXCEPT ![c] = row]
        BY <1>9, <3>2, RowsNow
      <4> HIDE DEF row
      <4>5. /\ contexts' \in [ContextId -> {Fresh, Deleted} \cup ContextRow] /\ contexts'[c] = row
            /\ \A x \in ContextId : x # c => contexts'[x] = contexts[x]
        BY <1>t, <1>2, <4>2, <4>4 DEF Tables
      <4>6. row # Fresh
        BY <3>2, <4>2 DEF RowIn, Fresh
      <4> QED
        BY <3>2, <4>2, <4>3, <4>5, <4>6 DEF OpenIn, RowIn
    <3> QED
      BY <3>1, <3>2
  <2>2. ASSUME NEW q \in Request, q # r, AtWork(req[q])
        PROVE  req'[q] \in Serving /\ Stands(req'[q], contexts', routes')
    <3>1. req[q] \in Serving /\ Stands(req[q], contexts, routes)
      BY <1>t, <2>2, Shapes DEF IInv, HandlersStand
    <3>2. \/ req'[q] = req[q] /\ (req[q].ctx # c \/ req[q].meant = None)
          \/ req'[q] = On(req[q], req[q].pc, req[q].to, Superseded)
      BY <1>t, <1>9, <2>2, <3>1, Shapes, SetsMeant DEF Overtaken
    <3>3. req'[q] \in Serving
      BY <3>1, <3>2, OnServing, Fields
    <3> QED
      BY <1>1, <1>2, <2>1, <3>1, <3>2, <3>3, Overtakes
  <2>3. ASSUME NEW q \in Request, q # r, ~ AtWork(req[q])
        PROVE  req'[q] = req[q]
    BY <1>t, <1>9, <2>3, Shapes DEF Overtaken
  <2>4. next \in {Idle} \cup Serving /\ (AtWork(next) => Stands(next, contexts', routes'))
    <3>1. ~ AtWork(Idle)
      BY DEF AtWork, Idle
    <3>2. v.op = "navigate" => Stands(on, contexts', routes')
      BY <1>1, <1>2, <1>3, <1>4, <2>1 DEF Stands, OnItsWay
    <3> QED
      BY <1>6, <1>7, <3>1, <3>2
  <2>5. req' \in [Request -> {Idle} \cup Handler] /\ HandlersStand'
    <3>1. ASSUME NEW q \in Request
          PROVE  req'[q] \in {Idle} \cup Handler /\ (AtWork(req'[q]) => Stands(req'[q], contexts', routes'))
      <4>1. CASE q = r
        BY <1>9, <2>4, <4>1, Handlers
      <4>2. CASE q # r /\ AtWork(req[q])
        BY <2>2, <4>2, Handlers
      <4>3. CASE q # r /\ ~ AtWork(req[q])
        BY <1>t, <2>3, <4>3
      <4> QED
        BY <4>1, <4>2, <4>3
    <3> QED
      BY <1>9, <3>1 DEF HandlersStand
  <2>6. ASSUME NEW t \in Ticket
        PROVE  /\ tickets'[t] \in {NoTicket} \cup TicketRow
               /\ tickets'[t].live => TicketStands(tickets'[t], contexts')
    <3>1. CASE ~ tickets[t].live
      BY <1>t, <1>9, <3>1 DEF Tables
    <3>2. CASE tickets[t].live
      <4>1. tickets[t] \in TicketRow /\ tickets[t].ctx \in ContextId /\ TicketStands(tickets[t], contexts)
        BY <1>t, <3>2, LiveTicket DEF IInv, TicketsStand, Tables
      <4>2. CASE tickets[t].ctx # c
        <5>1. tickets'[t] = tickets[t] /\ contexts'[tickets[t].ctx] = contexts[tickets[t].ctx]
          BY <1>9, <2>1, <4>1, <4>2
        <5> QED
          BY <4>1, <5>1 DEF TicketStands, RowIn
      <4>3. CASE tickets[t].ctx = c
        <5> DEFINE k == [tickets[t] EXCEPT !.meant = Superseded]
        <5>1. tickets'[t] = k
          BY <1>9, <3>2, <4>3
        <5>2. k \in TicketRow /\ k.ctx = c /\ k.user = tickets[t].user /\ k.meant = Superseded
          BY <4>1, <4>3 DEF TicketRow
        <5> HIDE DEF k
        <5> QED
          BY <2>1, <4>1, <4>3, <5>1, <5>2 DEF TicketStands
      <4> QED
        BY <4>2, <4>3
    <3> QED
      BY <3>1, <3>2
  <2>7. Tables' /\ TicketsStand'
    <3>1. tickets' \in [Ticket -> {NoTicket} \cup TicketRow]
      BY <1>9, <2>6
    <3> QED
      BY <1>t, <1>1, <2>1, <2>6, <3>1 DEF Tables, TicketsStand
  <2>8. ChannelsStand'
    BY <1>1, <2>1 DEF IInv, ChannelsStand, RowIn
  <2>9. CurrentUrlRouted' /\ EgressStands'
    <3>1. RowIn(contexts, c) => <<c, v.at>> \in routes
      BY <1>1, <1>2 DEF Stands
    <3>2. ASSUME NEW x \in ContextId, RowIn(contexts', x)
          PROVE  <<x, contexts'[x].url>> \in routes' /\ contexts'[x].via \in proxies' \cup {Direct}
      <4>1. CASE x = c
        BY <1>1, <2>1, <3>1, <3>2, <4>1, RowsNow DEF IInv, EgressStands
      <4>2. CASE x # c
        <5>1. contexts'[x] = contexts[x] /\ IsRow(x)
          BY <2>1, <3>2, <4>2 DEF RowIn, IsRow
        <5> QED
          BY <1>1, <5>1 DEF IInv, CurrentUrlRouted, EgressStands
      <4> QED
        BY <4>1, <4>2
    <3> QED
      BY <3>2, RowsNext DEF CurrentUrlRouted, EgressStands
  <2> QED
    BY <2>5, <2>7, <2>8, <2>9, TypedNext
<1> QED
  BY <1>8, <1>9 DEF UpdateCurrentURL, next, failed

LEMMA TicketInsertKeeps == ASSUME IInv, NEW r \in Request, NEW t \in Ticket, TicketInsert(r, t) PROVE IInv'
<1> DEFINE v == req[r]
           w == On(v, "reply", v.to, v.meant)
           ticket == [live |-> TRUE, user |-> v.asker, ctx |-> v.ctx, uses |-> 0, meant |-> v.meant]
<1>t. Tables /\ req \in [Request -> {Idle} \cup Handler]
  BY Typed
<1>1. /\ v.pc = "ticketInsert" /\ v.pc \in Pcs /\ UNCHANGED <<contexts, routes, sessions, proxies, deleting, channels>>
      /\ \/ IsRow(v.ctx) /\ tickets' = [tickets EXCEPT ![t] = ticket] /\ Moves(r, "reply")
         \/ tickets' = tickets /\ Ends(r)
  BY DEF TicketInsert, Pcs
<1>2. v \in Serving /\ Stands(v, contexts, routes) /\ v.ctx \in ContextId
  BY <1>1, Serves, Fields
<1>3. CASE tickets' = tickets /\ Ends(r)
  BY <1>1, <1>3, EndKeeps
<1>4. CASE IsRow(v.ctx) /\ tickets' = [tickets EXCEPT ![t] = ticket] /\ Moves(r, "reply")
  <2>1. RowIn(contexts, v.ctx)
    BY <1>4, RowsNow
  <2>2. /\ v.op = "navigate" /\ v.asker \in User /\ v.meant \in Origin \cup {Superseded} /\ ~ v.late
        /\ contexts[v.ctx].owner = v.asker /\ v.meant \in {contexts[v.ctx].url, Superseded}
    BY <1>1, <1>2, <2>1, Fields DEF Stands, OnItsWay
  <2>3. /\ ticket \in TicketRow /\ ticket.user = v.asker /\ ticket.ctx = v.ctx /\ ticket.meant = v.meant
    BY <1>2, <2>2 DEF TicketRow
  <2>4. req' = [req EXCEPT ![r] = w]
    BY <1>2, <1>4, SetsPc DEF Moves, Pcs
  <2>5. /\ w.pc = "reply" /\ w.to = v.to /\ w.meant = v.meant /\ w.op = v.op /\ w.asker = v.asker
        /\ w.ctx = v.ctx /\ w.at = v.at /\ (Document(w) <=> Document(v)) /\ w.late = v.late
    BY <1>2 DEF On, Document
  <2>6. w \in Handler
    BY <1>2, OnServing, Handlers DEF Pcs
  <2> HIDE DEF w, ticket
  <2>7. Stands(w, contexts, routes)
    BY <1>1, <1>2, <2>2, <2>5, Fields DEF Stands, OnItsWay
  <2>8. Tables'
    BY <1>t, <1>1, <1>4, <2>3 DEF Tables
  <2>9. ASSUME NEW k \in Ticket, tickets'[k].live PROVE TicketStands(tickets'[k], contexts')
    <3>1. CASE k = t
      BY <1>t, <1>1, <1>4, <2>1, <2>2, <2>3, <3>1 DEF TicketStands, Tables
    <3>2. CASE k # t
      BY <1>t, <1>1, <1>4, <2>9, <3>2 DEF IInv, TicketsStand, Tables
    <3> QED
      BY <3>1, <3>2
  <2>10. Ages(contexts, routes, contexts', routes') /\ CurrentUrlRouted' /\ EgressStands'
    BY <1>1 DEF Ages, IInv, CurrentUrlRouted, EgressStands, IsRow
  <2> QED
    BY <1>1, <2>4, <2>6, <2>7, <2>8, <2>9, <2>10, MoveKeeps
<1> QED
  BY <1>1, <1>3, <1>4

LEMMA Used ==
  ASSUME NEW k \in TicketRow, NEW n \in {0, 1}
  PROVE  /\ [k EXCEPT !.uses = n] \in TicketRow
         /\ [k EXCEPT !.uses = n].user = k.user /\ [k EXCEPT !.uses = n].ctx = k.ctx
         /\ [k EXCEPT !.uses = n].meant = k.meant
  BY DEF TicketRow

LEMMA ConsumeTicketKeeps == ASSUME IInv, NEW r \in Request, NEW t \in Ticket, ConsumeTicket(r, t) PROVE IInv'
<1> DEFINE k == tickets[t]
           used == [k EXCEPT !.uses = k.uses + 1]
           v == Handling("context", "bootstrap", k.user, k.ctx, None, None, k.meant)
<1>t. Tables /\ req \in [Request -> {Idle} \cup Handler]
  BY Typed
<1>1. /\ k.live /\ k.uses = 0 /\ tickets' = [tickets EXCEPT ![t] = used] /\ sessions' = sessions \cup {k.user}
      /\ req' = [req EXCEPT ![r] = v] /\ UNCHANGED <<contexts, routes, proxies, deleting, channels>>
  BY DEF ConsumeTicket, Unused, Starts
<1>2. k \in TicketRow /\ k.user \in User /\ k.ctx \in ContextId /\ k.meant \in Origin \cup {Superseded}
  BY <1>t, <1>1, LiveTicket DEF Tables
<1>3. TicketStands(k, contexts)
  BY <1>1 DEF IInv, TicketsStand
<1>4. used \in TicketRow /\ used.user = k.user /\ used.ctx = k.ctx /\ used.meant = k.meant
  <2>1. k.uses + 1 \in {0, 1}
    BY <1>1
  <2> QED
    BY <1>2, <2>1, Used
<1>5. /\ v \in Serving /\ ~ Document(v)
      /\ v.pc = "context" /\ v.op = "bootstrap" /\ v.asker = k.user /\ v.ctx = k.ctx /\ v.meant = k.meant
  BY <1>2 DEF Handling, Serving, Document, Pcs, Browser
<1>6. v.late => ~ OpenIn(contexts, k.ctx)
  BY HandlingLate
<1> HIDE DEF used, v
<1>7. Tables'
  BY <1>t, <1>1, <1>2, <1>4 DEF Tables
<1>8. Stands(v, contexts, routes)
  <2>1. RowIn(contexts, k.ctx) /\ contexts[k.ctx] # Fresh
    BY <1>t, <1>2, <1>3, RowValues DEF TicketStands, Tables
  <2> QED
    BY <1>2, <1>3, <1>5, <1>6, <2>1 DEF Stands, OnItsWay, TicketStands
<1>9. ASSUME NEW x \in Ticket, tickets'[x].live PROVE TicketStands(tickets'[x], contexts')
  <2>1. CASE x = t
    BY <1>t, <1>1, <1>3, <1>4, <2>1 DEF TicketStands, Tables
  <2>2. CASE x # t
    BY <1>t, <1>1, <1>9, <2>2 DEF IInv, TicketsStand, Tables
  <2> QED
    BY <2>1, <2>2
<1>10. Ages(contexts, routes, contexts', routes') /\ CurrentUrlRouted' /\ EgressStands'
  BY <1>1 DEF Ages, IInv, CurrentUrlRouted, EgressStands, IsRow
<1> QED
  BY <1>1, <1>5, <1>7, <1>8, <1>9, <1>10, MoveKeeps, Handlers

\* A closed context keeps its row, its URL and its routes.
LEMMA CloseContextKeeps ==
  ASSUME IInv, NEW c \in ContextId, NEW u \in User, CloseContext(c, u)
  PROVE  IInv'
<1> DEFINE row == [contexts[c] EXCEPT !.state = "closed"]
<1>t. Tables /\ req \in [Request -> {Idle} \cup Handler]
  BY Typed
<1>1. /\ OpenIn(contexts, c) /\ contexts' = [contexts EXCEPT ![c] = row]
      /\ UNCHANGED <<routes, tickets, sessions, proxies, deleting, channels, req>>
  BY RowsNow DEF CloseContext, Visible
<1>2. contexts[c] \in ContextRow
  BY <1>t, <1>1, RowValues DEF Tables
<1>3. /\ row \in ContextRow /\ row.state = "closed" /\ row.owner = contexts[c].owner /\ row.url = contexts[c].url
      /\ row.via = contexts[c].via
  BY <1>2 DEF ContextRow
<1>4. row.compat = contexts[c].compat
  BY <1>2 DEF ContextRow
<1> HIDE DEF row
<1>5. /\ Tables' /\ contexts'[c] = row /\ \A x \in ContextId : x # c => contexts'[x] = contexts[x]
  BY <1>t, <1>1, <1>3 DEF Tables
<1>6. row # Fresh /\ RowIn(contexts, c)
  BY <1>1, <1>3 DEF Fresh, RowIn, OpenIn
<1>7. Ages(contexts, routes, contexts', routes')
  BY <1>1, <1>3, <1>4, <1>5, <1>6 DEF Ages, OpenIn, RowIn
<1>8. ASSUME NEW t \in Ticket, tickets'[t].live PROVE TicketStands(tickets'[t], contexts')
  <2>1. tickets[t].live /\ TicketStands(tickets[t], contexts) /\ tickets'[t] = tickets[t]
    BY <1>1, <1>8 DEF IInv, TicketsStand
  <2>2. RowIn(contexts', tickets[t].ctx)
    BY <1>t, <1>3, <1>5, <2>1, LiveTicket DEF TicketStands, RowIn, Tables
  <2> QED
    BY <1>7, <2>1, <2>2, TicketsAge
<1>9. CurrentUrlRouted' /\ EgressStands'
  <2>1. ASSUME NEW x \in ContextId, RowIn(contexts', x)
        PROVE  <<x, contexts'[x].url>> \in routes' /\ contexts'[x].via \in proxies' \cup {Direct}
    <3>1. RowIn(contexts, x) /\ contexts'[x].url = contexts[x].url /\ contexts'[x].via = contexts[x].via
      BY <1>3, <1>5, <1>6, <2>1 DEF RowIn
    <3> QED
      BY <1>1, <3>1, RowsNow DEF IInv, CurrentUrlRouted, EgressStands
  <2> QED
    BY <2>1, RowsNext DEF CurrentUrlRouted, EgressStands
<1> QED
  BY <1>t, <1>1, <1>5, <1>7, <1>8, <1>9, StepKeeps

\* A proxy goes with the contexts that were its when its deletion began, if it has no others.
LEMMA DeleteProxyKeeps == ASSUME IInv, NEW p \in Proxy, DeleteProxy(p) PROVE IInv'
<1> DEFINE D == deleting[p].rows
<1>t. Tables /\ req \in [Request -> {Idle} \cup Handler]
  BY Typed
<1>1. /\ deleting' = [deleting EXCEPT ![p] = NoDeletion] /\ UNCHANGED <<sessions, channels, req>>
      /\ \/ UNCHANGED <<contexts, routes, tickets, proxies>>
         \/ /\ BoundTo(p) \subseteq D
            /\ contexts' = [c \in ContextId |-> IF c \in D THEN Deleted ELSE contexts[c]]
            /\ routes' = {x \in routes : x[1] \notin D}
            /\ tickets' = [t \in Ticket |-> IF tickets[t].live /\ tickets[t].ctx \in D THEN NoTicket ELSE tickets[t]]
            /\ proxies' = proxies \ {p}
  BY DEF DeleteProxy, StillReferenced
<1>2. deleting' \in [Proxy -> [open : BOOLEAN, rows : SUBSET ContextId]]
  BY <1>t, <1>1 DEF Tables, NoDeletion
<1>3. Tables'
  BY <1>t, <1>1, <1>2 DEF Tables
<1>4. CASE UNCHANGED <<contexts, routes, tickets, proxies>>
  <2>1. Ages(contexts, routes, contexts', routes') /\ CurrentUrlRouted' /\ EgressStands'
    BY <1>4 DEF Ages, IInv, CurrentUrlRouted, EgressStands, IsRow
  <2>2. \A t \in Ticket : tickets'[t].live => TicketStands(tickets'[t], contexts')
    BY <1>4 DEF IInv, TicketsStand
  <2> QED
    BY <1>t, <1>1, <1>3, <2>1, <2>2, StepKeeps
<1>5. CASE /\ BoundTo(p) \subseteq D
           /\ contexts' = [c \in ContextId |-> IF c \in D THEN Deleted ELSE contexts[c]]
           /\ routes' = {x \in routes : x[1] \notin D}
           /\ tickets' = [t \in Ticket |-> IF tickets[t].live /\ tickets[t].ctx \in D THEN NoTicket ELSE tickets[t]]
           /\ proxies' = proxies \ {p}
  <2>1. /\ \A c \in ContextId : contexts'[c] = IF c \in D THEN Deleted ELSE contexts[c]
        /\ Deleted # Fresh /\ ~ (Deleted.state \in {"open", "closed"})
    BY <1>5 DEF Deleted, Fresh
  <2>2. \A c \in ContextId : RowIn(contexts', c) => c \notin D /\ contexts'[c] = contexts[c] /\ RowIn(contexts, c)
    BY <2>1 DEF RowIn
  <2>3. \A c \in ContextId, o \in Origin : <<c, o>> \in routes /\ c \notin D => <<c, o>> \in routes'
    BY <1>5
  <2>4. Ages(contexts, routes, contexts', routes')
    BY <2>1, <2>2, <2>3 DEF Ages, OpenIn
  <2>5. ASSUME NEW t \in Ticket, tickets'[t].live PROVE TicketStands(tickets'[t], contexts')
    <3>1. tickets'[t] = tickets[t] /\ tickets[t].live /\ tickets[t].ctx \notin D
      BY <1>5, <2>5, NoTicketDead
    <3>2. TicketStands(tickets[t], contexts) /\ tickets[t].ctx \in ContextId
      BY <1>t, <3>1, LiveTicket DEF IInv, TicketsStand, Tables
    <3>3. RowIn(contexts', tickets[t].ctx)
      BY <2>1, <3>1, <3>2 DEF TicketStands, RowIn
    <3> QED
      BY <2>4, <3>1, <3>3, TicketsAge
  <2>6. CurrentUrlRouted' /\ EgressStands'
    <3>1. ASSUME NEW c \in ContextId, RowIn(contexts', c)
          PROVE  <<c, contexts'[c].url>> \in routes' /\ contexts'[c].via \in proxies' \cup {Direct}
      <4>1. c \notin D /\ contexts'[c] = contexts[c] /\ IsRow(c) /\ contexts[c].url \in Origin
        BY <1>t, <2>2, <3>1, RowsNow, RowValues DEF Tables
      <4>2. contexts[c].via # p
        BY <1>5, <4>1 DEF BoundTo
      <4> QED
        BY <1>5, <2>3, <4>1, <4>2 DEF IInv, CurrentUrlRouted, EgressStands
    <3> QED
      BY <3>1, RowsNext DEF CurrentUrlRouted, EgressStands
  <2> QED
    BY <1>t, <1>1, <1>3, <2>4, <2>5, <2>6, StepKeeps
<1> QED
  BY <1>1, <1>4, <1>5

\* Steps of no handler that touch no context.
LEMMA RestKeeps ==
  ASSUME IInv, \/ \E p \in Proxy : DeleteContexts(p)
               \/ \E t \in Ticket : ExpireTicket(t)
               \/ \E u \in User : ExpireSession(u)
               \/ \E who \in Browser, c \in ContextId : CloseChannel(who, c) \/ \E at \in Origin : OpenChannel(who, c, at)
  PROVE  IInv'
<1>t. Tables /\ req \in [Request -> {Idle} \cup Handler]
  BY Typed
<1>1. UNCHANGED <<contexts, routes, proxies, req>>
  BY DEF DeleteContexts, ExpireTicket, ExpireSession, CloseChannel, OpenChannel
<1>2. Ages(contexts, routes, contexts', routes') /\ CurrentUrlRouted' /\ EgressStands'
  BY <1>1 DEF Ages, IInv, CurrentUrlRouted, EgressStands, IsRow
<1>3. \/ /\ \E p \in Proxy : deleting' = [deleting EXCEPT ![p] = [open |-> TRUE, rows |-> BoundTo(p)]]
         /\ UNCHANGED <<tickets, sessions, channels>>
      \/ /\ \E t \in Ticket : tickets' = [tickets EXCEPT ![t] = NoTicket]
         /\ UNCHANGED <<deleting, sessions, channels>>
      \/ /\ \E u \in User : sessions' = sessions \ {u}
         /\ UNCHANGED <<deleting, tickets, channels>>
      \/ /\ \E who \in Browser, c \in ContextId :
              \/ channels' = channels \ {<<who, c>>}
              \/ channels' = channels \cup {<<who, c>>} /\ Owns(who, c) /\ IsOpen(c)
         /\ UNCHANGED <<deleting, tickets, sessions>>
  BY DEF DeleteContexts, ExpireTicket, ExpireSession, CloseChannel, OpenChannel, RouteByLabel, Authenticated
<1>4. /\ tickets' \in [Ticket -> {NoTicket} \cup TicketRow]
      /\ \A t \in Ticket : tickets'[t] \in {tickets[t], NoTicket}
  BY <1>t, <1>3 DEF Tables
<1>5. /\ deleting' \in [Proxy -> [open : BOOLEAN, rows : SUBSET ContextId]]
      /\ sessions' \subseteq User /\ channels' \subseteq Browser \X ContextId
  <2>1. \A p \in Proxy : [open |-> TRUE, rows |-> BoundTo(p)] \in [open : BOOLEAN, rows : SUBSET ContextId]
    BY DEF BoundTo
  <2>2. deleting' \in [Proxy -> [open : BOOLEAN, rows : SUBSET ContextId]]
    BY <1>t, <1>3, <2>1 DEF Tables
  <2>3. sessions' \subseteq User
    BY <1>t, <1>3 DEF Tables
  <2>4. channels' \subseteq Browser \X ContextId
    BY <1>t, <1>3 DEF Tables
  <2> QED
    BY <2>2, <2>3, <2>4
<1>6. Tables'
  BY <1>t, <1>1, <1>4, <1>5 DEF Tables
<1>7. \A t \in Ticket : tickets'[t].live => TicketStands(tickets'[t], contexts')
  BY <1>1, <1>4, NoTicketDead DEF IInv, TicketsStand
<1>8. ASSUME NEW who \in Browser, NEW c \in ContextId, <<who, c>> \in channels'
      PROVE  \/ <<who, c>> \in channels
             \/ contexts'[c] # Fresh /\ (RowIn(contexts', c) => contexts'[c].owner = who)
  <2>1. <<who, c>> \in channels \/ (Owns(who, c) /\ IsOpen(c))
    BY <1>3, <1>8
  <2>2. Owns(who, c) /\ IsOpen(c) => contexts[c] # Fresh /\ contexts[c].owner = who
    BY <1>t, RowsNow, RowValues DEF Owns, Tables
  <2> QED
    BY <1>1, <2>1, <2>2
<1> QED
  BY <1>t, <1>1, <1>2, <1>6, <1>7, <1>8, StepKeeps

----------------------------------------------------------------------------
(* The theorems.                                                            *)

LEMMA InitInvariant == Init => IInv
<1> SUFFICES ASSUME Init PROVE IInv
  OBVIOUS
<1>1. contexts = [c \in ContextId |-> Fresh] /\ routes = {} /\ tickets = [t \in Ticket |-> NoTicket]
      /\ sessions = {} /\ proxies = Proxy /\ channels = {} /\ req = [r \in Request |-> Idle]
      /\ deleting = [p \in Proxy |-> NoDeletion]
  BY DEF Init
<1>2. NoDeletion \in [open : BOOLEAN, rows : SUBSET ContextId]
  BY DEF NoDeletion
<1>3. Tables /\ req \in [Request -> {Idle} \cup Handler]
  BY <1>1, <1>2 DEF Tables
<1>4. \A r \in Request : ~ AtWork(req[r])
  BY <1>1 DEF AtWork, Idle
<1>5. \A c \in ContextId : ~ RowIn(contexts, c)
  BY <1>1 DEF RowIn, Fresh
<1>6. \A t \in Ticket : ~ tickets[t].live
  BY <1>1, NoTicketDead
<1>7. HandlersStand /\ TicketsStand /\ ChannelsStand /\ CurrentUrlRouted /\ EgressStands
  BY <1>1, <1>4, <1>5, <1>6, RowsNow
  DEF HandlersStand, TicketsStand, ChannelsStand, CurrentUrlRouted, EgressStands
<1> QED
  BY <1>3, <1>7, Typed

LEMMA HandlerStepKeeps == ASSUME IInv, NEW r \in Request, HandlerStep(r) PROVE IInv'
  BY CreateContextKeeps, SelectOwnerKeeps, InsertRouteKeeps, UpdateCurrentURLKeeps, TicketSelectKeeps,
     TicketInsertKeeps, ReadContextKeeps, ExchangeKeeps, ReplyKeeps, LinkKeeps DEF HandlerStep

LEMMA RequestKeeps == ASSUME IInv, NEW r \in Request, AppRequest(r) \/ ProxyRequest(r) PROVE IInv'
<1>1. CASE AppRequest(r)
  BY <1>1, BeginCreateKeeps, BeginNavigateKeeps DEF AppRequest, Via
<1>2. CASE ProxyRequest(r)
  BY <1>2, ConsumeTicketKeeps, ResolveURLKeeps, ForwardKeeps, ChannelRequestKeeps DEF ProxyRequest
<1> QED
  BY <1>1, <1>2

LEMMA StepInvariant == IInv /\ [Next]_vars => IInv'
<1> SUFFICES ASSUME IInv, [Next]_vars PROVE IInv'
  OBVIOUS
<1>1. ASSUME NEW r \in Request, AppRequest(r) \/ ProxyRequest(r) \/ HandlerStep(r) \/ HandlerFails(r)
      PROVE  IInv'
  BY <1>1, RequestKeeps, HandlerStepKeeps, EndKeeps DEF HandlerFails
<1>2. CASE \E u \in User, c \in ContextId : CloseContext(c, u)
  BY <1>2, CloseContextKeeps
<1>3. CASE \E p \in Proxy : DeleteProxy(p)
  BY <1>3, DeleteProxyKeeps
<1>4. CASE \/ \E p \in Proxy : DeleteContexts(p)
           \/ \E t \in Ticket : ExpireTicket(t)
           \/ \E u \in User : ExpireSession(u)
           \/ \E who \in Browser, c \in ContextId : CloseChannel(who, c) \/ \E at \in Origin : OpenChannel(who, c, at)
  BY <1>4, RestKeeps
<1>5. CASE UNCHANGED vars
  BY <1>5 DEF vars, IInv, TypeOK, IsRow, HandlersStand, TicketsStand, ChannelsStand, CurrentUrlRouted, EgressStands
<1> QED
  BY <1>1, <1>2, <1>3, <1>4, <1>5 DEF Next

\* The inductive invariant, of which the rest are corollaries.
THEOREM Invariant == Spec => []IInv
  BY InitInvariant, StepInvariant, PTL DEF Spec

\* Tables and handlers keep their types, and no ticket outlives its context.
THEOREM TypeCorrect == Spec => []TypeOK
<1>1. IInv => TypeOK
  BY DEF IInv
<1> QED
  BY <1>1, Invariant, PTL

\* Where a context is, it can be resumed (navigate, UpdateCurrentURL, DeleteProxy).
THEOREM CurrentUrlIsRouted == Spec => []CurrentUrlRouted
<1>1. IInv => CurrentUrlRouted
  BY DEF IInv
<1> QED
  BY <1>1, Invariant, PTL

\* A context keeps the egress it was created with (createContext, DeleteUpstreamProxy).
THEOREM EgressRemains == Spec => []EgressStands
<1>1. IInv => EgressStands
  BY DEF IInv
<1> QED
  BY <1>1, Invariant, PTL

\* The bootstrap of a ticket leads where its navigation went, or where a later one did
\* (navigate, CreateTicket, bootstrap).
THEOREM NavigationsLand == Spec => []LandsWhereNavigated
<1>1. IInv => LandsWhereNavigated
  <2> SUFFICES ASSUME IInv, NEW r \in Request, req[r].pc \in {"select", "insertRoute", "reply"},
                      req[r].op = "bootstrap"
               PROVE  req[r].meant \in {req[r].to, Superseded}
    BY DEF LandsWhereNavigated
  <2>1. Stands(req[r], contexts, routes) /\ req[r].pc # "context"
    BY Serves DEF Pcs
  <2> QED
    BY <2>1 DEF Stands, OnItsWay
<1> QED
  BY <1>1, Invariant, PTL

\* A context is served to its owner, and to the pages of a compatible context what is no
\* document; a page of another context is refused (Authenticated, compatibilityRequestAllowed).
THEOREM ServesTheOwner == Spec => []OwnerOnly
<1>1. IInv => OwnerOnly
  <2> SUFFICES ASSUME IInv, NEW r \in Request, req[r] # Idle, req[r].op # "create", IsRow(req[r].ctx)
               PROVE  \/ Owns(req[r].asker, req[r].ctx)
                      \/ /\ contexts[req[r].ctx].compat /\ req[r].asker = SamePage
                         /\ req[r].op = "forward" /\ ~ Document(req[r])
    BY DEF OwnerOnly
  <2>1. req[r] \in Serving
    BY Typed, Handlers DEF Inserting
  <2>2. Stands(req[r], contexts, routes) /\ RowIn(contexts, req[r].ctx)
    BY <2>1, Serves, Shapes, Handlers, RowsNow
  <2> QED
    BY <2>2 DEF Stands, Owns
<1> QED
  BY <1>1, Invariant, PTL

\* Once a context is closed, later requests reach no target and get no route
\* (RouteByLabel, Context, ResolveRoute), those of open channels excepted.
THEOREM ClosedIsSilent == Spec => []ClosedContextSilent
<1>1. IInv => ClosedContextSilent
  <2> SUFFICES ASSUME IInv, NEW r \in Request, req[r] # Idle, req[r].op \notin {"create", "channel"}, req[r].late
               PROVE  req[r].pc \notin {"exchange", "answer", "reply"}
    BY DEF ClosedContextSilent
  <2>1. req[r] \in Serving
    BY Typed, Handlers DEF Inserting
  <2>2. Stands(req[r], contexts, routes)
    BY <2>1, Serves, Shapes, Handlers
  <2> QED
    BY <2>2 DEF Stands
<1> QED
  BY <1>1, Invariant, PTL

=============================================================================
