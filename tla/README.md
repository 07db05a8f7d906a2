# TLA+ models of TVPN

TVPN is a web proxy: a signed-in user opens a *context*, the server gives every
origin the page visits a random host label (a *route*), rewrites the documents and
injects a runtime that sends the page's own `fetch` calls through a WebSocket
multiplexer. Administrators decide, with policies and assignments, which targets a
user may reach and through which egress.

The modules here are translated from the Go sources under `src/internal/`, from
the injected runtime `src/internal/proxy/runtime.js` and from the Go client
`src/sdk/go/tvpn/client.go`. TLC checks them on small
instances; TLAPS proves their invariants, their action properties and the refinement, for
every value of the constants, in the modules whose names end in `_proofs`.

```
tlc -workers 2 -config MCMux_safety.cfg MCMux.tla      # one line per run, see "Runs"
tlapm Access_proofs.tla                                # likewise the other *_proofs
```

## 1. Inventory

| Component | State | Operations | Talks to |
|---|---|---|---|
| Request multiplexer (`proxy/mux.go`, `runtime.js` `muxFetch`, `handleFrame`) | page: `pending`, `nextID`, one socket; server: `states` (uploads), a goroutine per running stream | fetch, upload, cancel, handle frame; read loop, executor | the request pipeline, one WebSocket |
| Access policies (`policy/policy.go`, `proxy/security.go`) | tables `policies`, `policy_rules` | `Effective`, `Evaluate`, `Guard.Resolve` | database, DNS |
| Request pipeline (`proxy/http.go` `forward`, `authorize`, `transport`; `mux.go` `muxRoundTrip`; `websocket.go` `serveWebSocket`) | one request: target, resolved addresses, redirect count | authorize, check egress, dial, follow redirect | policies, egress, upstream |
| Policy, assignment and egress administration (`admin/http.go`, `admin/assignments.go`, `proxy/upstream.go`, LDAP sync in `auth/store.go`) | tables of policies, assignments, groups, proxies, grants, direct ACL | save, delete, assign, grant, switch | database |
| Contexts, routes, tickets, proxy sessions (`proxy/store.go`, `proxy/http.go`) | tables of the same names | create, navigate, bootstrap, close, admit | database, browser |
| Cookie jar (`proxy/cookies.go`) | encrypted cookies of a context | save per response, load per request | database |
| WebSocket tunnel (`proxy/websocket.go`) | two connections, two pumps | copy, close with a code | browser, upstream |
| Runtime: URL resolution queue, XHR, EventSource (`runtime.js`) | cache of 4096 results, 24 active lookups, shared lookups | resolve, finish | context API |
| Identity (`auth/*`, `ldapauth/service.go`) | users, sessions, program tokens | login, logout, disable, reset, revoke, LDAP upsert | database, LDAP |
| Client SDKs (`sdk/*`, `cmd/tvpnctl`) | one session object | Do, Open, Close | HTTP API |
| Rewriting (`proxy/rewrite.go`), configuration, migrations, admin UI | none that changes at run time | text and setup | |

What makes it hard, and what each part must get right:

* **Multiplexer.** Calls, frames of several goroutines, overflows and a connection
  that may drop all interleave; the page notices a lost connection later than the
  server or earlier. Correct means: no request runs with a body that is truncated
  or mixed, no response reaches another call, a stream that ends normally is
  complete, no call hangs, and a page that goes away leaves no goroutine behind.
* **Pipeline and administration.** A request takes a lookup, one query for the
  policies, one per policy for its rules, a query for the egress and a dial, per
  redirect; every one of them is a moment at which an administrator's transaction,
  an LDAP login or a changed DNS answer may fall. Correct means: what is dialled
  passed the policies in effect, at the address that was checked, through an egress
  the user holds, and a revocation reaches requests that were admitted before it.
* **Contexts.** One-time tickets, navigation against slow documents that write
  `current_url` late, closing and deletion between the statements of a handler,
  deletion of a proxy against creation of a context. Correct means: a ticket opens one
  context once, a closed context admits nothing, a route is reached only with the
  credentials of its owner, and a context never points at a target that was not resolved.
* **Identity.** A login against a password reset, a disabled user the directory still
  signs in, directory logins that lock the same groups in opposite orders, two administrators
  demoting each other. Correct means: no session outlives the password it was
  issued for, the directory signs nobody in to a local account, a user's groups are one
  listing of the directory, and an active administrator remains.
* **Page.** Cookie writes in order against a jar that responses write too; a limit of
  24 lookups, with sharers and a cache. Correct means: HttpOnly cookies never reach
  scripts, writes take effect in the order made, a URL is asked for once, and no
  failure takes a place for good.
* **Client.** Overlapping calls of Close and Do, lost calls and lost answers. Correct means:
  no context is left behind but by the network, and Tvpn's errors are told from a target's.

`PROJECT.json` lists the hazards with their lines; those without a property say why.

## 2. Plan

Written, in this order: `Mux`, `Policy`, `Access` (composes `Policy` with the
database as administrators change it), `Access_proofs`, `Mux_proofs`, `MuxBodies_proofs`,
`Accounts`, `Contexts`, `Page`, `Sdk`, `Fetching` (the abstract specification of a page's
fetch), `MuxFetching` (`Mux` refines it), then `Sdk_proofs`, `Accounts_proofs`,
`Contexts_proofs`, `Page_proofs`, and `MuxFetching_proofs`, which extends `MuxFetching` and
`MuxBodies_proofs` (and that `Mux_proofs`).

`Accounts` says which requests are authenticated, and `Contexts` begins where
its user is known; `Access` begins where `Contexts` has found the route (`Forward`,
`ChannelRequest`) and ends in the answer `Contexts!Exchange` goes on with; `Mux` carries
the requests of a channel, `Page` the other two things a page asks the server for, and
`Sdk` uses contexts from outside.

Still to write, the most valuable first:

1. More theorems about what is there: what `Fetching` promises a page in so many words
   (a promise settles once, a body comes from a target that answered), carried over to `Mux`
   by the refinement; what a policy evaluated from a torn read can still be relied on for.
2. `Tunnel`: the two pumps of a WebSocket and the close code they decide on. It depends
   on what cancelling a read does inside the WebSocket library.
3. Domains and paths of cookies, as a second dimension of `Page`.

All modules follow the same shape: parameters as CONSTANTS with a named
ASSUME, one action per handler or query, no RECURSIVE operator.

## 3. The modules

### Mux

One page, the calls `Fetch`, each made once; `MaxConn` WebSockets one after another.

| In the model | In the code |
|---|---|
| `nextID`, `Key`, `NextIDAfter`, `Wire` | `nextID++ >>> 0 \|\| nextID++`, and `setUint32` when a frame is written |
| `pending`, `key` | the `Map` of `muxSocket`, keyed by identifier: registering a key again replaces the entry |
| `promise`, `answer`, `stream`, `got` | the promise `muxFetch` returns, its `ReadableStream` and what was enqueued |
| `pc`, `sent`, `sock` | where `muxFetch` is, chunks uploaded, the socket it captured |
| `socket`, `conn`, `link`, `c2s`, `s2c` | the page's view of its socket; the connection and what is in flight each way (ordered, lost when it drops) |
| `serving`, `phase`, `body`, `produced` | `serveMux` per connection; where a stream is on the server, its collected body, chunks streamed |

The page is single-threaded: an event handler is one step, and continuations of
calls whose socket is ready run before the next event (`Drained`). The server's read
loop handles one frame per step, an executor writes one frame per step, and the
frames of all of them interleave. A connection may drop at any moment; each side
learns of it by itself (`SocketCloses`, `ReadFails`), after reading any part of what
was in flight. What an upstream answers is a choice among `Status`: a status without a
body (`EMPTY`: 204, 205, 304), one with (`BODY`), and the two kinds `new Response` refuses,
above 599 after a stream was made (`UNUSABLE`), 101 without one (`SWITCHING`). A refused
status throws in the message handler before the promise is settled: the call waits on, its
entry stays in the table, and only a later ERROR or the end of the socket finds it (for 101
these reject it; with a stream they error the stream and the promise stays).

Abstracted: headers, the CORS decision, the envelope of START (the frame carries the
call itself, so that a mix-up shows), byte sizes of chunks (a body is equal chunks
and `MaxBody` counts them), error texts. The upstream exchange of an executor
(`ExecRefuses`, `ExecResponds`) is module `Access`. Idle pings and the read limit of
one frame are not modelled; they end the connection, which `LinkDrops` does.

The `duplicate_stream` branch of `OnStart` is kept, but with identifiers below
`IdSpace` no legal sequence reaches it. The `invalid_metadata` branch is left out: `muxFetch`
takes method and URL from a `Request`, which has both.

### Policy

`Evaluate` as an operator. A rule is what it denotes: a set of targets (host, suffix
or URL prefix) and a set of addresses (CIDR block). `Denies` is one turn of the loop;
no effective policy at all denies. A whitelist passes when any of the resolved
addresses lies in a CIDR rule, although only the first is dialled: this is what
`policy.go` does and `DialRespectsPolicies` says so explicitly.

### Access

The requests in progress against the database.

| In the model | In the code |
|---|---|
| `policy`, `assigned`, `member`, `proxies`, `grants`, `restricted`, `direct` | policies with their rules, policy assignments, group membership, upstream proxies, their grants, the direct egress switch and its ACL |
| `Begin` | `forward`, `executeMux`, `serveWebSocket` after the route is looked up |
| `Resolve` | `Guard.Resolve` in `authorize` |
| `ReadPolicies`, `ReadRules`, `Decide` | `Effective` (one query for ids and modes, one per policy for its rules), `Evaluate` |
| `CheckEgress`, `Dial` | `transport`: `DirectAllowed` or `Authorized`, then `DialContext` with the pinned address |
| `Answered`, `Redirected`, `HandshakeRedirected` | the upstream's answer; `forward` checks a redirect and returns it to the browser, `muxRoundTrip` follows it up to `MaxHops`, the HTTP client inside `websocket.Dial` follows one by itself |
| `SavePolicy` ... `AssignDirect` | the handlers of `admin` and `UpstreamStore`, each one transaction or statement |
| `SyncGroups` | `UpsertLDAPUser` replacing the groups of a user |

Each query is a step of its own, so any administrator's edit may fall between any two.
The rows of policies that are read go through `read`: `ReadRules` sees the rules as they are *now*
and the mode as it was *then*, as the two queries do. `ReadRules` takes the
policies in any order; the code's order is that of the first query, one of them.
Two concurrent replacements of the assignments of the same holder can leave the
union of both; `AssignPolicies` may set any list, so the model covers it.

`steady`, `opened` and `permitted` are history variables that no guard reads: the
policies whose row and effect on the user are unchanged since the hop began, whether
the egress was ever open to the user during it, whether the policies ever allowed it.

Abstracted: URLs and names (a target is a model value), header rewriting, cookies, CORS,
bodies, the text of errors. The HTTP client inside `websocket.Dial` is a library and is
modelled from how `websocket.go` configures it.

### Accounts

| In the model | In the code |
|---|---|
| `users`, `member`, `sessions`, `tokens`, `ldapEnabled` | the tables `users`, `user_ldap_groups`, `sessions`, `program_tokens`, `ldap_settings` |
| `locks` | rows of `users` and `ldap_groups` that an open transaction of `UpsertLDAPUser` has written |
| `req` | a handler between two of its statements, with what it has read |
| `server`; `CountUsers`, `CreateBootstrapAdmin`, `Restart` | `server.New` and `EnsureBootstrapAdmin`; the process stopping anywhere |
| `LoginLocal`, `LoginDirectory`, `UpsertUser`, `LockGroup`, `UpsertCommit`, `UpsertAborted`, `CreateSession` | `Login`, `authenticate`, `UpsertLDAPUser`, `CreateSession` |
| `AuthenticateToken`, `AuthenticateSession`, `RequireAdmin`, `RequireScope`, `RequireBrowserSession` | the middlewares in the order `routes` applies them |
| `UpdateReadTarget`, `UpdateCount`, `UpdateUser` | the three statements of `updateUser` |
| `SetPassword`, `DeleteSessions` | the two of `setPassword` |
| `ClientGone` | `r.Context()` ends: the next statement fails, a transaction rolls back |

A password is how often it was set. Of a login only what changes something is kept: a
wrong password or a failing directory ends it. `UpsertLDAPUser` does its work in one
transaction; what it writes becomes visible at `UpsertCommit`, what it locks is locked
from the statement on. A directory login may be for another user than the one typed,
because the name is taken from an attribute of the entry found. `hash`, `late` and
`unfinished` are history: which password a session was issued for, whether that was replaced
before the session's row, whether a reset's second statement was never carried out.
Any number of fresh session tokens is represented by a few names that are
reused when nothing refers to them.

Abstracted: CSRF tokens, the audit log, names and mail addresses, `last_login_at` and
`last_used_at` (nothing reads them), the LDAP protocol.

### Contexts

| In the model | In the code |
|---|---|
| `contexts`, `routes`, `tickets`, `sessions`, `proxies` | `proxy_contexts`, `proxy_routes`, `proxy_tickets`, `proxy_sessions`, `upstream_proxies` |
| `deleting` | the open transaction of `UpstreamStore.Delete` between its two statements |
| `channels` | multiplexer connections that were accepted |
| `BeginCreate`, `CreateContext` | `createContext`; `Store.CreateContext` is one transaction |
| `BeginNavigate`, `SelectOwner`, `InsertRoute`, `UpdateCurrentURL`, `TicketSelect`, `TicketInsert` | `navigate`: `Context`, `ResolveRoute`, `UpdateCurrentURL`, `CreateTicket` |
| `ConsumeTicket`, `ReadContext` | `bootstrap` |
| `RouteByLabel`, `Authenticated`, `CompatibilityAllowed`, `Forward`, `OpenChannel` | the admission in `ServeHTTP` |
| `ResolveURL`, `Exchange`, `Link`, `Reply` | `resolveURL`, and `forward` after its authorization: transport, redirect location and rewriting (`rewriteURL`), reply, `current_url` of a document |
| `HandlerFails` | every early return: policy, resolver, egress, a failing statement, a client that is gone |

A target is its origin, since that is what routes are unique for; the random label of
a route is the pair of context and origin. Rows that an open deletion has deleted are waited for
by statements whose foreign key refers to them, and violate it when the deletion
commits. `meant`, in tickets and handlers, is history: where the navigation led that
issued the ticket, until another write of `current_url` supersedes it or its own
write failed.

Users are not disabled here, because `AuthenticateProxy` does not ask; program
tokens of the owner are accepted as `Accounts` says. Two browsers show no credential:
`SamePage` is a page of the very context, whose `Origin` is what
`compatibilityRequestAllowed` accepts; `Stranger` shows none, or the `Origin` of a route of
another context, which `mapProxyURLForContext` refuses.

### Page

| In the model | In the code |
|---|---|
| `visibleCookies`, `ViewAfter` | the `Map` behind `document.cookie`, `updateVisibleCookie` |
| `jar`, `JarAfter`, `VisibleCookies` | the row of `proxy_cookies`; `SaveCookies`, `VisibleCookies` |
| `writes`, `SentAtOnce`, `SendCookie`, `SaveCookie`, `FetchSettles`, `FetchFails` | `queueCookieWrite`: a chain of promises in compatibility mode, otherwise concurrent calls; `setDocumentCookie` |
| `news`, `MuxReadsCookies`, `ResponseStarts` | cookies that `executeMux` puts into the head of a response, and `start` adds to the view |
| `LoadPage` | `rewriteHTML` handing the visible cookies to the next page |
| `resolutionQueue`, `activeResolutions`, `resolvingURLs`, `resolvedURLs` | the variables of the same names; `active` are the lookups the counter counts |
| `ResolveURL`, `Drain`, `ResolutionSettles` | `resolveURL`, `drainResolutions`, and the `then` and `finally` of a lookup |

The page is one thread. The promise callbacks of a settled lookup run in one step: no
other task of the page falls between them, and the two that give back the place and forget
the target commute. `disturbed` is history: something other than
order may have set the view and the jar apart (a failed write, a target, an older
response, a kind of assignment the two read differently). There is one cookie; domains and paths
do not interact with order or with HttpOnly.

### Sdk

Goroutines of a Go program: `Do` (create, request, clean up when the body is closed),
`Open`, `Session.Do`, `Session.Close`. Every exchange with the server may fail before or after the
server acted; a DELETE that was given up may still arrive (`LateDelete`). Of the server
there is the state of each context and the header that marks Tvpn's own errors,
which `copyResponseHeaders` takes from a target's answer (`Copied`). `leaked` is
history: contexts whose creation or deletion the network did not answer.

### Fetching and MuxFetching

`Fetching` is what a page may expect of `fetch`, with nothing of frames, connections
and identifiers: per call, the stage its target is at, the promise, the stream and how
much was delivered. `MuxFetching` maps `Mux` to it: `phase` becomes the stage (a
request still collected has not been asked), `got` its length. `Mux!Next` steps that only
move frames are stutters; a connection that ends may fail several calls and stop several
executors at once, for which `Fail` and `Stop` take sets.

### The MC modules

`MCMux`, `MCAccess`, `MCAccounts`, `MCContexts`, `MCPage` and `MCSdk`: values of the
constants for TLC.

## 4. Runs

| Run | Instance | Question | Result |
|---|---|---|---|
| `mux_safety` | two calls (2 chunks, and 3 chunks over a limit of 2), 2 connections, 2 chunks per response, all four statuses | are bodies and responses ever mixed, truncated, or streams dropped silently, and is every call a `Fetching`? | holds, 458 000 states |
| `mux_live` | a call with a body of one chunk and one without body whose response never ends, 2 connections | where targets send statuses a `Response` takes: does every call settle, wait for something until then, every stream finish and every goroutine end? | holds, 157 000 states |
| `mux_cancel` | one connection, an endless response | does CANCEL stop a request? | **violated** |
| `access_safety` | one request of each kind, 2 targets, 2 policies with 2 possible contents each, public, private and metadata addresses, rebinding names, 1 redirect | does what is dialled respect the policies whatever is edited? | holds, 1.6 million states |
| `access_live` | a user, a group, an upstream proxy and the direct egress, 2 targets one of which is denied, 1 redirect | is a revoked egress ever dialled, and does every request end, or stay at a handshake that is redirected for ever? | holds, 498 000 states |
| `access_torn` | one policy, two contents that both deny `t1` | is what is dialled allowed by the policies at some instant of the hop? | **violated** |
| `access_handshake` | one WebSocket request, 2 targets | is only the checked target asked for? | **violated** |
| `accounts` | an administrator and two users of the directory, one of whom may be created locally; 2 handlers, 1 session, 1 token; three listings of groups, two of them in opposite orders; an empty and a non-empty database | do sessions, groups and rows stay right through resets, disabling, deadlocks, restarts and failing queries, does an administrator remain, and does every login end? | holds, 419 000 states |
| `last_admin` | two administrators, each with a session, two requests at a time | is the last active administrator ever taken away? | **violated** |
| `contexts` | one context of one user, another user with a program token, a page of the context and a browser, both without credentials, 2 origins, 1 ticket at a time, 1 proxy, both modes, 2 handlers at a time | who reaches a context, and where does it lead, through navigation, closing and deletion? | holds, 1.6 million states |
| `page` | all kinds of cookie writes, 2 under way at a time; 4 lookups of 3 URLs through 2 places, a cache of 1; both modes | are cookies ordered and secret, lookups shared and finished? | holds, 223 000 states |
| `sdk` | 3 goroutines, 3 contexts | is every context closed, and every error attributed? | holds, 44 000 states |

Bounds and why they are enough. Mixing needs two calls; a third only repeats what the
second does, because streams share nothing but the table, the counter and the two
queues. A second connection is what a call meets after the first one dropped, and a third
adds nothing the second does not. A body of `MaxBody` chunks and one of `MaxBody + 1`
are the two sides of the limit, with the END of the second still on its way
when the stream is dropped. Two response chunks are the fewest that can be swapped or of which
one can be lost. `MaxId` lets every call of an instance begin; `IdSpace` is larger, so
that identifiers do not wrap: at the wrap the second `nextID++` is not truncated and
the call is lost, which `Key` says and no run reaches. In `Access` a torn evaluation
needs one policy, its interplay with the assignments two; one followed redirect shows
every order of checks, since the pipeline keeps nothing of an earlier hop but the
count. Requests do not share state with each other, so one suffices.

In `Accounts` two transactions are the fewest that deadlock, with two users
because a login locks its user first; a third listing, disjoint from the others, shows a
mixture. `Handling` keeps authenticated requests to one handler in `accounts`, so that the other is a
login; `last_admin` allows both. A failing query ends a handler, save the first one of
`updateUser`, after which the request goes on (`"unguarded"`). `MaxHash` allows one reset. A session and a token are two
credentials, so that one can reset, disable or revoke what the other belongs to; a login
that finds no name left for its session fails as when its INSERT fails. In `Contexts`, all statements name one
context and contexts share only the proxy, so one context and two handlers
show every pair of interleaved statements; a second context is there as the page of another
context a `Stranger` may show. One ticket name
is reused after it expires. `page` does either cookies or
lookups (`Parts`), which share nothing but the page's end. `sdk` has a goroutine more
than the two whose calls of Close overlap.

`CHECK_DEADLOCK FALSE`: the page may make its calls and stop, and so may an
administrator; in the newer runs the bounded names of sessions, contexts and calls
may be used up. Waiting in a circle is what `LoginsEnd` rules out.

### Findings

* `mux_cancel`. `docs/proxy-protocol.md` lists request/cancel as a frame a page
  sends. The server looks it up among the streams still *collecting*, but the page can
  send it only when it has a response, after END took the stream out of that
  table. The executor streams on.
* `access_torn`. `docs/database.md` says a request must pass all effective policies.
  `Effective` reads modes and rules in separate queries, outside a transaction; a
  policy changed from "blacklist t1" to "whitelist t2" in between is evaluated as
  "blacklist t2", which allows `t1` although neither version does.
  `DialRespectsPolicies` is what does hold: a policy *unedited* during the hop is
  respected.
* `access_handshake`. `docs/security.md` says redirects and WebSockets cannot avoid
  the checks. The HTTP client given to `websocket.Dial` follows redirects of the
  handshake without `authorizeWebSocket`. The connection still goes to the pinned
  address.

* `last_admin`. The error `last_admin` says that the last administrator cannot be
  disabled or demoted (`httpapi.go`, `docs/error-codes.md`). `updateUser` counts and
  updates in separate statements without a transaction or a lock. An administrator taken away by
  another request between the two leaves none. In the shortest trace that other request
  skipped its own count; two requests that both count two do it as well.

What the properties of the newer runs leave out is as telling as what they say, and is
listed with the hazards: a login in progress survives a reset (`late`), a reset may keep
the old sessions when its second statement fails (`unfinished`), `updateUser` skips the
count of administrators when its first query fails (`"unguarded"`: `== nil && active` takes
the failure for "no", and one request is enough to lose the last one), a navigation may be
overtaken by a slow page (`Superseded`), multiplexer connections outlive their context
(`channel`), the page's view of its cookies falls behind responses (`disturbed`).

## 5. Fairness

`Mux!FairSpec`. Weak fairness on the page's continuations and event handlers (the
browser's event loop), on the read loop and its end (one goroutine in a loop), on
the executors (an upstream call ends by an answer, or by the dialer's 15 s and the
transport's 30 s timeouts; a body that is not endless ends or breaks), on cancelled
executors (the context is selected on by every blocking call), and on the page's
reader of a request body. Nothing is assumed of the link dropping, of new calls or of
cancellation. `FetchSettles` is checked with statuses `Response` accepts: with one it refuses,
`request.start` throws before the promise is resolved, and the call does hang
(listed as a hazard). `mux_live` checks `NoOrphanedFetch` too, because there it makes no
exception; in `mux_safety`, where targets send any status, it excepts the calls whose
RESPONSE was refused, and no other.

`Access!FairSpec`. Weak fairness on the steps of each request: handlers run, and every
query, lookup, dial and upstream ends or times out. A redirected handshake is one of the
steps that count, so the fairness holds as well where a target redirects for ever; nothing
is assumed to end that. `websocket.Dial` is given a client without a timeout and without
`CheckRedirect`, and the library puts a `CheckRedirect` of its own there, which replaces
the limit of ten Go's client has: `RequestsFinish` therefore says of a WebSocket that it ends or
reaches its handshake, and of the other two kinds that they end. Nothing is assumed of
administrators.

`Accounts!Spec`. Strong fairness on the steps of a login: the server runs what it has
started, and a row's lock, which others take and release meanwhile, is handed out in
the order of waiting. Nothing is assumed of clients, administrators, expiry or restarts. The
database breaking a deadlock is one of the steps (`UpsertAborted`).

`Page!Fairness`. Weak fairness on lookups settling: the browser ends a fetch one way or the
other, and the server's handlers end. The code sets no timeout of its own (a hazard).

`Contexts` and `Sdk` claim no liveness.

## 6. Proofs

### Access_proofs

Assumptions: `PolicyAssumption` and `AccessAssumption` only (hard-denied and
non-public addresses are addresses, `Direct` is not a proxy, administrators save
well-formed rows). Any number of users, groups, policies, proxies and requests.

* `TypeCorrect`: `Spec => []TypeOK`, with `HoldsAnswer` (a request past its lookup
  holds a resolvable answer), without which `Dial` would have no address to pin.
* `Invariant`: `Spec => []IInv`. `DialRespectsPolicies` speaks of the connection only
  and is not inductive; `IInv` follows the pipeline backwards from it:
  `Connected` (the connection is to the first address of the answer held), `Passed`
  (once decided, every policy standing since the hop began lets the target pass),
  `ReadsFaithful` (while rules are read, such a policy is in `todo` with its present
  mode or in `read` with its present row), `OpenCounted` and `OpenedEgress` (an egress that
  is open has been counted; beyond its check it was open). An edit can only shrink
  the set of standing policies (`EditsSpareTheSteady`), which is why it preserves
  `ReadsFaithful` and `Passed`; a torn read concerns only a policy that has left it.
* `DialsRespectPolicies` and `RevokedEgressStopsDials` follow. The step from the
  whole answer to the one address dialled is `DenialMonotone`: a policy that denies by
  content denies more when it sees more addresses.

### Mux_proofs, MuxBodies_proofs, MuxFetching_proofs

Assumptions: `MuxAssumption`, and `NoWrap` (`MaxId < IdSpace`) as a hypothesis of every
theorem but the first: identifiers are handed out without reuse as long as a page makes
fewer than 2^32 calls. Any number of calls, connections, chunks, and any body limit.

* `TypeCorrect`: `Spec => []TypeOK`.
* `FramesIsolated`: `Spec => []Isolated`. A call without an identifier has left no trace
  (`Unborn`), one with an identifier has a connection that was up and is in the page's
  table only while that connection is the page's (`Born`), and a frame in flight carries
  the identifier and travels on the connection of its own call (`AllCarried`). So
  `States` and `Addressed`, which look up an identifier, find the frame's call or nothing
  (`StatesOf`, `AddressedOf`).
* `RequestsIntact`: `Spec => []ExecutedBodyComplete`. The property speaks of requests
  that run and says nothing of how they came to; `Uploads` says of a request that is
  still being sent that its frames in the queue are a *flow*: START before the chunks
  before END, the chunks numbered one by one from where the collected body stops, none
  missing while the link is up or once END is in the queue. When END is taken, the body
  collected is therefore what was sent, and END is only sent when everything was.
* `Invariant`, `AnswersAreOwn`, `ClosedIsComplete`: `Responses` says the same of the other
  direction, for the calls whose stream the page still fills. A call that left the table,
  or whose stream was cancelled, no longer takes chunks, and nothing is said of its frames.
* `NoneOrphaned`: `Spec => []NoOrphanedFetch`, with `ToCome`: what a stage of a call leaves
  on the way (an END behind an upload that ended, a RESPONSE or an ERROR behind an executor
  that answered), that a CANCEL on its way has a stream behind it (so a call that still waits
  is never dropped by one), and that a read loop returns only once its link is down.
  `Statuses` says that a RESPONSE on the way carries a status some target sends, and that a
  call which has had its RESPONSE and still waits was sent a refused one: the exception of
  `NoOrphanedFetch` is empty where targets send none of those.
* `Implements`: `Spec => ImplementsFetching`, the refinement, for any number of calls that
  share the connection. Each step of `Mux` is matched with a step of `Fetching` or with none
  (`CallsSeen`, `SocketSeen`, `MessageSeen`, `ReadsSeen`, `ExecutesSeen`). That a chunk
  delivered is one the target has produced, and a stream that closes has them all, comes
  from `Responses` after the step; that a response meets a call which has neither a stream nor
  a settled promise needs `PromisesStand` besides. `Fetching` states no fairness, so this is
  about safety; that calls settle is what `mux_live` checks.

The head of `Mux_proofs` is the argument both directions share: a queue of frames of many
calls, and what a reader taking its head or a writer appending to it does to the flow of
one call (the lemmas `FlowTail...`, `FlowAppend...`), with `FlowLost` and `FlowDrops` for a
writer whose connection is gone.

### Accounts_proofs

Assumption: `AccountsAssumption`. Any users, groups, listings of the directory, requests,
names of sessions and tokens, and any number of passwords.

* `Invariant`: `Spec => []IInv`. The properties do not follow from themselves, because a
  handler acts on what it read some statements ago. `LoginStands` carries that along: the
  listing a login holds is one of the directory's; once it has passed the upsert it holds
  the row of its user, who is not local and whom nobody makes local while the row is locked;
  and a login about to create a session does so for a user there is, of the directory if it
  came by the directory. `AskedOfUser` ties a handler to what was asked for, `Rows` and
  `SessionsOwned` tie sessions and handlers to rows that exist.
* `LocalsStayLocal`, `ResetsEndSessions`, `MembershipStands` and `TypeCorrect` are its
  conjuncts. In `ResetsEndSessions` a session of a replaced password is one that was inserted
  after the reset (`late`), or awaits the DELETE of a handler at work, or was left by one
  whose DELETE was not carried out (`unfinished`).
* `LastAdministratorStays`: `Spec => LastAdminStays`, an action property, for finitely many
  users (`updateUser` counts them) and one authenticated request at a time (`Handling` has at
  most one element); the run `last_admin` drops the last and is violated. What is
  inductive is `AdminsStand`: a handler about to UPDATE leaves another administrator
  (`AnotherStands`), because it counted more than one or its user was none, and since then
  logins have filled rows that were nobody's and changed no other.

### Contexts_proofs

Assumption: `ContextsAssumption`. Any users, contexts, origins, tickets, proxies, requests.

* `Invariant`: `Spec => []IInv`. A handler between two statements holds a context, an
  origin and an owner that others may change in the meantime: `HandlersStand` says what of
  it still stands. Whoever is about to write `current_url` holds an origin with a route;
  where it leads is what was meant or is marked superseded; who asked is the owner, or a
  page of the same context in compatibility mode. `TicketsStand` and `ChannelsStand` say the same of tickets
  and of multiplexer connections, which wait much longer.
* `EgressRemains` rests on the foreign key of `proxy_contexts`: a proxy goes only if its
  transaction has deleted every context that refers to it, one created in between included.
* `CurrentUrlIsRouted`, `NavigationsLand`, `ServesTheOwner`, `ClosedIsSilent` and
  `TypeCorrect` are corollaries.

### Page_proofs

Assumption: `PageAssumption`. Any number of writes, calls, targets, places and cached results.

* `SecretsStayHidden` needs `Marked` (a secret in the jar is marked HttpOnly) because the
  jar reaches scripts through `VisibleCookies` only.
* `WritesTakeEffectInOrder`: the property speaks of a page whose writes are all settled.
  `InOrder` says what it sees until then: one write is under way at a time, the first
  (`OneAtATime`), the page sees its last write, and once that is saved the jar agrees
  (`SeesItsLast`).
* `LookupsAreShared`: the queue and the set of lookups under way are disjoint and without
  repetitions, `activeResolutions` counts the latter (`Places`), and `resolvingURLs` is
  their union, so a place is given back exactly once. The counting uses the theorems on finite
  sets and lemmas on the elements of a sequence after `Append`, `Tail` and `RemoveAt`.

In `Page`, the writes a page leaves at the server when it is replaced are put in *some*
order (`AtWork`, `SetToSeq`): nothing depends on it, since each of them is saved or lost on
its own.

### Sdk_proofs

Assumption: `SdkAssumption` (the absence of a context is not a context). Any number of
goroutines and contexts.

* `Invariant`: `Spec => []IInv`. `NothingLeftBehind` and `ClosedMeansClosed` are inductive
  together with `SessionStands` (the session has a context if anybody works on it, and that
  context was created); `ProblemsAreTvpns` with `Attributed`: a body left to the caller is
  the target's, and the clean-up of a call keeps the result it interrupted.
* `ContextsAreClosed`, `ClosedIsClosed`, `ErrorsAttributed`, `TypeCorrect` are corollaries.

### Only model-checked

`RequestsFinish`, `FetchSettles`, `ConnectionFreesExecutors`, `StreamFinishes`, `LoginsEnd`
and `ResolutionsSettle`: liveness under fairness, and ENABLED, are beyond the prover. The
four violations are counterexamples and need no proof. Every invariant and every action
property of a passing run, and the refinement, is a theorem.

What TLC still adds to the theorems: the models do reach the states they speak of (the
mutants), and without `NoWrap` nothing is claimed of the multiplexer.

## 7. Not modelled

* The two pumps of a WebSocket tunnel and their close code: whether a code is relayed
  depends on what the WebSocket library does to a connection whose read is cancelled.
* Domains, paths and encryption of cookies; HTML, CSS and URL parsing (stateless
  transformations of text): what rewriting does to the tables is in `Contexts` and `Page`.
* XHR, EventSource, sendBeacon, history and DOM observation: wrappers of `muxFetch` and
  `resolveURL` in terms of browser interfaces.
* The Python and TypeScript clients, `tvpnctl` and the administration UI, which use the
  same API; the context replacement of the UI is not followed.
* Password hashing, the LDAP protocol and encryption (libraries), migrations and
  configuration (run once; foreign keys are part of the actions that delete), lists and
  the audit log (read back by nobody but people).
