------------------------------- MODULE Access -------------------------------
(***************************************************************************)
(* How a proxied request gets its upstream connection, while administrators*)
(* edit policies, assignments and egress permissions.                      *)
(*                                                                         *)
(* A request (internal/proxy: forward, executeMux / muxRoundTrip,          *)
(* serveWebSocket) runs with the user and the egress of the route it was   *)
(* admitted on.  Each hop resolves the target, reads the effective         *)
(* policies, evaluates them (authorize), checks that the user still has    *)
(* the egress and pins the first resolved address (transport), and dials.  *)
(* Every step is one database query or one network call, and               *)
(* administrators' transactions fall between any two of them.              *)
(***************************************************************************)
EXTENDS Policy

CONSTANTS User, Group, PolicyId, Proxy, Request,
          Direct,   \* the egress of a context without upstream proxy
          Content,  \* what an administrator may save in a policy
          Answers,  \* what the resolver may return: sequences of addresses
          MaxHops   \* redirects muxRoundTrip follows (10)

Kind == {"forward", "mux", "ws"}
Egress == Proxy \cup {Direct}
Holder == User \cup Group

\* A row of policies with its rules; Absent before it is created.
Row == [mode : Mode, rules : SUBSET Rule, enabled : BOOLEAN]
Absent == [mode |-> "deny_all", rules |-> {}, enabled |-> FALSE]
Deleted == [mode |-> "whitelist", rules |-> {}, enabled |-> FALSE]

ASSUME AccessAssumption ==
    /\ Direct \notin Proxy
    /\ Content \subseteq Row \ {Absent, Deleted}
    /\ Answers \subseteq Seq(Address)
    /\ MaxHops \in Nat

VARIABLES
    \* the database: policies, who they are assigned to, group membership,
    \* proxies, who they are granted to, the direct egress and its users
    policy, assigned, member, proxies, grants, restricted, direct,
    \* the requests in progress; conn is the address of the connection made and
    \* asked what is asked for over it
    pc, kind, who, via, target, addrs, todo, read, hops, conn, asked,
    \* history of the hop in progress: policies unchanged since it began,
    \* whether its egress was ever open to it, whether its target ever was
    steady, opened, permitted

dbVars == <<policy, assigned, member, proxies, grants, restricted, direct>>
routeVars == <<kind, who, via>>
hopVars == <<target, addrs, todo, read, hops, conn, asked>>
ghostVars == <<steady, opened, permitted>>
vars == <<dbVars, pc, routeVars, hopVars, ghostVars>>

----------------------------------------------------------------------------
(* What a query answers in the current state of the database.              *)

\* A user holds what is given to the user or to a group of the user.
Holds(u, h) == h = u \/ <<u, h>> \in member

InEffect(u) == {p \in PolicyId : policy[p].enabled /\ \E h \in Holder : Holds(u, h) /\ <<p, h>> \in assigned}
Allows(u, t, A) == Evaluate({policy[p] : p \in InEffect(u)}, t, A)

\* DirectAllowed and Authorized
EgressOpen(u, e) ==
    IF e = Direct THEN ~restricted \/ \E h \in direct : Holds(u, h)
                  ELSE proxies[e] = "enabled" /\ \E h \in Holder : Holds(u, h) /\ <<h, e>> \in grants

----------------------------------------------------------------------------
(* The pipeline's order of checks.                                         *)

\* Where a followed redirect goes: back to the first check.
RedirectUnchecked == "egress"
AfterRedirect == "resolve"

\* After authorize, transport checks the egress on every hop.
EgressCheckedOnce(h) == IF h = 0 THEN "egress" ELSE "dial"
AfterAuthorize(h) == "egress"

\* The address transport pins: target.Addresses[0].
RepinnedAtDial(r) == {s[1] : s \in Answers}
Pinned(r) == {addrs[r][1]}

\* `redirects++` in muxRoundTrip
HopsNotCounted(h) == h
HopsAfter(h) == h + 1

\* Which addresses Resolve lets through
ResolveUnguarded(s) == s # <<>>
Resolved(s) == Resolvable(s)

----------------------------------------------------------------------------
Init ==
    /\ policy \in [PolicyId -> Content \cup {Absent}]
    /\ assigned \in SUBSET {a \in PolicyId \X Holder : policy[a[1]] \in Content}
    /\ member \in SUBSET (User \X Group)
    /\ proxies \in [Proxy -> {"enabled", "disabled"}]
    /\ grants \in SUBSET (Holder \X Proxy)
    /\ restricted \in BOOLEAN /\ direct \in SUBSET Holder
    /\ pc = [r \in Request |-> "idle"]
    /\ kind \in [Request -> Kind] /\ who \in [Request -> User] /\ via \in [Request -> Egress]
    /\ target \in [Request -> Target]
    /\ addrs = [r \in Request |-> <<>>]
    /\ todo = [r \in Request |-> {}] /\ read = [r \in Request |-> {}]
    /\ hops = [r \in Request |-> 0]
    /\ conn = [r \in Request |-> {}] /\ asked = [r \in Request |-> {}]
    /\ steady = [r \in Request |-> {}]
    /\ opened = [r \in Request |-> FALSE]
    /\ permitted = [r \in Request |-> FALSE]

Goto(r, from, to) == pc[r] = from /\ pc' = [pc EXCEPT ![r] = to]

\* A hop begins: nothing has changed yet.
HopBegins(r) ==
    /\ steady' = [steady EXCEPT ![r] = PolicyId]
    /\ opened' = [opened EXCEPT ![r] = EgressOpen(who[r], via[r])]
    /\ permitted' = [permitted EXCEPT ![r] = FALSE]

\* The handler has looked up the route and admitted the request.  Deleting a
\* proxy deletes its routes, but a multiplexer keeps the one it was opened with.
Begin(r) ==
    /\ via[r] \in Proxy /\ kind[r] # "mux" => proxies[via[r]] # "deleted"
    /\ Goto(r, "idle", "resolve")
    /\ HopBegins(r)
    /\ UNCHANGED <<dbVars, routeVars, hopVars>>

\* Guard.Resolve: one lookup per hop; the answer may differ every time.
Resolve(r) ==
    /\ \E s \in Answers :
        /\ Resolved(s)
        /\ addrs' = [addrs EXCEPT ![r] = s]
        /\ permitted' = [permitted EXCEPT ![r] = Allows(who[r], target[r], AddressSet(s))]
    /\ Goto(r, "resolve", "policies")
    /\ UNCHANGED <<dbVars, routeVars, target, todo, read, hops, conn, asked, steady, opened>>

\* Effective, first query: which policies, and their modes.
ReadPolicies(r) ==
    /\ Goto(r, "policies", "rules")
    /\ todo' = [todo EXCEPT ![r] = {[id |-> p, mode |-> policy[p].mode] : p \in InEffect(who[r])}]
    /\ read' = [read EXCEPT ![r] = {}]
    /\ UNCHANGED <<dbVars, routeVars, target, addrs, hops, conn, asked, ghostVars>>

\* Effective, one more query per policy: its rules.
ReadRules(r) ==
    /\ pc[r] = "rules"
    /\ \E p \in todo[r] :
        /\ todo' = [todo EXCEPT ![r] = @ \ {p}]
        /\ read' = [read EXCEPT ![r] = @ \cup
                        {[id |-> p.id, mode |-> p.mode, rules |-> policy[p.id].rules]}]
    /\ UNCHANGED <<dbVars, pc, routeVars, target, addrs, hops, conn, asked, ghostVars>>

\* Evaluate.  A forwarded request's redirect goes to the browser; a multiplexed
\* one is followed until there have been too many.
Decide(r) ==
    LET allowed == Evaluate(read[r], target[r], AddressSet(addrs[r])) IN
    /\ todo[r] = {}
    /\ Goto(r, "rules",
            IF ~allowed \/ (kind[r] = "mux" /\ hops[r] > MaxHops) THEN "refused"
            ELSE IF kind[r] = "forward" /\ hops[r] > 0 THEN "done"
            ELSE AfterAuthorize(hops[r]))
    /\ UNCHANGED <<dbVars, routeVars, hopVars, ghostVars>>

\* transport: DirectAllowed or Authorized
CheckEgress(r) ==
    /\ Goto(r, "egress", IF EgressOpen(who[r], via[r]) THEN "dial" ELSE "refused")
    /\ UNCHANGED <<dbVars, routeVars, hopVars, ghostVars>>

\* DialContext, whatever the egress: the target is the pinned address.
Dial(r) ==
    /\ Goto(r, "dial", "upstream")
    /\ \E a \in Pinned(r) : conn' = [conn EXCEPT ![r] = {a}]
    /\ asked' = [asked EXCEPT ![r] = {target[r]}]
    /\ UNCHANGED <<dbVars, routeVars, target, addrs, todo, read, hops, ghostVars>>

Disconnect(r) == conn' = [conn EXCEPT ![r] = {}] /\ asked' = [asked EXCEPT ![r] = {}]

\* The upstream's final answer: a response, or an accepted WebSocket.
Answered(r) ==
    /\ Goto(r, "upstream", "done")
    /\ Disconnect(r)
    /\ UNCHANGED <<dbVars, routeVars, target, addrs, todo, read, hops, ghostVars>>

\* A redirect anywhere: muxRoundTrip follows it, forward checks it.
Redirected(r) ==
    /\ kind[r] # "ws"
    /\ Goto(r, "upstream", AfterRedirect)
    /\ \E t \in Target : target' = [target EXCEPT ![r] = t]
    /\ hops' = [hops EXCEPT ![r] = HopsAfter(@)]
    /\ Disconnect(r)
    /\ HopBegins(r)
    /\ UNCHANGED <<dbVars, routeVars, addrs, todo, read>>

\* websocket.Dial's HTTP client follows redirects of the handshake itself, over
\* the same transport and so to the same pinned address.
HandshakeRedirected(r) ==
    /\ kind[r] = "ws" /\ pc[r] = "upstream"
    /\ \E t \in Target : asked' = [asked EXCEPT ![r] = {t}]
    /\ UNCHANGED <<dbVars, pc, routeVars, target, addrs, todo, read, hops, conn, ghostVars>>

\* A query, lookup, dial or upstream fails, or the client has gone away.
Fails(r) ==
    /\ pc[r] \notin {"idle", "done", "refused"}
    /\ pc' = [pc EXCEPT ![r] = "refused"]
    /\ Disconnect(r)
    /\ UNCHANGED <<dbVars, routeVars, target, addrs, todo, read, hops, ghostVars>>

----------------------------------------------------------------------------
(* Administrators.  Each handler is one transaction or one statement.      *)

\* Keep the history of every hop in progress.
Unchanged(p, u) == policy'[p] = policy[p] /\ (p \in InEffect(u)' <=> p \in InEffect(u))
Observe ==
    /\ UNCHANGED <<pc, routeVars, hopVars>>
    /\ steady' = [r \in Request |-> {p \in steady[r] : Unchanged(p, who[r])}]
    /\ opened' = [r \in Request |-> opened[r] \/ EgressOpen(who[r], via[r])']
    /\ permitted' = [r \in Request |->
           permitted[r] \/ (addrs[r] # <<>> /\ pc[r] \notin {"idle", "resolve"}
                            /\ Allows(who[r], target[r], AddressSet(addrs[r]))')]

\* savePolicy: creates or updates the row and all its rules, in one transaction.
SavePolicy(p) ==
    /\ policy[p] # Deleted
    /\ \E c \in Content : policy' = [policy EXCEPT ![p] = c]
    /\ UNCHANGED <<assigned, member, proxies, grants, restricted, direct>>

\* deletePolicy: rules and assignments go with it.
LeftAssigned(p) == assigned
Unassigned(p) == {a \in assigned : a[1] # p}
DeletePolicy(p) ==
    /\ policy[p] \in Content
    /\ policy' = [policy EXCEPT ![p] = Deleted]
    /\ assigned' = Unassigned(p)
    /\ UNCHANGED <<member, proxies, grants, restricted, direct>>

\* replaceAssignments: the whole list of a user's or a group's policies.
AssignPolicies(h) ==
    /\ \E P \in SUBSET {p \in PolicyId : policy[p] \in Content} :
          assigned' = {a \in assigned : a[2] # h} \cup (P \X {h})
    /\ UNCHANGED <<policy, member, proxies, grants, restricted, direct>>

\* UpsertLDAPUser: a login replaces the user's groups.
SyncGroups(u) ==
    /\ \E G \in SUBSET Group : member' = {m \in member : m[1] # u} \cup ({u} \X G)
    /\ UNCHANGED <<policy, assigned, proxies, grants, restricted, direct>>

\* replaceResourceAssignments, for users and for groups: who may use a proxy.
GrantProxy(x) ==
    /\ proxies[x] # "deleted"
    /\ \E kindOf \in {User, Group} : \E H \in SUBSET kindOf :
          grants' = {g \in grants : g[2] # x \/ g[1] \notin kindOf} \cup (H \X {x})
    /\ UNCHANGED <<policy, assigned, member, proxies, restricted, direct>>

\* UpstreamStore.Update
SwitchProxy(x) ==
    /\ proxies[x] # "deleted"
    /\ \E on \in {"enabled", "disabled"} : proxies' = [proxies EXCEPT ![x] = on]
    /\ UNCHANGED <<policy, assigned, member, grants, restricted, direct>>

\* UpstreamStore.Delete: grants, contexts and routes go with it.
DeleteProxy(x) ==
    /\ proxies[x] # "deleted"
    /\ proxies' = [proxies EXCEPT ![x] = "deleted"]
    /\ grants' = {g \in grants : g[2] # x}
    /\ UNCHANGED <<policy, assigned, member, restricted, direct>>

SetDirectRestricted ==
    /\ restricted' \in BOOLEAN
    /\ UNCHANGED <<policy, assigned, member, proxies, grants, direct>>

\* replaceDirectAssignments, for users and for groups
AssignDirect ==
    /\ \E kindOf \in {User, Group} : \E H \in SUBSET kindOf : direct' = (direct \ kindOf) \cup H
    /\ UNCHANGED <<policy, assigned, member, proxies, grants, restricted>>

----------------------------------------------------------------------------
Edit == \/ \E p \in PolicyId : SavePolicy(p) \/ DeletePolicy(p)
        \/ \E h \in Holder : AssignPolicies(h)
        \/ \E u \in User : SyncGroups(u)
        \/ \E x \in Proxy : GrantProxy(x) \/ SwitchProxy(x) \/ DeleteProxy(x)
        \/ SetDirectRestricted \/ AssignDirect
Administer == Edit /\ Observe

Step(r) == \/ Resolve(r) \/ ReadPolicies(r) \/ ReadRules(r) \/ Decide(r) \/ CheckEgress(r)
           \/ Dial(r) \/ Answered(r) \/ Redirected(r) \/ Fails(r)

Next == Administer \/ \E r \in Request : Begin(r) \/ Step(r) \/ HandshakeRedirected(r)

Spec == Init /\ [][Next]_vars

\* Handlers run; lookups, queries, dials and upstreams answer or time out.  An
\* upstream may redirect a handshake for ever: each redirect is its answer, and the
\* client websocket.go:40 passes to websocket.Dial sets no limit and no timeout.
FairSpec == Spec /\ \A r \in Request : WF_vars(Step(r) \/ HandshakeRedirected(r))

----------------------------------------------------------------------------
(* Types; and no assignment or grant outlives what it gives (the foreign keys  *)
(* of the migrations, ON DELETE CASCADE).                                    *)
TypeOK ==
    /\ policy \in [PolicyId -> Content \cup {Absent, Deleted}]
    /\ assigned \subseteq PolicyId \X Holder /\ \A a \in assigned : policy[a[1]] \in Content
    /\ member \subseteq User \X Group
    /\ proxies \in [Proxy -> {"enabled", "disabled", "deleted"}]
    /\ grants \subseteq Holder \X Proxy /\ \A g \in grants : proxies[g[2]] # "deleted"
    /\ restricted \in BOOLEAN /\ direct \subseteq Holder
    /\ pc \in [Request -> {"idle", "resolve", "policies", "rules", "egress", "dial",
                           "upstream", "done", "refused"}]
    /\ kind \in [Request -> Kind] /\ who \in [Request -> User] /\ via \in [Request -> Egress]
    /\ target \in [Request -> Target] /\ addrs \in [Request -> Seq(Address)]
    /\ todo \in [Request -> SUBSET [id : PolicyId, mode : Mode]]
    /\ read \in [Request -> SUBSET [id : PolicyId, mode : Mode, rules : SUBSET Rule]]
    /\ hops \in [Request -> Nat] /\ conn \in [Request -> SUBSET Address]
    /\ asked \in [Request -> SUBSET Target]
    /\ steady \in [Request -> SUBSET PolicyId]
    /\ opened \in [Request -> BOOLEAN] /\ permitted \in [Request -> BOOLEAN]

(* Whatever administrators edit meanwhile, a hop's connection respects every *)
(* policy that was in effect for the user, unedited, since the hop began:    *)
(* the target passes it, a denying policy does not even cover the one        *)
(* address dialled, and metadata addresses are never dialled.  This holds    *)
(* for followed redirects and rebinding names (http.go authorize, transport; *)
(* mux.go muxRoundTrip).                                                     *)
DialRespectsPolicies ==
    \A r \in Request : \A a \in conn[r] :
        /\ a \notin HardDenied
        /\ \A p \in steady[r] \cap InEffect(who[r]) :
              ~Denies(policy[p], target[r],
                      IF policy[p].mode = "whitelist" THEN AddressSet(addrs[r]) ELSE {a})
        /\ InEffect(who[r]) = {} => steady[r] # PolicyId

(* A connection is made only through an egress that was open to the user at  *)
(* some moment of the same hop: revoking it or switching it off stops the    *)
(* next connection of contexts, multiplexers and redirect chains that were   *)
(* admitted before (http.go transport, upstream.go Authorized).              *)
RevokedEgressNeverDialled == \A r \in Request : conn[r] # {} => opened[r]

(* A request ends however often upstreams redirect and administrators edit:  *)
(* the redirect budget bounds muxRoundTrip, and forward                      *)
(* follows nothing.  A WebSocket request ends or reaches its handshake, whose*)
(* redirects nothing bounds (websocket.go:40).                               *)
RequestsFinish ==
    \A r \in Request : pc[r] # "idle" ~>
        pc[r] \in {"done", "refused"} \/ (kind[r] = "ws" /\ pc[r] = "upstream")

(* Redirects cannot avoid the checks (docs/security.md, docs/architecture.md):*)
(* what is asked for over a connection is the target authorize let pass.     *)
OnlyCheckedTargetsAsked == \A r \in Request : asked[r] \subseteq {target[r]}

(* A request passes all the policies in effect for its user                  *)
(* (docs/database.md: every effective policy must let it pass): at some      *)
(* moment of the hop the policies in effect allowed what was dialled.        *)
DialPermittedAtSomeInstant == \A r \in Request : conn[r] # {} => permitted[r]

=============================================================================
