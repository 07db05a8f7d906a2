------------------------------ MODULE Accounts ------------------------------
(***************************************************************************)
(* Users, application sessions and program tokens: internal/auth, the user *)
(* operations of internal/admin and the LDAP login of internal/ldapauth.   *)
(*                                                                         *)
(* A login and an authenticated request are handlers of their own; each of *)
(* their database statements is one step, and the statements of others     *)
(* fall in between.  Only the transaction of UpsertLDAPUser spans several  *)
(* steps: it holds row locks until it commits, and PostgreSQL aborts one   *)
(* transaction of a cycle.  A handler may end after any step, when its     *)
(* client is gone (r.Context()) or the process stops.                      *)
(*                                                                         *)
(* A password is its generation: users[u].hash counts how often u's was    *)
(* set.                                                                    *)
(***************************************************************************)
EXTENDS Naturals, Sequences, FiniteSets, Functions

CONSTANTS User, Group, Request, SessionId, TokenId,
          None,
          Existing,   \* the administrators of a database that is not empty
          Bootstrap,  \* TVPN_BOOTSTRAP_ADMIN_USERNAME
          Snapshots,  \* the groups a directory may list, in the order listed
          Operations, \* what clients ask for: see Operation
          Handling,   \* bound on the authenticated requests at a time: who may be one
          MaxHash     \* bound on the passwords a user is given

Operation ==
    [op : {"demote", "disable", "promote", "enable", "setPassword", "createUser", "createAdmin"},
     user : User]
    \cup [op : {"updateLDAP", "createToken", "createAdminToken", "revokeToken", "logout"}]

AdminOps == {o \in Operation : "user" \in DOMAIN o \/ o.op = "updateLDAP"}

ASSUME AccountsAssumption ==
    /\ None \notin Request
    /\ Existing \subseteq User /\ Bootstrap \in User
    /\ Snapshots \subseteq Seq(Group) /\ Snapshots # {}
    /\ Operations \subseteq Operation /\ Handling \subseteq Request
    /\ SessionId \cap TokenId = {}
    /\ User \cap Group = {}
    /\ MaxHash \in Nat

VARIABLES
    users,       \* rows of users
    member,      \* user_ldap_groups: the groups of a user
    sessions,    \* rows of sessions, by the token their cookie carries
    tokens,      \* rows of program_tokens
    ldapEnabled, \* ldap_settings.enabled
    locks,       \* the transaction that holds a row of users or ldap_groups
    server,      \* "starting", "empty" (found no user), "serving"
    req,         \* the handler at work for a request
    unfinished   \* users whose password reset stopped before the sessions

dbVars == <<users, member, sessions, tokens, ldapEnabled, locks>>
vars == <<dbVars, server, req, unfinished>>

NoUser == [source |-> "none", admin |-> FALSE, enabled |-> FALSE, hash |-> 0]
FromDirectory == [source |-> "ldap", admin |-> FALSE, enabled |-> TRUE, hash |-> 0]
Local(admin) == [source |-> "local", admin |-> admin, enabled |-> TRUE, hash |-> 1]

\* No row; a name that no cookie in use carries stands for the next fresh token.
NoRow == [live |-> FALSE]
Idle == [pc |-> "idle"]

----------------------------------------------------------------------------
Init ==
    /\ users \in {[u \in User |-> IF u \in e THEN Local(TRUE) ELSE NoUser] : e \in {{}, Existing}}
    /\ member = [u \in User |-> {}]
    /\ sessions = [s \in SessionId |-> NoRow]
    /\ tokens = [t \in TokenId |-> NoRow]
    /\ ldapEnabled = TRUE
    /\ locks = [x \in User \cup Group |-> None]
    /\ server = "starting"
    /\ req = [r \in Request |-> Idle]
    /\ unfinished = {}

\* A handler moves on without writing.
Goes(r, to) ==
    /\ req' = [req EXCEPT ![r] = to]
    /\ UNCHANGED <<dbVars, server, unfinished>>

Ends(r) == req' = [req EXCEPT ![r] = Idle]

Unlocked(r) == [x \in User \cup Group |-> IF locks[x] = r THEN None ELSE locks[x]]

----------------------------------------------------------------------------
(* Server assembly: the bootstrap administrator of an empty database.      *)

CountUsers ==
    /\ server = "starting"
    /\ server' = IF \A u \in User : users[u] = NoUser THEN "empty" ELSE "serving"
    /\ UNCHANGED <<dbVars, req, unfinished>>

CreateBootstrapAdmin ==
    /\ server = "empty"
    /\ users' = [users EXCEPT ![Bootstrap] = Local(TRUE)]
    /\ server' = "serving"
    /\ UNCHANGED <<member, sessions, tokens, ldapEnabled, locks, req, unfinished>>

----------------------------------------------------------------------------
(* Signing in: authenticate, then CreateSession.                           *)

LoginPc == {"upsert", "groups", "createSession"}

\* Tokens that requests under way carry are not given out again.
Carried == {req[r].cookie : r \in {q \in Request : "cookie" \in DOMAIN req[q]}}

\* FindUserByUsername returned an enabled local user: the hash it read decides
\* alone.  (Any other password ends the login and changes nothing.)
LoginLocal(r, u) ==
    /\ server = "serving" /\ req[r] = Idle
    /\ users[u].source = "local" /\ users[u].enabled
    /\ Goes(r, [pc |-> "createSession", user |-> u, via |-> "hash", hash |-> users[u].hash])

\* ldap.Authenticate: while LDAP is enabled the directory may accept the password,
\* and lists the groups of that moment.  (Every failure ends the login.)
LdapAuthenticates(groups) == ldapEnabled /\ groups \in Snapshots

\* FindUserByUsername returned none for the name that was typed, or one of the
\* directory, which may know the user it stands for by another name.
LoginDirectory(r, typed, u, groups) ==
    /\ server = "serving" /\ req[r] = Idle
    /\ ~ (users[typed].source = "local" /\ users[typed].enabled)
    /\ LdapAuthenticates(groups)
    /\ Goes(r, [pc |-> "upsert", user |-> u, groups |-> groups])

\* UpsertLDAPUser begins: the row of the user is inserted or updated, unless it
\* is a local account (WHERE users.auth_source='ldap' returns no row).
TakesLocalToo(u) == TRUE
MayUpsert(u) == users[u].source # "local"

UpsertUser(r) ==
    LET u == req[r].user IN
    /\ req[r].pc = "upsert"
    /\ locks[u] = None
    /\ \/ /\ MayUpsert(u)
          /\ locks' = [locks EXCEPT ![u] = r]
          /\ req' = [req EXCEPT ![r] = [pc |-> "groups", user |-> u, groups |-> @.groups, left |-> @.groups]]
       \/ ~ MayUpsert(u) /\ Ends(r) /\ UNCHANGED locks
    /\ UNCHANGED <<users, member, sessions, tokens, ldapEnabled, server, unfinished>>

\* INSERT INTO ldap_groups ... ON CONFLICT DO UPDATE, one group after another.
LockGroup(r) ==
    /\ req[r].pc = "groups" /\ req[r].left # <<>>
    /\ locks[Head(req[r].left)] \in {None, r}
    /\ locks' = [locks EXCEPT ![Head(req[r].left)] = r]
    /\ req' = [req EXCEPT ![r].left = Tail(@)]
    /\ UNCHANGED <<users, member, sessions, tokens, ldapEnabled, server, unfinished>>

GroupsAdded(r) == member[req[r].user] \cup Range(req[r].groups)
GroupsReplaced(r) == Range(req[r].groups)

UpsertCommit(r) ==
    LET u == req[r].user IN
    /\ req[r].pc = "groups" /\ req[r].left = <<>>
    /\ users' = [users EXCEPT ![u] = IF @ = NoUser THEN FromDirectory ELSE @]
    /\ member' = [member EXCEPT ![u] = GroupsReplaced(r)]
    /\ locks' = Unlocked(r)
    /\ req' = [req EXCEPT ![r] = [pc |-> "createSession", user |-> u, via |-> "ldap", hash |-> 0]]
    /\ UNCHANGED <<sessions, tokens, ldapEnabled, server, unfinished>>

\* Transactions that wait for each other in a circle; the database aborts one,
\* its deferred Rollback releases what it holds, and the login fails.
Waits(r, q) == req[r].pc = "groups" /\ req[r].left # <<>> /\ locks[Head(req[r].left)] = q /\ q # r
Deadlocked(r) == \E S \in SUBSET Request : r \in S /\ \A q \in S : \E p \in S : Waits(q, p)

HeldOnAbort(r) == locks
ReleasedOnAbort(r) == Unlocked(r)

UpsertAborted(r) ==
    /\ Deadlocked(r)
    /\ locks' = ReleasedOnAbort(r)
    /\ Ends(r)
    /\ UNCHANGED <<users, member, sessions, tokens, ldapEnabled, server, unfinished>>

\* The row is inserted or, as when no name is left for it, the statement fails and the
\* login with it.  late: the password it was verified against had been replaced by then.
CreateSession(r) ==
    LET v == req[r] IN
    /\ v.pc = "createSession"
    /\ \/ \E s \in SessionId \ Carried :
             /\ sessions[s] = NoRow
             /\ sessions' = [sessions EXCEPT ![s] = [live |-> TRUE, user |-> v.user, via |-> v.via, hash |-> v.hash,
                                                     late |-> v.via = "hash" /\ v.hash # users[v.user].hash]]
       \/ UNCHANGED sessions
    /\ Ends(r)
    /\ UNCHANGED <<users, member, tokens, ldapEnabled, locks, server, unfinished>>

----------------------------------------------------------------------------
(* Authenticate, and the middlewares of the routes (server.go, routes).    *)

TokenAccepted(t) == tokens[t].live /\ users[tokens[t].user].enabled
SessionAccepted(s) == sessions[s].live /\ users[sessions[s].user].enabled

\* RequireAdmin reads the user as authenticated, RequireScope binds tokens only.
RequireAdmin(u, o) == o \in AdminOps => users[u].admin
RequireScope(t, o) == o \in AdminOps => tokens[t].admin
RequireBrowserSession(o) == o \notin AdminOps

AuthenticateToken(r, t, o) ==
    /\ server = "serving" /\ req[r] = Idle
    /\ TokenAccepted(t)
    /\ RequireAdmin(tokens[t].user, o) /\ RequireScope(t, o) /\ ~ RequireBrowserSession(o)
    /\ Goes(r, [pc |-> o.op, by |-> tokens[t].user, admin |-> users[tokens[t].user].admin, asks |-> o])

AuthenticateSession(r, s, o) ==
    /\ server = "serving" /\ req[r] = Idle
    /\ SessionAccepted(s)
    /\ RequireAdmin(sessions[s].user, o)
    /\ Goes(r, [pc |-> o.op, by |-> sessions[s].user, admin |-> users[sessions[s].user].admin,
                asks |-> o, cookie |-> s])

----------------------------------------------------------------------------
(* The handlers.                                                           *)

Active(u) == users[u].admin /\ users[u].enabled

\* updateUser: demoting or disabling an active administrator counts them first; a query
\* that fails is taken for "not active", and the UPDATE follows unguarded.
UpdateReadTarget(r) ==
    /\ req[r].pc \in {"demote", "disable"}
    /\ \E pc \in {IF Active(req[r].asks.user) THEN "count" ELSE "update", "unguarded"} :
          Goes(r, [req[r] EXCEPT !.pc = pc])

ActiveUsers == Cardinality({u \in User : users[u].enabled})
ActiveAdmins == Cardinality({u \in User : Active(u)})
UpdateCount(r) ==
    /\ req[r].pc = "count"
    /\ Goes(r, IF ActiveAdmins <= 1 THEN Idle ELSE [req[r] EXCEPT !.pc = "update"])

\* (an UPDATE of an unknown id changes no row, and is answered as a success)
UpdateUser(r) ==
    LET u == req[r].asks.user IN
    /\ req[r].pc \in {"update", "unguarded", "promote", "enable"}
    /\ locks[u] = None
    /\ users' = IF users[u] = NoUser THEN users
                ELSE CASE req[r].asks.op = "demote" -> [users EXCEPT ![u].admin = FALSE]
                       [] req[r].asks.op = "promote" -> [users EXCEPT ![u].admin = TRUE]
                       [] req[r].asks.op = "disable" -> [users EXCEPT ![u].enabled = FALSE]
                       [] req[r].asks.op = "enable" -> [users EXCEPT ![u].enabled = TRUE]
    /\ Ends(r)
    /\ UNCHANGED <<member, sessions, tokens, ldapEnabled, locks, server, unfinished>>

\* setPassword of a local account (others are refused) ...
SetPassword(r) ==
    LET u == req[r].asks.user IN
    /\ req[r].pc = "setPassword"
    /\ locks[u] = None
    /\ users[u].hash < MaxHash
    /\ \/ /\ users[u].source = "local"
          /\ users' = [users EXCEPT ![u].hash = @ + 1]
          /\ req' = [req EXCEPT ![r].pc = "deleteSessions"]
       \/ users[u].source # "local" /\ Ends(r) /\ UNCHANGED users
    /\ UNCHANGED <<member, sessions, tokens, ldapEnabled, locks, server, unfinished>>

\* ... whose sessions are deleted by a second statement.
OwnSession(r) == {s \in SessionId : sessions[s].live /\ sessions[s].user = req[r].by}
SessionsOfUser(r) == {s \in SessionId : sessions[s].live /\ sessions[s].user = req[r].asks.user}

DeleteSessions(r) ==
    /\ req[r].pc = "deleteSessions"
    /\ sessions' = [s \in SessionId |-> IF s \in SessionsOfUser(r) THEN NoRow ELSE sessions[s]]
    /\ unfinished' = unfinished \ {req[r].asks.user}
    /\ Ends(r)
    /\ UNCHANGED <<users, member, tokens, ldapEnabled, locks, server>>

\* createUser: a name that is taken is refused by the unique index.
NameFree(u) == users[u] = NoUser
CreateLocalUser(r) ==
    LET u == req[r].asks.user IN
    /\ req[r].pc \in {"createUser", "createAdmin"}
    /\ locks[u] = None
    /\ users' = IF NameFree(u) THEN [users EXCEPT ![u] = Local(req[r].pc = "createAdmin")] ELSE users
    /\ Ends(r)
    /\ UNCHANGED <<member, sessions, tokens, ldapEnabled, locks, server, unfinished>>

UpdateLDAP(r) ==
    /\ req[r].pc = "updateLDAP"
    /\ ldapEnabled' = ~ ldapEnabled
    /\ Ends(r)
    /\ UNCHANGED <<users, member, sessions, tokens, locks, server, unfinished>>

\* createToken: ValidateScopes asks the user as authenticated.
CreateToken(r, t) ==
    /\ req[r].pc \in {"createToken", "createAdminToken"}
    /\ tokens[t] = NoRow
    /\ tokens' = IF req[r].pc = "createAdminToken" /\ ~ req[r].admin THEN tokens
                 ELSE [tokens EXCEPT ![t] = [live |-> TRUE, user |-> req[r].by,
                                             admin |-> req[r].pc = "createAdminToken"]]
    /\ Ends(r)
    /\ UNCHANGED <<users, member, sessions, ldapEnabled, locks, server, unfinished>>

RevokeToken(r, t) ==
    /\ req[r].pc = "revokeToken"
    /\ tokens' = IF tokens[t].live /\ tokens[t].user = req[r].by
                 THEN [tokens EXCEPT ![t] = NoRow] ELSE tokens
    /\ Ends(r)
    /\ UNCHANGED <<users, member, sessions, ldapEnabled, locks, server, unfinished>>

Logout(r) ==
    /\ req[r].pc = "logout"
    /\ sessions' = [sessions EXCEPT ![req[r].cookie] = NoRow]
    /\ Ends(r)
    /\ UNCHANGED <<users, member, tokens, ldapEnabled, locks, server, unfinished>>

----------------------------------------------------------------------------
(* Time and failures.                                                      *)

ExpireSession(s) ==
    /\ sessions[s].live
    /\ sessions' = [sessions EXCEPT ![s] = NoRow]
    /\ UNCHANGED <<users, member, tokens, ldapEnabled, locks, server, req, unfinished>>

ExpireToken(t) ==
    /\ tokens[t].live
    /\ tokens' = [tokens EXCEPT ![t] = NoRow]
    /\ UNCHANGED <<users, member, sessions, ldapEnabled, locks, server, req, unfinished>>

\* The users whose reset is cut short when the handlers in R stop.
CutShort(R) == {req[r].asks.user : r \in {q \in R : req[q].pc = "deleteSessions"}}

\* The client of r is gone: the next statement fails, a transaction rolls back.
ClientGone(r) ==
    /\ req[r] # Idle
    /\ locks' = Unlocked(r)
    /\ Ends(r)
    /\ unfinished' = unfinished \cup CutShort({r})
    /\ UNCHANGED <<users, member, sessions, tokens, ldapEnabled, server>>

\* The process stops in the middle of everything, and starts again.
Restart ==
    /\ server = "serving"
    /\ server' = "starting"
    /\ locks' = [x \in User \cup Group |-> None]
    /\ req' = [r \in Request |-> Idle]
    /\ unfinished' = unfinished \cup CutShort(Request)
    /\ UNCHANGED <<users, member, sessions, tokens, ldapEnabled>>

----------------------------------------------------------------------------
LoginStep(r) ==
    \/ UpsertUser(r) \/ LockGroup(r) \/ UpsertCommit(r) \/ UpsertAborted(r) \/ CreateSession(r)

HandlerStep(r) ==
    \/ UpdateReadTarget(r) \/ UpdateCount(r) \/ UpdateUser(r)
    \/ SetPassword(r) \/ DeleteSessions(r) \/ CreateLocalUser(r) \/ UpdateLDAP(r)
    \/ \E t \in TokenId : CreateToken(r, t) \/ RevokeToken(r, t)
    \/ Logout(r)

Next ==
    \/ CountUsers \/ CreateBootstrapAdmin \/ Restart
    \/ \E r \in Request :
        \/ \E u \in User : LoginLocal(r, u)
        \/ \E typed, u \in User, g \in Snapshots : LoginDirectory(r, typed, u, g)
        \/ /\ r \in Handling
           /\ \E o \in Operations : \/ \E t \in TokenId : AuthenticateToken(r, t, o)
                                    \/ \E s \in SessionId : AuthenticateSession(r, s, o)
        \/ LoginStep(r) \/ HandlerStep(r) \/ ClientGone(r)
    \/ \E s \in SessionId : ExpireSession(s)
    \/ \E t \in TokenId : ExpireToken(t)

\* The server runs a login it has started; the database breaks deadlocks, and
\* queues those who wait for a row: strong fairness.
Spec == Init /\ [][Next]_vars /\ \A r \in Request : SF_vars(LoginStep(r))

----------------------------------------------------------------------------
(* Properties.                                                             *)

LiveSession(s) == sessions[s].live

SessionRow == [live : {TRUE}, user : User, via : {"hash", "ldap"}, hash : Nat, late : BOOLEAN]
TokenRow == [live : {TRUE}, user : User, admin : BOOLEAN]

Handler ==
    {Idle}
    \cup [pc : {"upsert"}, user : User, groups : Seq(Group)]
    \cup [pc : {"groups"}, user : User, groups : Seq(Group), left : Seq(Group)]
    \cup [pc : {"createSession"}, user : User, via : {"hash", "ldap"}, hash : Nat]
    \cup [pc : {"count", "update", "unguarded", "deleteSessions"} \cup {o.op : o \in Operation},
          by : User, admin : BOOLEAN, asks : Operation]
    \cup [pc : {"count", "update", "unguarded", "deleteSessions"} \cup {o.op : o \in Operation},
          by : User, admin : BOOLEAN, asks : Operation, cookie : SessionId]

\* Types of the tables and of the handlers at work; rows are locked by open transactions
\* only.
TypeOK ==
    /\ users \in [User -> [source : {"none", "local", "ldap"}, admin : BOOLEAN, enabled : BOOLEAN, hash : Nat]]
    /\ member \in [User -> SUBSET Group]
    /\ sessions \in [SessionId -> {NoRow} \cup SessionRow]
    /\ tokens \in [TokenId -> {NoRow} \cup TokenRow]
    /\ ldapEnabled \in BOOLEAN
    /\ locks \in [User \cup Group -> Request \cup {None}]
    /\ server \in {"starting", "empty", "serving"}
    /\ req \in [Request -> Handler]
    /\ unfinished \subseteq User
    /\ \A x \in User \cup Group : locks[x] # None => req[locks[x]].pc = "groups"

\* A local account is never signed in to by the directory: not when it is disabled
\* (FindUserByUsername hides it and the login falls through to LDAP), nor when it is
\* created while a directory login of that name is on its way, nor when the directory
\* gives its name to a user who typed another (authenticate, UpsertLDAPUser).
LocalNeverByDirectory ==
    \A s \in SessionId : LiveSession(s) /\ sessions[s].via = "ldap" => users[sessions[s].user].source = "ldap"

\* A password reset leaves no session of the replaced password, save those of logins
\* that had read the old hash before the UPDATE and insert their row after the DELETE,
\* and unless the second statement was not carried out, whose error setPassword ignores.
ResetEndsSessions ==
    \A s \in SessionId : LiveSession(s) /\ sessions[s].via = "hash" =>
        LET u == sessions[s].user IN
        \/ sessions[s].hash = users[u].hash
        \/ sessions[s].late
        \/ u \in unfinished
        \/ \E r \in Request : req[r].pc = "deleteSessions" /\ req[r].asks.user = u

\* The groups of a user, which policies and egress are granted to, are what the
\* directory listed at one moment: never a mixture of two logins or a part of one,
\* whatever logins of the same user overlap, deadlock or are cut off (UpsertLDAPUser).
MembershipIsASnapshot ==
    \A u \in User : users[u].source = "ldap" => \E g \in Snapshots : member[u] = Range(g)

\* "The last administrator cannot be disabled or demoted" (error last_admin): no step
\* takes the only active administrator away, save that of a handler whose first query
\* failed (updateUser).  The guard keeps it while handlers of administrators do not
\* overlap, whatever logins and restarts come between its statements; not otherwise.
LastAdminStays ==
    [][(\E u \in User : Active(u)) =>
          \/ \E u \in User : Active(u)'
          \/ \E r \in Request : req[r].pc = "unguarded" /\ req'[r] = Idle]_vars

\* Every login is answered, also when directory logins lock the same groups in opposite
\* orders (UpsertLDAPUser locks ldap_groups in the order of the directory).
LoginsEnd == \A r \in Request : req[r].pc \in LoginPc ~> req[r] = Idle
=============================================================================
