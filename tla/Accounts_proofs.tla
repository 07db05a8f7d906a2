--------------------------- MODULE Accounts_proofs ---------------------------
(***************************************************************************)
(* Proofs about Accounts, for any users, groups, handlers, sessions and    *)
(* tokens, any listings of the directory and any number of passwords.      *)
(***************************************************************************)
EXTENDS Accounts, FiniteSetTheorems, TLAPS

----------------------------------------------------------------------------
(* The states of a handler.                                                 *)

UserOps == {"demote", "disable", "promote", "enable", "setPassword", "createUser", "createAdmin"}
OtherOps == {"updateLDAP", "createToken", "createAdminToken", "revokeToken", "logout"}
UserPc == UserOps \cup {"count", "update", "unguarded", "deleteSessions"}
AskedPc == UserPc \cup OtherOps

UserRow == [source : {"none", "local", "ldap"}, admin : BOOLEAN, enabled : BOOLEAN, hash : Nat]

Upserting == [pc : {"upsert"}, user : User, groups : Seq(Group)]
Locking == [pc : {"groups"}, user : User, groups : Seq(Group), left : Seq(Group)]
Creating == [pc : {"createSession"}, user : User, via : {"hash", "ldap"}, hash : Nat]
ByToken == [pc : AskedPc, by : User, admin : BOOLEAN, asks : Operation]
BySession == [pc : AskedPc, by : User, admin : BOOLEAN, asks : Operation, cookie : SessionId]

\* What is asked of a user names the user.
LEMMA OperationForms ==
  /\ Operation = [op : UserOps, user : User] \cup [op : OtherOps]
  /\ {o.op : o \in Operation} \subseteq UserOps \cup OtherOps
  BY DEF Operation, UserOps, OtherOps

LEMMA Handlers == Handler \subseteq {Idle} \cup Upserting \cup Locking \cup Creating \cup ByToken \cup BySession
  BY OperationForms DEF Handler, Upserting, Locking, Creating, ByToken, BySession, AskedPc, UserPc

\* The state of a handler is told by its pc.
LEMMA Shapes ==
  ASSUME NEW v \in Handler
  PROVE  /\ v.pc = "idle" <=> v = Idle
         /\ v.pc \in {"idle", "upsert", "groups", "createSession"} \cup AskedPc
         /\ v.pc = "upsert" => v \in Upserting
         /\ v.pc = "groups" => v \in Locking
         /\ v.pc = "createSession" => v \in Creating
         /\ v.pc \in AskedPc => v \in ByToken \cup BySession
         /\ "by" \in DOMAIN v <=> v.pc \in AskedPc
  BY Handlers DEF Idle, Upserting, Locking, Creating, ByToken, BySession, AskedPc, UserPc, UserOps, OtherOps

\* The states handlers are given.
LEMMA Values ==
  /\ Idle \in Handler /\ Idle.pc = "idle"
  /\ \A u \in User, g \in Seq(Group) : [pc |-> "upsert", user |-> u, groups |-> g] \in Handler
  /\ \A u \in User, g, l \in Seq(Group) : [pc |-> "groups", user |-> u, groups |-> g, left |-> l] \in Handler
  /\ \A u \in User, v \in {"hash", "ldap"}, h \in Nat :
        [pc |-> "createSession", user |-> u, via |-> v, hash |-> h] \in Handler
  /\ \A o \in Operation, u \in User, a \in BOOLEAN :
        /\ [pc |-> o.op, by |-> u, admin |-> a, asks |-> o] \in Handler
        /\ \A s \in SessionId : [pc |-> o.op, by |-> u, admin |-> a, asks |-> o, cookie |-> s] \in Handler
  BY DEF Handler, Idle

\* A handler that goes on with what it was asked.
At(v, pc) == [v EXCEPT !.pc = pc]

LEMMA GoesOn ==
  ASSUME NEW v \in Handler, v.pc \in AskedPc, NEW pc \in {"count", "update", "unguarded", "deleteSessions"}
  PROVE  /\ At(v, pc) \in Handler /\ At(v, pc).pc = pc
         /\ At(v, pc).asks = v.asks /\ At(v, pc).by = v.by
<1>1. v \in ByToken \cup BySession
  BY Shapes
<1>2. CASE v \in ByToken
  BY <1>2 DEF ByToken, Handler, At
<1>3. CASE v \in BySession
  BY <1>3 DEF BySession, Handler, At
<1> QED
  BY <1>1, <1>2, <1>3

----------------------------------------------------------------------------
(* The inductive invariant.                                                 *)

\* A user without a row has the row of nobody; none has a row while the database is empty.
Rows ==
    /\ \A u \in User : users[u].source = "none" <=> users[u] = NoUser
    /\ server = "empty" => \A u \in User : users[u] = NoUser

\* A login keeps to what the directory listed, holds the row of its user until it
\* commits, which nobody makes local meanwhile, and signs in to a user there is.
LoginStands(r) ==
    /\ req[r].pc \in {"upsert", "groups"} => req[r].groups \in Snapshots
    /\ req[r].pc = "groups" => locks[req[r].user] = r /\ users[req[r].user].source # "local"
    /\ req[r].pc = "createSession" =>
          /\ users[req[r].user].source # "none"
          /\ req[r].via = "ldap" => users[req[r].user].source = "ldap"

\* Handlers that change a user were asked for one, and for what they are about to do.
AskedOfUser(v) ==
    v.pc \in UserPc =>
        /\ v.asks \in [op : UserOps, user : User]
        /\ v.pc \in UserOps => v.asks.op = v.pc
        /\ v.pc \in {"count", "update", "unguarded"} => v.asks.op \in {"demote", "disable"}

\* Handlers run while the server serves.
HandlersStand ==
    \A r \in Request :
        /\ LoginStands(r)
        /\ AskedOfUser(req[r])
        /\ req[r] # Idle => server = "serving"

SessionsOwned == \A s \in SessionId : LiveSession(s) => users[sessions[s].user].source # "none"

IInv == /\ TypeOK /\ Rows /\ HandlersStand /\ SessionsOwned
        /\ LocalNeverByDirectory /\ ResetEndsSessions /\ MembershipIsASnapshot

----------------------------------------------------------------------------
(* What steps have in common.                                               *)

\* The tables are well-typed.
Tables ==
    /\ users \in [User -> UserRow]
    /\ member \in [User -> SUBSET Group]
    /\ sessions \in [SessionId -> {NoRow} \cup SessionRow]
    /\ tokens \in [TokenId -> {NoRow} \cup TokenRow]
    /\ ldapEnabled \in BOOLEAN
    /\ locks \in [User \cup Group -> Request \cup {None}]
    /\ unfinished \subseteq User

LocksHeld == \A x \in User \cup Group : locks[x] # None => req[locks[x]].pc = "groups"

LEMMA Typed ==
  TypeOK <=> /\ Tables /\ LocksHeld /\ req \in [Request -> Handler]
             /\ server \in {"starting", "empty", "serving"}
  BY DEF TypeOK, Tables, LocksHeld, UserRow

LEMMA TypedNext ==
  ASSUME Tables', LocksHeld', req' \in [Request -> Handler], server' \in {"starting", "empty", "serving"}
  PROVE  TypeOK'
  BY DEF TypeOK, Tables, LocksHeld, UserRow

\* A live session is a row.
LEMMA NoRowDead == ~ NoRow.live
  BY DEF NoRow

LEMMA LiveRow ==
  ASSUME Tables, NEW s \in SessionId, LiveSession(s)
  PROVE  sessions[s] \in SessionRow /\ sessions[s].user \in User
<1>1. sessions[s] \in {NoRow} \cup SessionRow
  BY DEF Tables
<1>2. sessions[s] # NoRow
  BY NoRowDead DEF LiveSession
<1> QED
  BY <1>1, <1>2 DEF SessionRow

\* A step of one handler that touches no lock of another and makes no user of another
\* handler's transaction local.
LEMMA OneMoves ==
  ASSUME IInv, NEW r \in Request, NEW to \in Handler, req' = [req EXCEPT ![r] = to],
         server = "serving", server' = server, Tables',
         \A x \in User \cup Group : locks[x] \notin {None, r} => locks'[x] = locks[x],
         \A x \in User \cup Group : locks'[x] \in {locks[x], r, None},
         to.pc = "groups" \/ \A x \in User \cup Group : locks'[x] # r,
         \A u \in User : users[u].source # "none" => users'[u].source = users[u].source,
         \A u \in User : users[u].source = "none" /\ users'[u].source = "local" => locks[u] \in {None, r},
         LoginStands(r)',
         AskedOfUser(to)
  PROVE  TypeOK' /\ HandlersStand'
<1>t. Tables /\ LocksHeld /\ req \in [Request -> Handler]
  BY Typed DEF IInv
<1>m. /\ req' \in [Request -> Handler] /\ req'[r] = to
      /\ \A q \in Request : q # r => req'[q] = req[q]
  BY <1>t
<1>1. LocksHeld'
  BY <1>t, <1>m DEF LocksHeld, Tables
<1>2. TypeOK'
  BY <1>m, <1>1, TypedNext
<1>3. ASSUME NEW q \in Request, q # r PROVE LoginStands(q)'
  <2>1. LoginStands(q) /\ req[q] \in Handler /\ req'[q] = req[q]
    BY <1>t, <1>m, <1>3 DEF IInv, HandlersStand
  <2>2. CASE req[q].pc = "groups"
    <3>1. req[q].user \in User
      BY <2>1, <2>2, Shapes DEF Locking
    <3>2. locks[req[q].user] = q /\ q \notin {None, r}
      BY <1>3, <2>1, <2>2, AccountsAssumption DEF LoginStands
    <3> QED
      BY <2>1, <2>2, <3>1, <3>2 DEF LoginStands
  <2>3. CASE req[q].pc = "createSession"
    <3>1. req[q].user \in User
      BY <2>1, <2>3, Shapes DEF Creating
    <3> QED
      BY <2>1, <2>3, <3>1 DEF LoginStands
  <2> QED
    BY <2>1, <2>2, <2>3 DEF LoginStands
<1>4. HandlersStand'
  BY <1>m, <1>3 DEF IInv, HandlersStand
<1> QED
  BY <1>2, <1>4

\* Tables that only lose sessions, and users that keep their source and password.
LEMMA TablesKeep ==
  ASSUME IInv, TypeOK', HandlersStand', Rows',
         \A u \in User : users[u].source # "none" =>
            users'[u].source = users[u].source /\ users'[u].hash = users[u].hash,
         \A u \in User : users'[u].source = "ldap" => users[u].source = "ldap",
         member' = member,
         \A s \in SessionId : sessions'[s] \in {sessions[s], NoRow},
         unfinished \subseteq unfinished',
         \A q \in Request : req[q].pc = "deleteSessions" =>
            req'[q] = req[q] \/ req[q].asks.user \in unfinished'
  PROVE  IInv'
<1>t. Tables /\ req \in [Request -> Handler]
  BY Typed DEF IInv
<1>s. ASSUME NEW s \in SessionId, LiveSession(s)'
      PROVE  /\ sessions'[s] = sessions[s] /\ LiveSession(s) /\ sessions[s].user \in User
             /\ users[sessions[s].user].source # "none"
  <2>1. sessions'[s] = sessions[s]
    BY <1>s, NoRowDead DEF LiveSession
  <2>2. LiveSession(s)
    BY <1>s, <2>1 DEF LiveSession
  <2>3. sessions[s].user \in User
    BY <1>t, <2>2, LiveRow
  <2> QED
    BY <2>1, <2>2, <2>3 DEF IInv, SessionsOwned
<1>1. SessionsOwned'
  BY <1>s DEF SessionsOwned
<1>2. LocalNeverByDirectory'
  BY <1>s DEF IInv, LocalNeverByDirectory
<1>3. ResetEndsSessions'
  <2> SUFFICES ASSUME NEW s \in SessionId, LiveSession(s)', sessions'[s].via = "hash"
               PROVE  LET u == sessions'[s].user IN
                      \/ sessions'[s].hash = users'[u].hash
                      \/ sessions'[s].late
                      \/ u \in unfinished'
                      \/ \E q \in Request : req'[q].pc = "deleteSessions" /\ req'[q].asks.user = u
    BY DEF ResetEndsSessions
  <2> DEFINE u == sessions[s].user
  <2>1. \/ sessions[s].hash = users[u].hash \/ sessions[s].late \/ u \in unfinished
        \/ \E q \in Request : req[q].pc = "deleteSessions" /\ req[q].asks.user = u
    BY <1>s DEF IInv, ResetEndsSessions
  <2> QED
    BY <1>s, <2>1
<1>4. MembershipIsASnapshot'
  BY DEF IInv, MembershipIsASnapshot
<1> QED
  BY <1>1, <1>2, <1>3, <1>4 DEF IInv

\* The two together, for a handler that writes no table.
LEMMA GoesKeeps ==
  ASSUME IInv, NEW r \in Request, NEW to \in Handler, Goes(r, to),
         server = "serving", req[r].pc \notin {"groups", "deleteSessions"}, to.pc # "groups",
         LoginStands(r)',
         AskedOfUser(to)
  PROVE  IInv'
<1>t. Tables /\ LocksHeld /\ req \in [Request -> Handler]
  BY Typed DEF IInv
<1>u. /\ req' = [req EXCEPT ![r] = to] /\ server' = server
      /\ UNCHANGED <<users, member, sessions, tokens, ldapEnabled, locks, unfinished>>
  BY DEF Goes, dbVars
<1>1. Tables'
  BY <1>t, <1>u DEF Tables
<1>2. \A x \in User \cup Group : locks[x] # r
  BY <1>t, AccountsAssumption DEF LocksHeld
<1>3. TypeOK' /\ HandlersStand'
  BY <1>t, <1>u, <1>1, <1>2, OneMoves
<1>4. Rows'
  BY <1>u DEF IInv, Rows
<1>5. \A q \in Request : req[q].pc = "deleteSessions" => req'[q] = req[q]
  BY <1>t, <1>u
<1> QED
  BY <1>u, <1>3, <1>4, <1>5, TablesKeep

----------------------------------------------------------------------------
(* Steps that only read.                                                    *)

LEMMA LoginLocalKeeps == ASSUME IInv, NEW r \in Request, NEW u \in User, LoginLocal(r, u) PROVE IInv'
<1> DEFINE to == [pc |-> "createSession", user |-> u, via |-> "hash", hash |-> users[u].hash]
<1>t. Tables /\ req \in [Request -> Handler]
  BY Typed DEF IInv
<1>1. to \in Handler
  BY <1>t, Values DEF Tables, UserRow
<1>2. Goes(r, to) /\ server = "serving" /\ req[r] = Idle /\ users[u].source = "local"
  BY DEF LoginLocal
<1>3. req'[r] = to /\ users' = users
  BY <1>t, <1>2 DEF Goes, dbVars
<1>4. LoginStands(r)'
  BY <1>2, <1>3 DEF LoginStands
<1> QED
  BY <1>1, <1>2, <1>4, GoesKeeps, Values DEF AskedOfUser, UserPc, UserOps

LEMMA LoginDirectoryKeeps ==
  ASSUME IInv, NEW r \in Request, NEW typed \in User, NEW u \in User, NEW groups \in Snapshots,
         LoginDirectory(r, typed, u, groups)
  PROVE  IInv'
<1> DEFINE to == [pc |-> "upsert", user |-> u, groups |-> groups]
<1>t. req \in [Request -> Handler]
  BY Typed DEF IInv
<1>1. to \in Handler
  BY AccountsAssumption, Values
<1>2. Goes(r, to) /\ server = "serving" /\ req[r] = Idle
  BY DEF LoginDirectory
<1>3. req'[r] = to
  BY <1>t, <1>2 DEF Goes
<1>4. LoginStands(r)'
  BY <1>3 DEF LoginStands
<1> QED
  BY <1>1, <1>2, <1>4, GoesKeeps, Values DEF AskedOfUser, UserPc, UserOps

\* What a handler is asked for names a user if the handler will change one.
LEMMA AskedForms ==
  ASSUME NEW o \in Operation
  PROVE  /\ o.op \in AskedPc /\ o.op \notin {"groups", "upsert", "createSession"}
         /\ o.op \in UserPc => o \in [op : UserOps, user : User] /\ o.op \in UserOps
  BY OperationForms DEF UserOps, UserPc, OtherOps, AskedPc

LEMMA AuthenticateTokenKeeps ==
  ASSUME IInv, NEW r \in Request, NEW t \in TokenId, NEW o \in Operation, AuthenticateToken(r, t, o)
  PROVE  IInv'
<1> DEFINE u == tokens[t].user
           to == [pc |-> o.op, by |-> u, admin |-> users[u].admin, asks |-> o]
<1>t. Tables /\ req \in [Request -> Handler]
  BY Typed DEF IInv
<1>1. Goes(r, to) /\ server = "serving" /\ req[r] = Idle /\ tokens[t].live
  BY DEF AuthenticateToken, TokenAccepted
<1>2. tokens[t] \in TokenRow
  BY <1>t, <1>1, NoRowDead DEF Tables
<1>3. u \in User /\ users[u].admin \in BOOLEAN
  BY <1>t, <1>2 DEF TokenRow, Tables, UserRow
<1>4. to \in Handler
  BY <1>3, Values
<1>5. req'[r] = to
  BY <1>t, <1>1 DEF Goes
<1>6. LoginStands(r)'
  BY <1>5, AskedForms DEF LoginStands
<1>7. AskedOfUser(to)
  BY AskedForms DEF AskedOfUser, UserOps
<1> QED
  BY <1>1, <1>4, <1>6, <1>7, GoesKeeps, Values, AskedForms

LEMMA AuthenticateSessionKeeps ==
  ASSUME IInv, NEW r \in Request, NEW s \in SessionId, NEW o \in Operation, AuthenticateSession(r, s, o)
  PROVE  IInv'
<1> DEFINE u == sessions[s].user
           to == [pc |-> o.op, by |-> u, admin |-> users[u].admin, asks |-> o, cookie |-> s]
<1>t. Tables /\ req \in [Request -> Handler]
  BY Typed DEF IInv
<1>1. Goes(r, to) /\ server = "serving" /\ req[r] = Idle /\ LiveSession(s)
  BY DEF AuthenticateSession, SessionAccepted, LiveSession
<1>3. u \in User /\ users[u].admin \in BOOLEAN
  BY <1>t, <1>1, LiveRow DEF Tables, UserRow
<1>4. to \in Handler
  BY <1>3, Values
<1>5. req'[r] = to
  BY <1>t, <1>1 DEF Goes
<1>6. LoginStands(r)'
  BY <1>5, AskedForms DEF LoginStands
<1>7. AskedOfUser(to)
  BY AskedForms DEF AskedOfUser, UserOps
<1> QED
  BY <1>1, <1>4, <1>6, <1>7, GoesKeeps, Values, AskedForms

\* The count of administrators, and what it is asked for.
LEMMA UpdateReadTargetKeeps == ASSUME IInv, NEW r \in Request, UpdateReadTarget(r) PROVE IInv'
<1>t. req \in [Request -> Handler] /\ req[r] \in Handler
  BY Typed DEF IInv
<1>0. req[r].pc \in {"demote", "disable"}
  BY DEF UpdateReadTarget
<1>1. PICK pc \in {"count", "update", "unguarded"} : Goes(r, At(req[r], pc))
  BY DEF UpdateReadTarget, At
<1>2. req[r].pc \in AskedPc /\ req[r].pc \in UserPc /\ req[r] # Idle
  BY <1>0, Values DEF AskedPc, UserPc, UserOps
<1>3. At(req[r], pc) \in Handler /\ At(req[r], pc).pc = pc /\ At(req[r], pc).asks = req[r].asks
  BY <1>t, <1>2, GoesOn
<1>4. req'[r] = At(req[r], pc)
  BY <1>t, <1>1 DEF Goes
<1>5. LoginStands(r)'
  BY <1>3, <1>4 DEF LoginStands
<1>6. server = "serving" /\ AskedOfUser(At(req[r], pc))
  BY <1>0, <1>2, <1>3 DEF IInv, HandlersStand, AskedOfUser, UserOps
<1> QED
  BY <1>0, <1>1, <1>3, <1>5, <1>6, GoesKeeps

LEMMA UpdateCountKeeps == ASSUME IInv, NEW r \in Request, UpdateCount(r) PROVE IInv'
<1> DEFINE to == IF ActiveAdmins <= 1 THEN Idle ELSE [req[r] EXCEPT !.pc = "update"]
<1>t. req \in [Request -> Handler] /\ req[r] \in Handler
  BY Typed DEF IInv
<1>1. Goes(r, to) /\ req[r].pc = "count"
  BY DEF UpdateCount
<1>2. req[r].pc \in AskedPc /\ req[r].pc \in UserPc /\ req[r] # Idle
  BY <1>1, Values DEF AskedPc, UserPc, UserOps
<1>3. to \in Handler /\ (to = Idle \/ (to.pc = "update" /\ to.asks = req[r].asks))
  <2> DEFINE on == [req[r] EXCEPT !.pc = "update"]
  <2>1. to = Idle \/ to = on
    OBVIOUS
  <2>3. on = At(req[r], "update")
    BY DEF At
  <2>2. At(req[r], "update") \in Handler /\ At(req[r], "update").pc = "update" /\ At(req[r], "update").asks = req[r].asks
    BY <1>t, <1>2, GoesOn
  <2> HIDE DEF to, on
  <2> QED
    BY <2>1, <2>2, <2>3, Values
<1>4. req'[r] = to
  BY <1>t, <1>1 DEF Goes
<1>5. LoginStands(r)'
  BY <1>3, <1>4, Values DEF LoginStands
<1>6. server = "serving" /\ AskedOfUser(to)
  BY <1>1, <1>2, <1>3, Values DEF IInv, HandlersStand, AskedOfUser, UserPc, UserOps
<1> QED
  BY <1>1, <1>3, <1>5, <1>6, GoesKeeps, Values DEF AskedOfUser, UserPc, UserOps

----------------------------------------------------------------------------
(* Steps of a login.                                                        *)

\* A handler that ends, and releases what it holds.
LEMMA EndKeeps ==
  ASSUME IInv, NEW r \in Request, Ends(r), server = "serving", server' = server, Tables',
         locks' = Unlocked(r) \/ (locks' = locks /\ req[r].pc # "groups"),
         \A u \in User : users[u].source # "none" => users'[u].source = users[u].source,
         \A u \in User : users[u].source = "none" /\ users'[u].source = "local" => locks[u] = None
  PROVE  TypeOK' /\ HandlersStand' /\ \A q \in Request : q # r => req'[q] = req[q]
<1>t. Tables /\ LocksHeld /\ req \in [Request -> Handler]
  BY Typed DEF IInv
<1>1. req' = [req EXCEPT ![r] = Idle] /\ req'[r] = Idle
  BY <1>t DEF Ends
<1>2. \A x \in User \cup Group : /\ locks'[x] \in {locks[x], None} /\ locks'[x] # r
                                 /\ locks[x] \notin {None, r} => locks'[x] = locks[x]
  <2>1. CASE locks' = Unlocked(r)
    BY <2>1, AccountsAssumption DEF Unlocked
  <2>2. CASE locks' = locks /\ req[r].pc # "groups"
    BY <1>t, <2>2, AccountsAssumption DEF LocksHeld
  <2> QED
    BY <2>1, <2>2
<1>3. LoginStands(r)'
  BY <1>1, Values DEF LoginStands
<1>4. TypeOK' /\ HandlersStand'
  BY <1>1, <1>2, <1>3, Values, OneMoves DEF AskedOfUser, UserPc, UserOps
<1> QED
  BY <1>t, <1>1, <1>4

LEMMA UpsertUserKeeps == ASSUME IInv, NEW r \in Request, UpsertUser(r) PROVE IInv'
<1> DEFINE u == req[r].user
           to == [pc |-> "groups", user |-> u, groups |-> req[r].groups, left |-> req[r].groups]
<1>t. Tables /\ LocksHeld /\ req \in [Request -> Handler] /\ req[r] \in Handler
  BY Typed DEF IInv
<1>1. /\ req[r].pc = "upsert" /\ locks[u] = None
      /\ UNCHANGED <<users, member, sessions, tokens, ldapEnabled, server, unfinished>>
  BY DEF UpsertUser
<1>2. u \in User /\ req[r].groups \in Seq(Group)
  BY <1>t, <1>1, Shapes DEF Upserting
<1>3. server = "serving" /\ req[r].groups \in Snapshots
  BY <1>t, <1>1, Shapes DEF IInv, HandlersStand, LoginStands
<1>4. TypeOK' /\ HandlersStand' /\ \A q \in Request : q # r => req'[q] = req[q]
  <2>1. CASE MayUpsert(u) /\ locks' = [locks EXCEPT ![u] = r] /\ req' = [req EXCEPT ![r] = to]
    <3>1. Tables'
      BY <1>t, <1>1, <1>2, <2>1 DEF Tables
    <3>2. to \in Handler
      BY <1>2, Values
    <3>3. LoginStands(r)'
      BY <1>t, <1>1, <1>2, <1>3, <2>1 DEF LoginStands, MayUpsert, Tables
    <3>4. \A x \in User \cup Group : /\ locks'[x] \in {locks[x], r}
                                     /\ locks[x] # None => locks'[x] = locks[x]
      BY <1>t, <1>1, <1>2, <2>1 DEF Tables
    <3>5. TypeOK' /\ HandlersStand'
      BY <1>1, <1>3, <2>1, <3>1, <3>2, <3>3, <3>4, OneMoves DEF AskedOfUser, UserPc, UserOps
    <3> QED
      BY <1>t, <2>1, <3>5
  <2>2. CASE Ends(r) /\ locks' = locks
    <3>1. Tables'
      BY <1>t, <1>1, <2>2 DEF Tables
    <3> QED
      BY <1>1, <1>3, <2>2, <3>1, EndKeeps
  <2> QED
    BY <1>t, <2>1, <2>2 DEF UpsertUser
<1>5. Rows'
  BY <1>1 DEF IInv, Rows
<1>6. \A q \in Request : req[q].pc = "deleteSessions" => req'[q] = req[q]
  BY <1>1, <1>4
<1> QED
  BY <1>1, <1>4, <1>5, <1>6, TablesKeep

LEMMA LockGroupKeeps == ASSUME IInv, NEW r \in Request, LockGroup(r) PROVE IInv'
<1> DEFINE v == req[r]
           x == Head(v.left)
           to == [v EXCEPT !.left = Tail(v.left)]
<1>t. Tables /\ LocksHeld /\ req \in [Request -> Handler] /\ v \in Handler
  BY Typed DEF IInv
<1>1. /\ v.pc = "groups" /\ v.left # <<>> /\ locks[x] \in {None, r}
      /\ locks' = [locks EXCEPT ![x] = r] /\ req' = [req EXCEPT ![r] = to]
      /\ UNCHANGED <<users, member, sessions, tokens, ldapEnabled, server, unfinished>>
  BY DEF LockGroup
<1>2. v \in Locking
  BY <1>t, <1>1, Shapes
<1>3. x \in Group /\ to \in Locking /\ to.pc = "groups" /\ to.user = v.user /\ to.groups = v.groups
  <2>1. v.left \in Seq(Group) /\ v.left # <<>>
    BY <1>1, <1>2 DEF Locking
  <2>2. x \in Group /\ Tail(v.left) \in Seq(Group)
    BY <2>1
  <2> QED
    BY <1>1, <1>2, <2>2 DEF Locking
<1>4. /\ server = "serving" /\ v.groups \in Snapshots /\ v.user \in User
      /\ locks[v.user] = r /\ users[v.user].source # "local"
  BY <1>1, <1>2, Values DEF IInv, HandlersStand, LoginStands, Locking
<1>5. Tables'
  BY <1>t, <1>1, <1>3 DEF Tables
<1>6. \A y \in User \cup Group : /\ locks'[y] \in {locks[y], r}
                                 /\ locks[y] \notin {None, r} => locks'[y] = locks[y]
  BY <1>t, <1>1, <1>3 DEF Tables
<1>7. LoginStands(r)'
  <2>1. req'[r] = to
    BY <1>t, <1>1
  <2>2. locks'[v.user] = r
    BY <1>4, <1>6
  <2> QED
    BY <1>1, <1>3, <1>4, <2>1, <2>2 DEF LoginStands
<1>8. TypeOK' /\ HandlersStand'
  <2>1. to \in Handler
    BY <1>3 DEF Handler, Locking
  <2> HIDE DEF to
  <2> QED
    BY <1>1, <1>3, <1>4, <1>5, <1>6, <1>7, <2>1, OneMoves DEF AskedOfUser, UserPc, UserOps
<1>9. Rows'
  BY <1>1 DEF IInv, Rows
<1>10. \A q \in Request : req[q].pc = "deleteSessions" => req'[q] = req[q]
  BY <1>t, <1>1
<1> QED
  BY <1>1, <1>8, <1>9, <1>10, TablesKeep

LEMMA UpsertAbortedKeeps == ASSUME IInv, NEW r \in Request, UpsertAborted(r) PROVE IInv'
<1>t. Tables /\ req \in [Request -> Handler]
  BY Typed DEF IInv
<1>1. /\ locks' = Unlocked(r) /\ Ends(r) /\ req[r].pc = "groups"
      /\ UNCHANGED <<users, member, sessions, tokens, ldapEnabled, server, unfinished>>
  BY DEF UpsertAborted, ReleasedOnAbort, Deadlocked, Waits
<1>2. server = "serving"
  BY <1>1, Values DEF IInv, HandlersStand
<1>3. Tables'
  BY <1>t, <1>1 DEF Tables, Unlocked
<1>4. TypeOK' /\ HandlersStand' /\ \A q \in Request : q # r => req'[q] = req[q]
  BY <1>1, <1>2, <1>3, EndKeeps
<1>5. Rows'
  BY <1>1 DEF IInv, Rows
<1>6. \A q \in Request : req[q].pc = "deleteSessions" => req'[q] = req[q]
  BY <1>1, <1>4
<1> QED
  BY <1>1, <1>4, <1>5, <1>6, TablesKeep

\* The rows appear in the directory's account, which is as it was or new, and whose
\* groups are the list of this login.
LEMMA UpsertCommitKeeps == ASSUME IInv, NEW r \in Request, UpsertCommit(r) PROVE IInv'
<1> DEFINE u == req[r].user
           to == [pc |-> "createSession", user |-> u, via |-> "ldap", hash |-> 0]
<1>t. Tables /\ LocksHeld /\ req \in [Request -> Handler] /\ req[r] \in Handler
  BY Typed DEF IInv
<1>1. /\ req[r].pc = "groups"
      /\ users' = [users EXCEPT ![u] = IF @ = NoUser THEN FromDirectory ELSE @]
      /\ member' = [member EXCEPT ![u] = Range(req[r].groups)]
      /\ locks' = Unlocked(r) /\ req' = [req EXCEPT ![r] = to]
      /\ UNCHANGED <<sessions, tokens, ldapEnabled, server, unfinished>>
  BY DEF UpsertCommit, GroupsReplaced
<1>2. /\ u \in User /\ req[r].groups \in Snapshots /\ req[r].groups \in Seq(Group)
      /\ locks[u] = r /\ users[u].source # "local" /\ server = "serving"
  BY <1>t, <1>1, Shapes, Values, AccountsAssumption DEF IInv, HandlersStand, LoginStands, Locking
<1>3. /\ \A w \in User : w # u => users'[w] = users[w] /\ member'[w] = member[w]
      /\ users'[u].source = "ldap" /\ member'[u] = Range(req[r].groups)
      /\ users[u].source # "none" => users'[u] = users[u]
      /\ users' \in [User -> UserRow] /\ users'[u] # NoUser
      /\ users[u].source = "ldap" \/ users[u] = NoUser
  <2>1. users[u] \in UserRow /\ (users[u].source = "none" <=> users[u] = NoUser)
    BY <1>t, <1>2 DEF Tables, IInv, Rows
  <2>2. users'[u] = (IF users[u] = NoUser THEN FromDirectory ELSE users[u])
    BY <1>t, <1>1, <1>2 DEF Tables
  <2>3. users'[u] \in UserRow /\ users'[u].source = "ldap" /\ users'[u] # NoUser
    BY <1>2, <2>1, <2>2 DEF FromDirectory, UserRow, NoUser
  <2> QED
    BY <1>t, <1>1, <1>2, <2>1, <2>2, <2>3 DEF Tables, UserRow
<1>4. Tables'
  <2>1. Range(req[r].groups) \subseteq Group
    BY <1>2 DEF Range
  <2>2. member' \in [User -> SUBSET Group]
    BY <1>t, <1>1, <1>2, <2>1 DEF Tables
  <2> QED
    BY <1>t, <1>1, <1>3, <2>2 DEF Tables, Unlocked
<1>5. \A x \in User \cup Group : /\ locks'[x] \in {locks[x], None} /\ locks'[x] # r
                                 /\ locks[x] \notin {None, r} => locks'[x] = locks[x]
  BY <1>1, AccountsAssumption DEF Unlocked
<1>6. TypeOK' /\ HandlersStand'
  <2>1. to \in Handler
    BY <1>2, Values
  <2>2. LoginStands(r)'
    BY <1>t, <1>1, <1>3 DEF LoginStands
  <2>3. \A w \in User : /\ users[w].source # "none" => users'[w].source = users[w].source
                        /\ users[w].source = "none" => users'[w].source # "local"
    BY <1>3
  <2> QED
    BY <1>1, <1>2, <1>4, <1>5, <2>1, <2>2, <2>3, OneMoves DEF AskedOfUser, UserPc, UserOps
<1>7. Rows'
  <2>1. \A w \in User : users'[w].source = "none" <=> users'[w] = NoUser
    BY <1>3 DEF IInv, Rows
  <2> QED
    BY <1>1, <1>2, <2>1 DEF Rows
<1>s. ASSUME NEW s \in SessionId, LiveSession(s)'
      PROVE  /\ LiveSession(s) /\ sessions'[s] = sessions[s] /\ sessions[s].user \in User
             /\ users'[sessions[s].user] = users[sessions[s].user]
  <2>1. LiveSession(s) /\ sessions'[s] = sessions[s]
    BY <1>1, <1>s DEF LiveSession
  <2>2. sessions[s].user \in User
    BY <1>t, <2>1, LiveRow
  <2>3. users[sessions[s].user].source # "none"
    BY <2>1 DEF IInv, SessionsOwned
  <2> QED
    BY <1>3, <2>1, <2>2, <2>3
<1>8. SessionsOwned' /\ LocalNeverByDirectory'
  BY <1>s DEF IInv, SessionsOwned, LocalNeverByDirectory
<1>9. ResetEndsSessions'
  <2> SUFFICES ASSUME NEW s \in SessionId, LiveSession(s)', sessions'[s].via = "hash"
               PROVE  LET w == sessions'[s].user IN
                      \/ sessions'[s].hash = users'[w].hash \/ sessions'[s].late \/ w \in unfinished'
                      \/ \E q \in Request : req'[q].pc = "deleteSessions" /\ req'[q].asks.user = w
    BY DEF ResetEndsSessions
  <2> DEFINE w == sessions[s].user
  <2>1. \/ sessions[s].hash = users[w].hash \/ sessions[s].late \/ w \in unfinished
        \/ \E q \in Request : req[q].pc = "deleteSessions" /\ req[q].asks.user = w
    BY <1>s DEF IInv, ResetEndsSessions
  <2>2. \A q \in Request : req[q].pc = "deleteSessions" => req'[q] = req[q]
    BY <1>t, <1>1
  <2> QED
    BY <1>1, <1>s, <2>1, <2>2
<1>10. MembershipIsASnapshot'
  BY <1>2, <1>3 DEF IInv, MembershipIsASnapshot
<1> QED
  BY <1>6, <1>7, <1>8, <1>9, <1>10 DEF IInv

\* The row of a session names the password its login was verified against.
LEMMA CreateSessionKeeps == ASSUME IInv, NEW r \in Request, CreateSession(r) PROVE IInv'
<1> DEFINE v == req[r]
           row == [live |-> TRUE, user |-> v.user, via |-> v.via, hash |-> v.hash,
                   late |-> v.via = "hash" /\ v.hash # users[v.user].hash]
<1>t. Tables /\ LocksHeld /\ req \in [Request -> Handler] /\ req[r] \in Handler
  BY Typed DEF IInv
<1>1. /\ req[r].pc = "createSession" /\ Ends(r)
      /\ UNCHANGED <<users, member, tokens, ldapEnabled, locks, server, unfinished>>
  BY DEF CreateSession
<1>2. v \in Creating
  BY <1>t, <1>1, Shapes
<1>3. /\ server = "serving" /\ v.user \in User /\ users[v.user].source # "none"
      /\ v.via = "ldap" => users[v.user].source = "ldap"
  BY <1>1, <1>2, Values DEF IInv, HandlersStand, LoginStands, Creating
<1>4. row \in SessionRow /\ LET s == row IN s.live
  BY <1>2 DEF Creating, SessionRow
<1>5. /\ sessions' \in [SessionId -> {NoRow} \cup SessionRow]
      /\ \A s \in SessionId : sessions'[s] \in {sessions[s], row}
  <2> HIDE DEF row
  <2>1. \/ \E s \in SessionId : sessions' = [sessions EXCEPT ![s] = row]
        \/ sessions' = sessions
    BY DEF CreateSession, row
  <2> QED
    BY <1>t, <1>4, <2>1 DEF Tables
<1>6. Tables'
  BY <1>t, <1>1, <1>5 DEF Tables
<1>7. TypeOK' /\ HandlersStand' /\ \A q \in Request : q # r => req'[q] = req[q]
  BY <1>1, <1>3, <1>6, EndKeeps
<1>8. Rows'
  BY <1>1 DEF IInv, Rows
<1>s. ASSUME NEW s \in SessionId, LiveSession(s)'
      PROVE  \/ sessions'[s] = row
             \/ LiveSession(s) /\ sessions'[s] = sessions[s]
  BY <1>5, <1>s DEF LiveSession
<1>9. SessionsOwned' /\ LocalNeverByDirectory'
  BY <1>1, <1>3, <1>s DEF IInv, SessionsOwned, LocalNeverByDirectory
<1>10. ResetEndsSessions'
  <2> SUFFICES ASSUME NEW s \in SessionId, LiveSession(s)', sessions'[s].via = "hash"
               PROVE  LET w == sessions'[s].user IN
                      \/ sessions'[s].hash = users'[w].hash \/ sessions'[s].late \/ w \in unfinished'
                      \/ \E q \in Request : req'[q].pc = "deleteSessions" /\ req'[q].asks.user = w
    BY DEF ResetEndsSessions
  <2>1. CASE sessions'[s] = row
    <3>1. /\ v.via = "hash" /\ sessions'[s].user = v.user /\ sessions'[s].hash = v.hash
          /\ sessions'[s].late = (v.via = "hash" /\ v.hash # users[v.user].hash)
      BY <2>1
    <3> QED
      BY <1>1, <3>1
  <2>2. CASE LiveSession(s) /\ sessions'[s] = sessions[s]
    <3> DEFINE w == sessions[s].user
    <3>1. \/ sessions[s].hash = users[w].hash \/ sessions[s].late \/ w \in unfinished
          \/ \E q \in Request : req[q].pc = "deleteSessions" /\ req[q].asks.user = w
      BY <2>2 DEF IInv, ResetEndsSessions
    <3>2. \A q \in Request : req[q].pc = "deleteSessions" => req'[q] = req[q]
      BY <1>1, <1>7
    <3> QED
      BY <1>1, <2>2, <3>1, <3>2
  <2> QED
    BY <1>s, <2>1, <2>2
<1>11. MembershipIsASnapshot'
  BY <1>1 DEF IInv, MembershipIsASnapshot
<1> QED
  BY <1>7, <1>8, <1>9, <1>10, <1>11 DEF IInv

----------------------------------------------------------------------------
(* The handlers.                                                            *)

\* A handler that is done with what it was asked, where users keep source and password
\* and sessions only go.
LEMMA HandlerEnds ==
  ASSUME IInv, NEW r \in Request, req[r].pc \in AskedPc \ {"deleteSessions"}, Ends(r),
         UNCHANGED <<member, locks, server, unfinished>>, Tables', Rows',
         \A u \in User : users[u].source # "none" =>
            users'[u].source = users[u].source /\ users'[u].hash = users[u].hash,
         \A u \in User : users'[u].source = "ldap" => users[u].source = "ldap",
         \A u \in User : users[u].source = "none" /\ users'[u].source = "local" => locks[u] = None,
         \A s \in SessionId : sessions'[s] \in {sessions[s], NoRow}
  PROVE  IInv'
<1>1. server = "serving" /\ req[r].pc # "groups"
  BY Values DEF IInv, HandlersStand, AskedPc, UserPc, UserOps, OtherOps
<1>2. TypeOK' /\ HandlersStand' /\ \A q \in Request : q # r => req'[q] = req[q]
  BY <1>1, EndKeeps
<1>3. \A q \in Request : req[q].pc = "deleteSessions" => req'[q] = req[q]
  BY <1>2
<1> QED
  BY <1>2, <1>3, TablesKeep

\* A row that is changed in a flag.
LEMMA Flags ==
  ASSUME NEW row \in UserRow, row.source # "none", NEW b \in BOOLEAN
  PROVE  /\ [row EXCEPT !.admin = b] \in UserRow /\ [row EXCEPT !.enabled = b] \in UserRow
         /\ [row EXCEPT !.admin = b].source = row.source /\ [row EXCEPT !.enabled = b].source = row.source
         /\ [row EXCEPT !.admin = b].hash = row.hash /\ [row EXCEPT !.enabled = b].hash = row.hash
  BY DEF UserRow

LEMMA UpdateUserKeeps == ASSUME IInv, NEW r \in Request, UpdateUser(r) PROVE IInv'
<1> DEFINE u == req[r].asks.user
<1>t. Tables /\ req \in [Request -> Handler]
  BY Typed DEF IInv
<1>1. /\ req[r].pc \in {"update", "unguarded", "promote", "enable"} /\ locks[u] = None /\ Ends(r)
      /\ UNCHANGED <<member, sessions, tokens, ldapEnabled, locks, server, unfinished>>
  BY DEF UpdateUser
<1>2. req[r].pc \in UserPc /\ req[r].pc \in AskedPc \ {"deleteSessions"}
  BY <1>1 DEF AskedPc, UserPc, UserOps
<1>3. u \in User
  BY <1>2 DEF IInv, HandlersStand, AskedOfUser
<1>4. users[u] \in UserRow /\ (users[u].source = "none" <=> users[u] = NoUser)
  BY <1>t, <1>3 DEF Tables, IInv, Rows
<1>5. \/ users' = users
      \/ /\ users[u] # NoUser
         /\ \E b \in BOOLEAN : \/ users' = [users EXCEPT ![u] = [users[u] EXCEPT !.admin = b]]
                               \/ users' = [users EXCEPT ![u] = [users[u] EXCEPT !.enabled = b]]
  <2>1. req[r].asks.op \in {"demote", "disable", "promote", "enable"}
    BY <1>1, <1>2 DEF IInv, HandlersStand, AskedOfUser, UserOps
  <2>2. CASE users[u] = NoUser
    BY <2>2 DEF UpdateUser
  <2>3. CASE users[u] # NoUser /\ req[r].asks.op = "demote"
    BY <2>3 DEF UpdateUser
  <2>4. CASE users[u] # NoUser /\ req[r].asks.op = "promote"
    BY <2>4 DEF UpdateUser
  <2>5. CASE users[u] # NoUser /\ req[r].asks.op = "disable"
    BY <2>5 DEF UpdateUser
  <2>6. CASE users[u] # NoUser /\ req[r].asks.op = "enable"
    BY <2>6 DEF UpdateUser
  <2> QED
    BY <2>1, <2>2, <2>3, <2>4, <2>5, <2>6
<1>6. /\ users' \in [User -> UserRow]
      /\ \A w \in User : \/ users'[w] = users[w]
                         \/ /\ users[w].source # "none" /\ users'[w].source = users[w].source
                            /\ users'[w].hash = users[w].hash
  <2>1. CASE users' = users
    BY <1>t, <2>1 DEF Tables
  <2>2. CASE users' # users
    <3>1. PICK row : /\ users' = [users EXCEPT ![u] = row]
                     /\ row \in UserRow /\ row.source = users[u].source /\ row.hash = users[u].hash
                     /\ users[u].source # "none"
      BY <1>4, <1>5, <2>2, Flags
    <3> QED
      BY <1>t, <1>3, <3>1 DEF Tables
  <2> QED
    BY <2>1, <2>2
<1>7. Tables'
  BY <1>t, <1>1, <1>6 DEF Tables
<1>8. Rows'
  <2>2. NoUser.source = "none"
    BY DEF NoUser
  <2>3. server = "serving"
    BY <1>1, Values DEF IInv, HandlersStand
  <2>4. \A w \in User : users'[w].source = "none" <=> users'[w] = NoUser
    BY <1>6, <2>2 DEF IInv, Rows
  <2> QED
    BY <1>1, <2>3, <2>4 DEF Rows
<1> QED
  BY <1>1, <1>2, <1>6, <1>7, <1>8, HandlerEnds

LEMMA CreateLocalUserKeeps == ASSUME IInv, NEW r \in Request, CreateLocalUser(r) PROVE IInv'
<1> DEFINE u == req[r].asks.user
           row == Local(req[r].pc = "createAdmin")
<1>t. Tables /\ req \in [Request -> Handler]
  BY Typed DEF IInv
<1>1. /\ req[r].pc \in {"createUser", "createAdmin"} /\ locks[u] = None /\ Ends(r)
      /\ UNCHANGED <<member, sessions, tokens, ldapEnabled, locks, server, unfinished>>
      /\ users' = users \/ (users[u] = NoUser /\ users' = [users EXCEPT ![u] = row])
  BY DEF CreateLocalUser, NameFree
<1>2. req[r].pc \in UserPc /\ req[r].pc \in AskedPc \ {"deleteSessions"}
  BY <1>1 DEF AskedPc, UserPc, UserOps
<1>3. u \in User
  BY <1>2 DEF IInv, HandlersStand, AskedOfUser
<1>4. row \in UserRow /\ row.source = "local" /\ NoUser.source = "none"
  BY DEF Local, UserRow, NoUser
<1>5. /\ users' \in [User -> UserRow]
      /\ \A w \in User : \/ users'[w] = users[w]
                         \/ w = u /\ users[w].source = "none" /\ users'[w].source = "local"
  <2> HIDE DEF row
  <2> QED
    BY <1>t, <1>1, <1>3, <1>4 DEF Tables
<1>6. Tables'
  BY <1>t, <1>1, <1>5 DEF Tables
<1>7. Rows'
  <2>1. \A w \in User : users'[w].source = "none" <=> users'[w] = NoUser
    BY <1>4, <1>5 DEF IInv, Rows
  <2>2. server = "serving"
    BY <1>1, Values DEF IInv, HandlersStand
  <2> QED
    BY <1>1, <2>1, <2>2 DEF Rows
<1> QED
  BY <1>1, <1>2, <1>5, <1>6, <1>7, HandlerEnds

\* Handlers of other tables.
LEMMA UpdateLDAPKeeps == ASSUME IInv, NEW r \in Request, UpdateLDAP(r) PROVE IInv'
<1>t. Tables
  BY Typed DEF IInv
<1>1. /\ req[r].pc \in AskedPc \ {"deleteSessions"} /\ Ends(r) /\ ldapEnabled' = ~ ldapEnabled
      /\ UNCHANGED <<users, member, sessions, tokens, locks, server, unfinished>>
  BY DEF UpdateLDAP, AskedPc, OtherOps
<1>2. Tables'
  <2>1. ldapEnabled' \in BOOLEAN
    BY <1>1
  <2> QED
    BY <1>t, <1>1, <2>1 DEF Tables
<1>3. Rows'
  BY <1>1 DEF IInv, Rows
<1> QED
  BY <1>1, <1>2, <1>3, HandlerEnds

LEMMA CreateTokenKeeps == ASSUME IInv, NEW r \in Request, NEW t \in TokenId, CreateToken(r, t) PROVE IInv'
<1> DEFINE row == [live |-> TRUE, user |-> req[r].by, admin |-> req[r].pc = "createAdminToken"]
<1>t. Tables /\ req \in [Request -> Handler]
  BY Typed DEF IInv
<1>1. /\ req[r].pc \in AskedPc \ {"deleteSessions"} /\ Ends(r)
      /\ tokens' = tokens \/ tokens' = [tokens EXCEPT ![t] = row]
      /\ UNCHANGED <<users, member, sessions, ldapEnabled, locks, server, unfinished>>
  BY DEF CreateToken, AskedPc, OtherOps
<1>2. req[r].by \in User
  BY <1>t, <1>1, Shapes DEF ByToken, BySession
<1>3. row \in TokenRow
  BY <1>2 DEF TokenRow
<1>4. Tables'
  <2> HIDE DEF row
  <2> QED
    BY <1>t, <1>1, <1>3 DEF Tables
<1>5. Rows'
  BY <1>1 DEF IInv, Rows
<1> QED
  BY <1>1, <1>4, <1>5, HandlerEnds

LEMMA RevokeTokenKeeps == ASSUME IInv, NEW r \in Request, NEW t \in TokenId, RevokeToken(r, t) PROVE IInv'
<1>t. Tables
  BY Typed DEF IInv
<1>1. /\ req[r].pc \in AskedPc \ {"deleteSessions"} /\ Ends(r)
      /\ tokens' = tokens \/ tokens' = [tokens EXCEPT ![t] = NoRow]
      /\ UNCHANGED <<users, member, sessions, ldapEnabled, locks, server, unfinished>>
  BY DEF RevokeToken, AskedPc, OtherOps
<1>2. Tables'
  BY <1>t, <1>1 DEF Tables
<1>3. Rows'
  BY <1>1 DEF IInv, Rows
<1> QED
  BY <1>1, <1>2, <1>3, HandlerEnds

LEMMA LogoutKeeps == ASSUME IInv, NEW r \in Request, Logout(r) PROVE IInv'
<1>t. Tables
  BY Typed DEF IInv
<1>1. /\ req[r].pc \in AskedPc \ {"deleteSessions"} /\ Ends(r)
      /\ sessions' = [sessions EXCEPT ![req[r].cookie] = NoRow]
      /\ UNCHANGED <<users, member, tokens, ldapEnabled, locks, server, unfinished>>
  BY DEF Logout, AskedPc, OtherOps
<1>2. Tables' /\ \A s \in SessionId : sessions'[s] \in {sessions[s], NoRow}
  BY <1>t, <1>1 DEF Tables
<1>3. Rows'
  BY <1>1 DEF IInv, Rows
<1> QED
  BY <1>1, <1>2, <1>3, HandlerEnds

\* Between the two statements of a reset the sessions of the old password are those of
\* the user of this handler.
LEMMA SetPasswordKeeps == ASSUME IInv, NEW r \in Request, SetPassword(r) PROVE IInv'
<1> DEFINE u == req[r].asks.user
           to == [req[r] EXCEPT !.pc = "deleteSessions"]
           row == [users[u] EXCEPT !.hash = users[u].hash + 1]
<1>t. Tables /\ LocksHeld /\ req \in [Request -> Handler] /\ req[r] \in Handler
  BY Typed DEF IInv
<1>1. /\ req[r].pc = "setPassword" /\ locks[u] = None
      /\ UNCHANGED <<member, sessions, tokens, ldapEnabled, locks, server, unfinished>>
      /\ \/ /\ users[u].source = "local" /\ users' = [users EXCEPT ![u] = row]
            /\ req' = [req EXCEPT ![r] = to]
         \/ Ends(r) /\ users' = users
  BY DEF SetPassword
<1>2. req[r].pc \in UserPc /\ req[r].pc \in AskedPc \ {"deleteSessions"} /\ req[r] # Idle
  BY <1>1, Values DEF AskedPc, UserPc, UserOps
<1>3. u \in User /\ server = "serving" /\ req[r].asks \in [op : UserOps, user : User]
  BY <1>2 DEF IInv, HandlersStand, AskedOfUser
<1>4. CASE Ends(r) /\ users' = users
  <2>1. Tables' /\ Rows'
    BY <1>t, <1>1, <1>4 DEF Tables, IInv, Rows
  <2> QED
    BY <1>1, <1>2, <1>4, <2>1, HandlerEnds
<1>5. CASE users[u].source = "local" /\ users' = [users EXCEPT ![u] = row] /\ req' = [req EXCEPT ![r] = to]
  <2>1. /\ row \in UserRow /\ row.source = users[u].source
        /\ NoUser.source = "none"
    BY <1>t, <1>3 DEF Tables, UserRow, NoUser
  <2>2. /\ to \in Handler /\ to.pc = "deleteSessions" /\ to.asks = req[r].asks
    <3>1. to = At(req[r], "deleteSessions")
      BY DEF At
    <3> HIDE DEF to
    <3> QED
      BY <1>t, <1>2, <3>1, GoesOn
  <2> HIDE DEF row, to
  <2>3. /\ users' \in [User -> UserRow] /\ users'[u] = row
        /\ \A w \in User : users'[w].source = users[w].source /\ (w # u => users'[w] = users[w])
    BY <1>t, <1>3, <1>5, <2>1 DEF Tables
  <2>4. Tables'
    BY <1>t, <1>1, <2>3 DEF Tables
  <2>5. req'[r] = to /\ \A q \in Request : q # r => req'[q] = req[q]
    BY <1>t, <1>5
  <2>6. TypeOK' /\ HandlersStand'
    <3>1. LoginStands(r)' /\ AskedOfUser(to)
      BY <1>3, <2>2, <2>5 DEF LoginStands, AskedOfUser, UserOps
    <3>2. \A x \in User \cup Group : locks[x] # r
      BY <1>t, <1>1, AccountsAssumption DEF LocksHeld
    <3> QED
      BY <1>1, <1>3, <1>5, <2>2, <2>3, <2>4, <3>1, <3>2, OneMoves
  <2>7. Rows'
    <3>1. users'[u] # NoUser /\ users[u].source # "none"
      BY <1>5, <2>1, <2>3
    <3>2. \A w \in User : users'[w].source = "none" <=> users'[w] = NoUser
      BY <2>3, <3>1 DEF IInv, Rows
    <3> QED
      BY <1>1, <1>3, <3>2 DEF Rows
  <2>s. ASSUME NEW s \in SessionId, LiveSession(s)'
        PROVE  LiveSession(s) /\ sessions'[s] = sessions[s] /\ sessions[s].user \in User
    <3>1. LiveSession(s) /\ sessions'[s] = sessions[s]
      BY <1>1, <2>s DEF LiveSession
    <3> QED
      BY <1>t, <3>1, LiveRow
  <2>8. SessionsOwned' /\ LocalNeverByDirectory'
    BY <2>3, <2>s DEF IInv, SessionsOwned, LocalNeverByDirectory
  <2>9. ResetEndsSessions'
    <3> SUFFICES ASSUME NEW s \in SessionId, LiveSession(s)', sessions'[s].via = "hash"
                 PROVE  LET w == sessions'[s].user IN
                        \/ sessions'[s].hash = users'[w].hash \/ sessions'[s].late \/ w \in unfinished'
                        \/ \E q \in Request : req'[q].pc = "deleteSessions" /\ req'[q].asks.user = w
      BY DEF ResetEndsSessions
    <3> DEFINE w == sessions[s].user
    <3>1. \/ sessions[s].hash = users[w].hash \/ sessions[s].late \/ w \in unfinished
          \/ \E q \in Request : req[q].pc = "deleteSessions" /\ req[q].asks.user = w
      BY <2>s DEF IInv, ResetEndsSessions
    <3>2. CASE w = u
      BY <2>2, <2>5, <2>s, <3>2
    <3>3. CASE w # u
      <4>1. \A q \in Request : req[q].pc = "deleteSessions" => req'[q] = req[q]
        BY <1>1, <2>5
      <4> QED
        BY <1>1, <2>3, <2>s, <3>1, <3>3, <4>1
    <3> QED
      BY <3>2, <3>3
  <2>10. MembershipIsASnapshot'
    BY <1>1, <2>3 DEF IInv, MembershipIsASnapshot
  <2> QED
    BY <2>6, <2>7, <2>8, <2>9, <2>10 DEF IInv
<1> QED
  BY <1>1, <1>4, <1>5

LEMMA DeleteSessionsKeeps == ASSUME IInv, NEW r \in Request, DeleteSessions(r) PROVE IInv'
<1> DEFINE u == req[r].asks.user
<1>t. Tables /\ LocksHeld /\ req \in [Request -> Handler] /\ req[r] \in Handler
  BY Typed DEF IInv
<1>1. /\ req[r].pc = "deleteSessions" /\ Ends(r)
      /\ sessions' = [s \in SessionId |-> IF s \in SessionsOfUser(r) THEN NoRow ELSE sessions[s]]
      /\ unfinished' = unfinished \ {u}
      /\ UNCHANGED <<users, member, tokens, ldapEnabled, locks, server>>
  BY DEF DeleteSessions
<1>2. server = "serving"
  BY <1>1, Values DEF IInv, HandlersStand
<1>3. Tables'
  BY <1>t, <1>1 DEF Tables
<1>4. TypeOK' /\ HandlersStand' /\ \A q \in Request : q # r => req'[q] = req[q]
  BY <1>1, <1>2, <1>3, EndKeeps
<1>5. Rows' /\ MembershipIsASnapshot'
  BY <1>1 DEF IInv, Rows, MembershipIsASnapshot
<1>s. ASSUME NEW s \in SessionId, LiveSession(s)'
      PROVE  /\ LiveSession(s) /\ sessions'[s] = sessions[s] /\ sessions[s].user \in User
             /\ sessions[s].user # u
  <2>1. sessions'[s] = sessions[s] /\ s \notin SessionsOfUser(r)
    BY <1>1, <1>s, NoRowDead DEF LiveSession
  <2>2. LiveSession(s)
    BY <1>s, <2>1 DEF LiveSession
  <2> QED
    BY <1>t, <2>1, <2>2, LiveRow DEF SessionsOfUser, LiveSession
<1>6. SessionsOwned' /\ LocalNeverByDirectory'
  BY <1>1, <1>s DEF IInv, SessionsOwned, LocalNeverByDirectory
<1>7. ResetEndsSessions'
  <2> SUFFICES ASSUME NEW s \in SessionId, LiveSession(s)', sessions'[s].via = "hash"
               PROVE  LET w == sessions'[s].user IN
                      \/ sessions'[s].hash = users'[w].hash \/ sessions'[s].late \/ w \in unfinished'
                      \/ \E q \in Request : req'[q].pc = "deleteSessions" /\ req'[q].asks.user = w
    BY DEF ResetEndsSessions
  <2> DEFINE w == sessions[s].user
  <2>1. \/ sessions[s].hash = users[w].hash \/ sessions[s].late \/ w \in unfinished
        \/ \E q \in Request : req[q].pc = "deleteSessions" /\ req[q].asks.user = w
    BY <1>s DEF IInv, ResetEndsSessions
  <2>2. \A q \in Request : req[q].asks.user # u => q # r
    OBVIOUS
  <2> QED
    BY <1>1, <1>4, <1>s, <2>1, <2>2
<1> QED
  BY <1>4, <1>5, <1>6, <1>7 DEF IInv

----------------------------------------------------------------------------
(* Time, failures and the start of the server.                              *)

\* Nothing moves but the tables, which only lose rows.
LEMMA ExpiryKeeps ==
  ASSUME IInv, \/ \E s \in SessionId : ExpireSession(s)
               \/ \E t \in TokenId : ExpireToken(t)
  PROVE  IInv'
<1>t. Tables /\ LocksHeld /\ req \in [Request -> Handler]
  BY Typed DEF IInv
<1>1. /\ \/ sessions' = sessions /\ \E t \in TokenId : tokens' = [tokens EXCEPT ![t] = NoRow]
         \/ tokens' = tokens /\ \E s \in SessionId : sessions' = [sessions EXCEPT ![s] = NoRow]
      /\ UNCHANGED <<users, member, ldapEnabled, locks, server, req, unfinished>>
  BY DEF ExpireSession, ExpireToken
<1>2. Tables' /\ \A s \in SessionId : sessions'[s] \in {sessions[s], NoRow}
  BY <1>t, <1>1 DEF Tables
<1>3. LocksHeld' /\ Rows' /\ HandlersStand' /\ req' \in [Request -> Handler]
  BY <1>t, <1>1 DEF LocksHeld, IInv, Rows, HandlersStand, LoginStands
<1>4. TypeOK'
  BY <1>1, <1>2, <1>3, TypedNext, Typed DEF IInv
<1> QED
  BY <1>1, <1>2, <1>3, <1>4, TablesKeep

\* A handler that was about to delete sessions leaves its user among the unfinished.
LEMMA CutShortUsers ==
  ASSUME IInv, NEW R \in SUBSET Request
  PROVE  /\ CutShort(R) \subseteq User
         /\ \A q \in R : req[q].pc = "deleteSessions" => req[q].asks.user \in CutShort(R)
  BY DEF CutShort, IInv, HandlersStand, AskedOfUser, UserPc

LEMMA ClientGoneKeeps == ASSUME IInv, NEW r \in Request, ClientGone(r) PROVE IInv'
<1>t. Tables /\ LocksHeld /\ req \in [Request -> Handler]
  BY Typed DEF IInv
<1>1. /\ locks' = Unlocked(r) /\ Ends(r) /\ unfinished' = unfinished \cup CutShort({r})
      /\ UNCHANGED <<users, member, sessions, tokens, ldapEnabled, server>> /\ req[r] # Idle
  BY DEF ClientGone
<1>2. server = "serving"
  BY <1>1 DEF IInv, HandlersStand
<1>3. Tables'
  BY <1>t, <1>1, CutShortUsers DEF Tables, Unlocked
<1>4. TypeOK' /\ HandlersStand' /\ \A q \in Request : q # r => req'[q] = req[q]
  BY <1>1, <1>2, <1>3, EndKeeps
<1>5. Rows'
  BY <1>1 DEF IInv, Rows
<1>6. \A q \in Request : req[q].pc = "deleteSessions" => req'[q] = req[q] \/ req[q].asks.user \in unfinished'
  BY <1>1, <1>4, CutShortUsers
<1> QED
  BY <1>1, <1>4, <1>5, <1>6, TablesKeep

LEMMA RestartKeeps == ASSUME IInv, Restart PROVE IInv'
<1>t. Tables
  BY Typed DEF IInv
<1>1. /\ server' = "starting" /\ locks' = [x \in User \cup Group |-> None] /\ req' = [r \in Request |-> Idle]
      /\ unfinished' = unfinished \cup CutShort(Request)
      /\ UNCHANGED <<users, member, sessions, tokens, ldapEnabled>>
  BY DEF Restart
<1>2. Tables' /\ LocksHeld' /\ req' \in [Request -> Handler]
  BY <1>t, <1>1, Values, CutShortUsers DEF Tables, LocksHeld
<1>3. TypeOK'
  BY <1>1, <1>2, TypedNext
<1>4. HandlersStand'
  BY <1>1, Values DEF HandlersStand, LoginStands, AskedOfUser, UserPc, UserOps
<1>5. Rows'
  BY <1>1 DEF IInv, Rows
<1>6. \A q \in Request : req[q].pc = "deleteSessions" => req[q].asks.user \in unfinished'
  BY <1>1, CutShortUsers
<1> QED
  BY <1>1, <1>3, <1>4, <1>5, <1>6, TablesKeep

LEMMA CountUsersKeeps == ASSUME IInv, CountUsers PROVE IInv'
<1>t. Tables /\ LocksHeld /\ req \in [Request -> Handler]
  BY Typed DEF IInv
<1>1. /\ server = "starting" /\ server' \in {"empty", "serving"}
      /\ server' = "empty" => \A u \in User : users[u] = NoUser
      /\ UNCHANGED <<users, member, sessions, tokens, ldapEnabled, locks, req, unfinished>>
  BY DEF CountUsers, dbVars
<1>2. Tables' /\ LocksHeld' /\ req' \in [Request -> Handler]
  BY <1>t, <1>1 DEF Tables, LocksHeld
<1>3. TypeOK'
  BY <1>1, <1>2, TypedNext
<1>4. HandlersStand' /\ Rows'
  BY <1>1 DEF IInv, HandlersStand, LoginStands, Rows
<1> QED
  BY <1>1, <1>3, <1>4, TablesKeep

LEMMA CreateBootstrapAdminKeeps == ASSUME IInv, CreateBootstrapAdmin PROVE IInv'
<1>t. Tables /\ LocksHeld /\ req \in [Request -> Handler]
  BY Typed DEF IInv
<1>1. /\ server = "empty" /\ server' = "serving" /\ users' = [users EXCEPT ![Bootstrap] = Local(TRUE)]
      /\ UNCHANGED <<member, sessions, tokens, ldapEnabled, locks, req, unfinished>>
  BY DEF CreateBootstrapAdmin
<1>2. /\ Local(TRUE) \in UserRow /\ Local(TRUE).source = "local" /\ NoUser.source = "none"
      /\ \A u \in User : users[u] = NoUser
  BY <1>1 DEF Local, UserRow, NoUser, IInv, Rows
<1>3. /\ users' \in [User -> UserRow]
      /\ \A u \in User : users'[u] = users[u] \/ users'[u] = Local(TRUE)
  BY <1>t, <1>1, <1>2 DEF Tables
<1>4. Tables' /\ LocksHeld' /\ req' \in [Request -> Handler]
  BY <1>t, <1>1, <1>3 DEF Tables, LocksHeld
<1>5. TypeOK'
  BY <1>1, <1>4, TypedNext
<1>6. \A r \in Request : req[r] = Idle /\ req'[r] = Idle
  BY <1>1 DEF IInv, HandlersStand
<1>7. HandlersStand'
  BY <1>6, Values DEF HandlersStand, LoginStands, AskedOfUser, UserPc, UserOps
<1>8. Rows'
  BY <1>1, <1>2, <1>3 DEF Rows
<1>9. \A u \in User : users[u].source = "none" /\ users'[u].source \in {"none", "local"}
  BY <1>2, <1>3
<1> QED
  BY <1>1, <1>5, <1>6, <1>7, <1>8, <1>9, Values, TablesKeep

----------------------------------------------------------------------------
(* The theorems.                                                            *)

LEMMA InitInvariant == Init => IInv
<1> SUFFICES ASSUME Init PROVE IInv
  OBVIOUS
<1>1. NoUser \in UserRow /\ Local(TRUE) \in UserRow /\ NoUser.source = "none" /\ Local(TRUE).source = "local"
  BY DEF NoUser, Local, UserRow
<1>2. \A u \in User : users[u] \in {NoUser, Local(TRUE)}
  BY DEF Init
<1>3. Tables /\ LocksHeld /\ req \in [Request -> Handler] /\ server = "starting"
  BY <1>1, Values DEF Init, Tables, LocksHeld
<1>4. TypeOK
  BY <1>3, Typed
<1>5. Rows
  BY <1>1, <1>2, <1>3 DEF Rows
<1>6. \A r \in Request : req[r] = Idle
  BY DEF Init
<1>7. HandlersStand
  BY <1>6, Values DEF HandlersStand, LoginStands, AskedOfUser, UserPc, UserOps
<1>8. \A s \in SessionId : ~ LiveSession(s)
  BY NoRowDead DEF Init, LiveSession
<1> QED
  BY <1>1, <1>2, <1>4, <1>5, <1>7, <1>8
  DEF IInv, SessionsOwned, LocalNeverByDirectory, ResetEndsSessions, MembershipIsASnapshot

LEMMA LoginStepKeeps == ASSUME IInv, NEW r \in Request, LoginStep(r) PROVE IInv'
  BY UpsertUserKeeps, LockGroupKeeps, UpsertCommitKeeps, UpsertAbortedKeeps, CreateSessionKeeps DEF LoginStep

LEMMA HandlerStepKeeps == ASSUME IInv, NEW r \in Request, HandlerStep(r) PROVE IInv'
  BY UpdateReadTargetKeeps, UpdateCountKeeps, UpdateUserKeeps, SetPasswordKeeps, DeleteSessionsKeeps,
     CreateLocalUserKeeps, UpdateLDAPKeeps, CreateTokenKeeps, RevokeTokenKeeps, LogoutKeeps DEF HandlerStep

LEMMA StepInvariant == IInv /\ [Next]_vars => IInv'
<1> SUFFICES ASSUME IInv, [Next]_vars PROVE IInv'
  OBVIOUS
<1>1. CASE CountUsers \/ CreateBootstrapAdmin \/ Restart
  BY <1>1, CountUsersKeeps, CreateBootstrapAdminKeeps, RestartKeeps
<1>2. ASSUME NEW r \in Request,
             \/ \E u \in User : LoginLocal(r, u)
             \/ \E typed, u \in User, g \in Snapshots : LoginDirectory(r, typed, u, g)
             \/ \E o \in Operations : \/ \E t \in TokenId : AuthenticateToken(r, t, o)
                                      \/ \E s \in SessionId : AuthenticateSession(r, s, o)
             \/ LoginStep(r) \/ HandlerStep(r) \/ ClientGone(r)
      PROVE  IInv'
  BY <1>2, LoginLocalKeeps, LoginDirectoryKeeps, AuthenticateTokenKeeps, AuthenticateSessionKeeps,
     LoginStepKeeps, HandlerStepKeeps, ClientGoneKeeps, AccountsAssumption
<1>3. CASE (\E s \in SessionId : ExpireSession(s)) \/ (\E t \in TokenId : ExpireToken(t))
  BY <1>3, ExpiryKeeps
<1>4. CASE UNCHANGED vars
  BY <1>4 DEF vars, dbVars, IInv, TypeOK, Rows, HandlersStand, LoginStands, SessionsOwned, LiveSession,
              LocalNeverByDirectory, ResetEndsSessions, MembershipIsASnapshot
<1> QED
  BY <1>1, <1>2, <1>3, <1>4 DEF Next

\* The inductive invariant, of which the rest are corollaries.
THEOREM Invariant == Spec => []IInv
<1>1. Init /\ [][Next]_vars => []IInv
  BY InitInvariant, StepInvariant, PTL
<1> QED
  BY <1>1, PTL DEF Spec

\* Tables and handlers keep their types, and rows are locked by open transactions only.
THEOREM TypeCorrect == Spec => []TypeOK
<1>1. IInv => TypeOK
  BY DEF IInv
<1> QED
  BY <1>1, Invariant, PTL

\* No interleaving of logins, administrators and restarts signs a local account in by the
\* directory (FindUserByUsername, authenticate, UpsertLDAPUser).
THEOREM LocalsStayLocal == Spec => []LocalNeverByDirectory
<1>1. IInv => LocalNeverByDirectory
  BY DEF IInv
<1> QED
  BY <1>1, Invariant, PTL

\* What a password reset leaves: sessions of the new password, those of logins that had
\* read the old one, and those whose DELETE was not carried out (setPassword).
THEOREM ResetsEndSessions == Spec => []ResetEndsSessions
<1>1. IInv => ResetEndsSessions
  BY DEF IInv
<1> QED
  BY <1>1, Invariant, PTL

\* However logins overlap, deadlock or are cut off, a user's groups are one listing of
\* the directory (UpsertLDAPUser).
THEOREM MembershipStands == Spec => []MembershipIsASnapshot
<1>1. IInv => MembershipIsASnapshot
  BY DEF IInv
<1> QED
  BY <1>1, Invariant, PTL

----------------------------------------------------------------------------
(* The last administrator.                                                  *)

\* Who is about to demote or disable somebody leaves another administrator, if there is one.
AnotherStands ==
    \A r \in Request : req[r].pc = "update" /\ (\E u \in User : Active(u)) =>
        \E u \in User \ {req[r].asks.user} : Active(u)

OnlyHandling == \A r \in Request : req[r].pc \in AskedPc => r \in Handling

AdminsStand == AnotherStands /\ OnlyHandling

\* The step of a handler that leaves every administrator in place and makes none, and does
\* not go on to an UPDATE that takes one away.
LEMMA AdminsKept ==
  ASSUME IInv, AdminsStand,
         \A u \in User : Active(u)' <=> Active(u),
         NEW r \in Request, NEW to, req' = [req EXCEPT ![r] = to],
         to.pc \notin AskedPc \/ (r \in Handling /\ to.pc # "update")
  PROVE  AdminsStand'
<1>t. req \in [Request -> Handler]
  BY Typed DEF IInv
<1>0. "update" \in AskedPc
  BY DEF AskedPc, UserPc
<1>1. req'[r] = to /\ \A q \in Request : q # r => req'[q] = req[q]
  BY <1>t
<1>2. AnotherStands'
  BY <1>0, <1>1 DEF AdminsStand, AnotherStands
<1>3. OnlyHandling'
  BY <1>1 DEF AdminsStand, OnlyHandling
<1> QED
  BY <1>2, <1>3 DEF AdminsStand

LEMMA NotAsked == {"idle", "upsert", "groups", "createSession"} \cap AskedPc = {}
  BY DEF AskedPc, UserPc, UserOps, OtherOps

\* A directory login fills a row that was nobody's with no administrator, and no other.
LEMMA LoginsKeepAdmins ==
  ASSUME IInv, AdminsStand, NEW r \in Request, LoginStep(r)
  PROVE  AdminsStand' /\ \A v \in User : Active(v)' <=> Active(v)
<1>t. Tables /\ req \in [Request -> Handler] /\ req[r] \in Handler
  BY Typed DEF IInv
<1>1. CASE UpsertUser(r)
  <2> DEFINE u == req[r].user
             to == [pc |-> "groups", user |-> u, groups |-> req[r].groups, left |-> req[r].groups]
  <2>1. users' = users
    BY <1>1 DEF UpsertUser
  <2>2. req' = [req EXCEPT ![r] = to] \/ req' = [req EXCEPT ![r] = Idle]
    BY <1>1 DEF UpsertUser, Ends
  <2>3. to.pc = "groups"
    OBVIOUS
  <2> HIDE DEF to
  <2>4. CASE req' = [req EXCEPT ![r] = to]
    BY <2>1, <2>3, <2>4, AdminsKept, NotAsked DEF Active
  <2>5. CASE req' = [req EXCEPT ![r] = Idle]
    BY <2>1, <2>5, AdminsKept, NotAsked, Values DEF Active
  <2> QED
    BY <2>2, <2>4, <2>5
<1>2. CASE LockGroup(r)
  <2> DEFINE to == [req[r] EXCEPT !.left = Tail(req[r].left)]
  <2>1. users' = users /\ req[r].pc = "groups"
    BY <1>2 DEF LockGroup
  <2>2. req' = [req EXCEPT ![r] = to]
    BY <1>2, <1>t DEF LockGroup
  <2>3. to.pc = "groups"
    BY <1>t, <2>1, Shapes DEF Locking
  <2> HIDE DEF to
  <2> QED
    BY <2>1, <2>2, <2>3, AdminsKept, NotAsked DEF Active
<1>3. CASE UpsertCommit(r)
  <2> DEFINE u == req[r].user
             to == [pc |-> "createSession", user |-> u, via |-> "ldap", hash |-> 0]
  <2>1. /\ users' = [users EXCEPT ![u] = IF users[u] = NoUser THEN FromDirectory ELSE users[u]]
        /\ req' = [req EXCEPT ![r] = to]
    BY <1>3 DEF UpsertCommit
  <2>3. to.pc = "createSession"
    OBVIOUS
  <2> HIDE DEF to
  <2>4. \A v \in User : Active(v)' <=> Active(v)
    <3> SUFFICES ASSUME NEW v \in User PROVE Active(v)' <=> Active(v)
      OBVIOUS
    <3>1. CASE users'[v] = users[v]
      BY <3>1 DEF Active
    <3>2. CASE users[v] = NoUser /\ users'[v] = FromDirectory
      BY <3>2 DEF Active, NoUser, FromDirectory
    <3> QED
      BY <1>t, <2>1, <3>1, <3>2 DEF Tables
  <2> QED
    BY <2>1, <2>3, <2>4, AdminsKept, NotAsked
<1>4. CASE UpsertAborted(r)
  BY <1>4, AdminsKept, NotAsked, Values DEF UpsertAborted, Ends, Active
<1>5. CASE CreateSession(r)
  BY <1>5, AdminsKept, NotAsked, Values DEF CreateSession, Ends, Active
<1> QED
  BY <1>1, <1>2, <1>3, <1>4, <1>5 DEF LoginStep

\* What is authenticated, and what ends unfinished, leaves the users alone.
LEMMA OthersKeepAdmins ==
  ASSUME IInv, AdminsStand, NEW r \in Request,
         \/ \E u \in User : LoginLocal(r, u)
         \/ \E typed, u \in User, g \in Snapshots : LoginDirectory(r, typed, u, g)
         \/ /\ r \in Handling
            /\ \E o \in Operations : \/ \E t \in TokenId : AuthenticateToken(r, t, o)
                                     \/ \E s \in SessionId : AuthenticateSession(r, s, o)
         \/ ClientGone(r)
  PROVE  AdminsStand' /\ users' = users
<1>1. ASSUME NEW to, Goes(r, to), to.pc \notin AskedPc \/ (r \in Handling /\ to.pc # "update")
      PROVE  AdminsStand' /\ users' = users
  BY <1>1, AdminsKept DEF Goes, dbVars, Active
<1>2. ASSUME NEW u \in User, LoginLocal(r, u) PROVE AdminsStand' /\ users' = users
  <2> DEFINE to == [pc |-> "createSession", user |-> u, via |-> "hash", hash |-> users[u].hash]
  <2>1. Goes(r, to) /\ to.pc = "createSession"
    BY <1>2 DEF LoginLocal
  <2> QED
    BY <1>1, <2>1, NotAsked
<1>3. ASSUME NEW typed \in User, NEW u \in User, NEW g \in Snapshots, LoginDirectory(r, typed, u, g)
      PROVE  AdminsStand' /\ users' = users
  <2> DEFINE to == [pc |-> "upsert", user |-> u, groups |-> g]
  <2>1. Goes(r, to) /\ to.pc = "upsert"
    BY <1>3 DEF LoginDirectory
  <2> QED
    BY <1>1, <2>1, NotAsked
<1>a. \A o \in Operations : o.op # "update"
  BY AccountsAssumption, OperationForms DEF UserOps, OtherOps
<1>4. ASSUME r \in Handling, NEW o \in Operations, NEW t \in TokenId, AuthenticateToken(r, t, o)
      PROVE  AdminsStand' /\ users' = users
  <2> DEFINE to == [pc |-> o.op, by |-> tokens[t].user, admin |-> users[tokens[t].user].admin, asks |-> o]
  <2>1. Goes(r, to) /\ to.pc = o.op
    BY <1>4 DEF AuthenticateToken
  <2> QED
    BY <1>1, <1>4, <1>a, <2>1
<1>5. ASSUME r \in Handling, NEW o \in Operations, NEW s \in SessionId, AuthenticateSession(r, s, o)
      PROVE  AdminsStand' /\ users' = users
  <2> DEFINE to == [pc |-> o.op, by |-> sessions[s].user, admin |-> users[sessions[s].user].admin,
                    asks |-> o, cookie |-> s]
  <2>1. Goes(r, to) /\ to.pc = o.op
    BY <1>5 DEF AuthenticateSession
  <2> QED
    BY <1>1, <1>5, <1>a, <2>1
<1>6. CASE ClientGone(r)
  BY <1>6, AdminsKept, NotAsked, Values DEF ClientGone, Ends, Active
<1> QED
  BY <1>2, <1>3, <1>4, <1>5, <1>6

\* The bootstrap administrator, and restarts.
LEMMA ServerKeepsAdmins ==
  ASSUME IInv, AdminsStand, CountUsers \/ CreateBootstrapAdmin \/ Restart
  PROVE  AdminsStand' /\ \A v \in User : Active(v) => Active(v)'
<1>1. CASE CountUsers
  BY <1>1 DEF CountUsers, dbVars, AdminsStand, AnotherStands, OnlyHandling, Active
<1>2. CASE CreateBootstrapAdmin
  <2>1. server = "empty" /\ req' = req
    BY <1>2 DEF CreateBootstrapAdmin
  <2>2. \A r \in Request : req[r] = Idle
    BY <2>1 DEF IInv, HandlersStand
  <2>3. AdminsStand'
    BY <2>1, <2>2, NotAsked, Values DEF AdminsStand, AnotherStands, OnlyHandling
  <2>4. \A v \in User : ~ Active(v)
    BY <2>1 DEF IInv, Rows, Active, NoUser
  <2> QED
    BY <2>3, <2>4
<1>3. CASE Restart
  <2>1. users' = users /\ \A r \in Request : req'[r] = Idle
    BY <1>3 DEF Restart
  <2>2. AdminsStand'
    BY <2>1, NotAsked, Values DEF AdminsStand, AnotherStands, OnlyHandling
  <2> QED
    BY <2>1, <2>2 DEF Active
<1> QED
  BY <1>1, <1>2, <1>3

\* Of two administrators one is not the user asked about.
LEMMA AnotherOfTwo ==
  ASSUME IsFiniteSet(User), NEW u, ActiveAdmins > 1
  PROVE  \E v \in User \ {u} : Active(v)
<1> DEFINE A == {v \in User : Active(v)}
<1>1. IsFiniteSet(A)
  BY FS_Subset
<1>2. ASSUME A \subseteq {u} PROVE FALSE
  <2>1. IsFiniteSet({u}) /\ Cardinality({u}) = 1
    BY FS_Singleton
  <2>2. Cardinality(A) <= 1 /\ Cardinality(A) \in Nat
    BY <1>1, <1>2, <2>1, FS_Subset, FS_CardinalityType
  <2> QED
    BY <2>2 DEF ActiveAdmins
<1> QED
  BY <1>2

\* A user who is promoted or enabled, and one whose password is set.
LEMMA Raised ==
  ASSUME NEW row \in UserRow
  PROVE  /\ [row EXCEPT !.admin = TRUE].admin /\ (row.enabled => [row EXCEPT !.admin = TRUE].enabled)
         /\ [row EXCEPT !.enabled = TRUE].enabled /\ (row.admin => [row EXCEPT !.enabled = TRUE].admin)
  BY DEF UserRow

\* The UPDATE of a handler that was not asked to take anything away, or that leaves another
\* administrator: what it found is there still, since no other handler is at work.
LEMMA UpdateLeavesAdmin ==
  ASSUME IInv, AdminsStand, NEW r \in Request, UpdateUser(r), req[r].pc # "unguarded", \E v \in User : Active(v)
  PROVE  \E v \in User : Active(v)'
<1> DEFINE u == req[r].asks.user
<1>t. Tables /\ req \in [Request -> Handler]
  BY Typed DEF IInv
<1>1. req[r].pc \in {"update", "promote", "enable"}
  BY DEF UpdateUser
<1>2. /\ u \in User /\ req[r].asks.op \in UserOps
      /\ req[r].pc = "promote" => req[r].asks.op = "promote"
      /\ req[r].pc = "enable" => req[r].asks.op = "enable"
      /\ req[r].pc = "update" => req[r].asks.op \in {"demote", "disable"}
  BY <1>1 DEF IInv, HandlersStand, AskedOfUser, UserPc, UserOps
<1>3. \A v \in User : v # u => users'[v] = users[v]
  <2> DEFINE row(op) == CASE op = "demote" -> [users EXCEPT ![u].admin = FALSE]
                          [] op = "promote" -> [users EXCEPT ![u].admin = TRUE]
                          [] op = "disable" -> [users EXCEPT ![u].enabled = FALSE]
                          [] op = "enable" -> [users EXCEPT ![u].enabled = TRUE]
  <2>1. users' = IF users[u] = NoUser THEN users ELSE row(req[r].asks.op)
    BY DEF UpdateUser
  <2>2. req[r].asks.op \in {"demote", "disable", "promote", "enable"}
    BY <1>1, <1>2
  <2> QED
    BY <1>t, <2>1, <2>2 DEF Tables
<1>4. ASSUME req[r].pc # "update", NEW v \in User, v = u, Active(v) PROVE Active(v)'
  <2>1. CASE users[u] = NoUser
    BY <1>4, <2>1 DEF Active, NoUser
  <2>2. CASE users[u] # NoUser /\ req[r].pc = "promote"
    <3>1. users' = [users EXCEPT ![u].admin = TRUE]
      BY <1>2, <2>2 DEF UpdateUser
    <3>2. users'[u] = [users[u] EXCEPT !.admin = TRUE] /\ users[u] \in UserRow
      BY <1>t, <1>2, <3>1 DEF Tables
    <3>3. users'[v].admin /\ (users[v].enabled => users'[v].enabled)
      BY <1>4, <3>2, Raised
    <3> QED
      BY <1>4, <3>3 DEF Active
  <2>3. CASE users[u] # NoUser /\ req[r].pc = "enable"
    <3>1. users' = [users EXCEPT ![u].enabled = TRUE]
      BY <1>2, <2>3 DEF UpdateUser
    <3>2. users'[u] = [users[u] EXCEPT !.enabled = TRUE] /\ users[u] \in UserRow
      BY <1>t, <1>2, <3>1 DEF Tables
    <3>3. users'[v].enabled /\ (users[v].admin => users'[v].admin)
      BY <1>4, <3>2, Raised
    <3> QED
      BY <1>4, <3>3 DEF Active
  <2> QED
    BY <1>1, <1>4, <2>1, <2>2, <2>3
<1>5. CASE req[r].pc = "update"
  <2>1. PICK v \in User \ {u} : Active(v)
    BY <1>5 DEF AdminsStand, AnotherStands
  <2> QED
    BY <1>3, <2>1 DEF Active
<1>6. CASE req[r].pc # "update"
  <2>1. PICK v \in User : Active(v)
    OBVIOUS
  <2>2. CASE v = u
    BY <1>4, <1>6, <2>1, <2>2
  <2>3. CASE v # u
    BY <1>3, <2>1, <2>3 DEF Active
  <2> QED
    BY <2>2, <2>3
<1> QED
  BY <1>5, <1>6

\* The guard of updateUser, asked for by one handler at a time.
LEMMA HandlersKeepAdmins ==
  ASSUME IsFiniteSet(User), \A q, r \in Handling : q = r, IInv, AdminsStand, NEW r \in Request, HandlerStep(r)
  PROVE  AdminsStand'
<1>t. Tables /\ req \in [Request -> Handler] /\ req[r] \in Handler
  BY Typed DEF IInv
<1>a. req[r].pc \in AskedPc
  BY DEF HandlerStep, UpdateReadTarget, UpdateCount, UpdateUser, SetPassword, DeleteSessions, CreateLocalUser,
         UpdateLDAP, CreateToken, RevokeToken, Logout, AskedPc, UserPc, UserOps, OtherOps
<1>b. r \in Handling /\ \A q \in Request : q # r => req[q].pc \notin AskedPc
  BY <1>a DEF AdminsStand, OnlyHandling
<1>c. ASSUME NEW to, req' = [req EXCEPT ![r] = to],
             to.pc = "update" /\ (\E u \in User : Active(u)') => \E u \in User : u # to.asks.user /\ Active(u)'
      PROVE  AdminsStand'
  <2>1. req'[r] = to /\ \A q \in Request : q # r => req'[q] = req[q]
    BY <1>t, <1>c
  <2>2. "update" \in AskedPc
    BY DEF AskedPc, UserPc
  <2>3. AnotherStands'
    BY <1>b, <1>c, <2>1, <2>2 DEF AnotherStands
  <2>4. OnlyHandling'
    BY <1>b, <2>1 DEF OnlyHandling
  <2> QED
    BY <2>3, <2>4 DEF AdminsStand
<1>d. ASSUME NEW pc \in {"count", "update", "unguarded", "deleteSessions"}
      PROVE  At(req[r], pc).pc = pc /\ At(req[r], pc).asks = req[r].asks
  BY <1>t, <1>a, GoesOn
<1>e. Idle.pc # "update"
  BY Values
<1>1. CASE UpdateReadTarget(r)
  <2>1. PICK pc \in {IF Active(req[r].asks.user) THEN "count" ELSE "update", "unguarded"} :
                Goes(r, At(req[r], pc))
    BY <1>1 DEF UpdateReadTarget, At
  <2>2. req' = [req EXCEPT ![r] = At(req[r], pc)] /\ users' = users
    BY <2>1 DEF Goes, dbVars
  <2>3. At(req[r], pc).pc = pc /\ At(req[r], pc).asks = req[r].asks
    BY <1>d
  <2>4. pc = "update" => ~ Active(req[r].asks.user)
    OBVIOUS
  <2>5. ASSUME At(req[r], pc).pc = "update", NEW u \in User, Active(u)'
        PROVE  u # At(req[r], pc).asks.user /\ Active(u)'
    BY <2>2, <2>3, <2>4, <2>5 DEF Active
  <2> QED
    BY <1>c, <2>2, <2>5
<1>2. CASE UpdateCount(r)
  <2>1. CASE ActiveAdmins <= 1
    BY <1>2, <1>c, <1>e, <2>1 DEF UpdateCount, Goes
  <2>2. CASE ~ (ActiveAdmins <= 1)
    <3>1. req' = [req EXCEPT ![r] = At(req[r], "update")] /\ users' = users
      BY <1>2, <2>2 DEF UpdateCount, At, Goes, dbVars
    <3>2. ActiveAdmins \in Nat
      BY FS_Subset, FS_CardinalityType DEF ActiveAdmins
    <3>3. PICK v \in User \ {req[r].asks.user} : Active(v)
      BY <2>2, <3>2, AnotherOfTwo
    <3>4. v # At(req[r], "update").asks.user /\ Active(v)'
      BY <1>d, <3>1, <3>3 DEF Active
    <3> QED
      BY <1>c, <3>1, <3>4
  <2> QED
    BY <2>1, <2>2
<1>3. CASE SetPassword(r)
  <2>1. req' = [req EXCEPT ![r] = At(req[r], "deleteSessions")] \/ req' = [req EXCEPT ![r] = Idle]
    BY <1>3, <1>t DEF SetPassword, Ends, At
  <2>2. At(req[r], "deleteSessions").pc # "update"
    BY <1>d
  <2> QED
    BY <1>c, <1>e, <2>1, <2>2
<1>4. CASE UpdateUser(r) \/ CreateLocalUser(r) \/ DeleteSessions(r) \/ UpdateLDAP(r) \/ Logout(r)
           \/ \E t \in TokenId : CreateToken(r, t) \/ RevokeToken(r, t)
  BY <1>4, <1>c, <1>e
     DEF UpdateUser, CreateLocalUser, DeleteSessions, UpdateLDAP, Logout, CreateToken, RevokeToken, Ends
<1> QED
  BY <1>1, <1>2, <1>3, <1>4 DEF HandlerStep

\* Every handler but an unguarded one leaves an administrator.
LEMMA HandlersLeaveAdmin ==
  ASSUME IInv, AdminsStand, NEW r \in Request, HandlerStep(r), \E v \in User : Active(v)
  PROVE  (\E v \in User : Active(v)') \/ (req[r].pc = "unguarded" /\ req'[r] = Idle)
<1>t. Tables /\ req \in [Request -> Handler]
  BY Typed DEF IInv
<1>1. CASE UpdateUser(r)
  BY <1>1, <1>t, UpdateLeavesAdmin DEF UpdateUser, Ends
<1>2. CASE SetPassword(r)
  <2>1. users' = users \/ users' = [users EXCEPT ![req[r].asks.user].hash = users[req[r].asks.user].hash + 1]
    BY <1>2 DEF SetPassword
  <2>2. \A v \in User : Active(v) => Active(v)'
    BY <1>t, <2>1 DEF Active, Tables, UserRow
  <2> QED
    BY <2>2
<1>3. CASE CreateLocalUser(r)
  <2> DEFINE u == req[r].asks.user
             admin == req[r].pc = "createAdmin"
  <2>1. users' = IF NameFree(u) THEN [users EXCEPT ![u] = Local(admin)] ELSE users
    BY <1>3 DEF CreateLocalUser
  <2>2. PICK v \in User : Active(v)
    OBVIOUS
  <2>3. users[v] # NoUser
    BY <2>2 DEF Active, NoUser
  <2>4. users'[v] = users[v]
    BY <1>t, <2>1, <2>3 DEF Tables, NameFree
  <2> QED
    BY <2>2, <2>4 DEF Active
<1>4. CASE UpdateReadTarget(r) \/ UpdateCount(r) \/ DeleteSessions(r) \/ UpdateLDAP(r) \/ Logout(r)
           \/ \E t \in TokenId : CreateToken(r, t) \/ RevokeToken(r, t)
  BY <1>4 DEF UpdateReadTarget, UpdateCount, DeleteSessions, UpdateLDAP, Logout, CreateToken, RevokeToken,
              Goes, dbVars, Active
<1> QED
  BY <1>1, <1>2, <1>3, <1>4 DEF HandlerStep

\* "The last administrator cannot be disabled or demoted" (error last_admin): with any
\* number of users, logins and restarts, so long as one authenticated request is at work at
\* a time, no step takes the only active administrator away but that of an updateUser whose
\* first query failed.  The run last_admin shows that the assumption is needed.
THEOREM LastAdministratorStays ==
  ASSUME IsFiniteSet(User), \A q, r \in Handling : q = r
  PROVE  Spec => LastAdminStays
<1> DEFINE Stays == (\E u \in User : Active(u)) =>
                       \/ \E u \in User : Active(u)'
                       \/ \E r \in Request : req[r].pc = "unguarded" /\ req'[r] = Idle
<1>1. Init => AdminsStand
  <2> SUFFICES ASSUME Init PROVE AdminsStand
    OBVIOUS
  <2>1. \A r \in Request : req[r] = Idle
    BY DEF Init
  <2> QED
    BY <2>1, NotAsked, Values DEF AdminsStand, AnotherStands, OnlyHandling
<1>2. IInv /\ AdminsStand /\ [Next]_vars => AdminsStand' /\ [Stays]_vars
  <2> SUFFICES ASSUME IInv, AdminsStand, [Next]_vars PROVE AdminsStand' /\ [Stays]_vars
    OBVIOUS
  <2>1. CASE UNCHANGED vars
    BY <2>1 DEF vars, dbVars, Active, AdminsStand, AnotherStands, OnlyHandling
  <2>2. CASE (\E s \in SessionId : ExpireSession(s)) \/ (\E t \in TokenId : ExpireToken(t))
    BY <2>2 DEF ExpireSession, ExpireToken, Active, AdminsStand, AnotherStands, OnlyHandling
  <2>3. ASSUME NEW r \in Request, LoginStep(r) PROVE AdminsStand' /\ Stays
    BY <2>3, LoginsKeepAdmins
  <2>4. ASSUME NEW r \in Request, HandlerStep(r) PROVE AdminsStand' /\ Stays
    BY <2>4, HandlersKeepAdmins, HandlersLeaveAdmin
  <2>5. CASE CountUsers \/ CreateBootstrapAdmin \/ Restart
    BY <2>5, ServerKeepsAdmins
  <2>6. ASSUME NEW r \in Request,
               \/ \E u \in User : LoginLocal(r, u)
               \/ \E typed, u \in User, g \in Snapshots : LoginDirectory(r, typed, u, g)
               \/ /\ r \in Handling
                  /\ \E o \in Operations : \/ \E t \in TokenId : AuthenticateToken(r, t, o)
                                           \/ \E s \in SessionId : AuthenticateSession(r, s, o)
               \/ ClientGone(r)
        PROVE  AdminsStand' /\ Stays
    BY <2>6, OthersKeepAdmins DEF Active
  <2> HIDE DEF Stays
  <2> QED
    BY <2>1, <2>2, <2>3, <2>4, <2>5, <2>6 DEF Next
<1>3. Init /\ [][Next]_vars /\ []IInv => [][Stays]_vars
  <2> HIDE DEF Stays
  <2> QED
    BY <1>1, <1>2, PTL
<1>4. Spec => Init /\ [][Next]_vars
  BY PTL DEF Spec
<1>5. Spec => [][Stays]_vars
  <2> HIDE DEF Stays
  <2> QED
    BY <1>3, <1>4, Invariant, PTL
<1> QED
  BY <1>5 DEF LastAdminStays

=============================================================================
