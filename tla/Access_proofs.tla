--------------------------- MODULE Access_proofs ---------------------------
(***************************************************************************)
(* Proofs about Access, for any users, policies, proxies, requests, rules, *)
(* resolver answers and redirect budget.                                   *)
(***************************************************************************)
EXTENDS Access, TLAPS

----------------------------------------------------------------------------
(* Type correctness.                                                        *)

\* A policy's row is well-formed, a deleted one included.
LEMMA RowType == TypeOK => \A p \in PolicyId : policy[p] \in Row
  <1>1. Absent \in Row /\ Deleted \in Row
    BY DEF Row, Absent, Deleted, Mode
  <1> QED
    BY <1>1, AccessAssumption DEF TypeOK

\* The queries' answers are truth values.
LEMMA QueriesAreBoolean ==
    /\ \A u, e : EgressOpen(u, e) \in BOOLEAN
    /\ \A u, t, A : Allows(u, t, A) \in BOOLEAN
  BY DEF EgressOpen, Allows, Evaluate

(***************************************************************************)
(* From the lookup to the end of a hop a request holds the addresses of    *)
(* one answer of the resolver, none of them hard-denied.  Types depend on  *)
(* it: what Dial connects to is an address only if there is one.           *)
(***************************************************************************)
Looked == {"policies", "rules", "egress", "dial", "upstream"}
HoldsAnswer == \A r \in Request : pc[r] \in Looked => Resolvable(addrs[r])

\* The initial states are well-typed and no lookup has been made.
LEMMA InitTyped == Init => TypeOK /\ HoldsAnswer
  <1> SUFFICES ASSUME Init PROVE TypeOK /\ HoldsAnswer
    OBVIOUS
  <1>1. <<>> \in Seq(Address)
    OBVIOUS
  <1> QED
    BY <1>1 DEF Init, TypeOK, HoldsAnswer, Looked

\* An administrator's edit keeps the database well-typed, and no assignment or
\* grant survives what it gives.
LEMMA EditTyped == TypeOK /\ Edit =>
    /\ policy' \in [PolicyId -> Content \cup {Absent, Deleted}]
    /\ assigned' \subseteq PolicyId \X Holder /\ \A a \in assigned' : policy'[a[1]] \in Content
    /\ member' \subseteq User \X Group
    /\ proxies' \in [Proxy -> {"enabled", "disabled", "deleted"}]
    /\ grants' \subseteq Holder \X Proxy /\ \A g \in grants' : proxies'[g[2]] # "deleted"
    /\ restricted' \in BOOLEAN /\ direct' \subseteq Holder
<1> DEFINE Typed ==
    /\ policy' \in [PolicyId -> Content \cup {Absent, Deleted}]
    /\ assigned' \subseteq PolicyId \X Holder /\ \A a \in assigned' : policy'[a[1]] \in Content
    /\ member' \subseteq User \X Group
    /\ proxies' \in [Proxy -> {"enabled", "disabled", "deleted"}]
    /\ grants' \subseteq Holder \X Proxy /\ \A g \in grants' : proxies'[g[2]] # "deleted"
    /\ restricted' \in BOOLEAN /\ direct' \subseteq Holder
<1> SUFFICES ASSUME TypeOK, Edit PROVE Typed
  OBVIOUS
<1>1. ASSUME NEW p \in PolicyId, SavePolicy(p) PROVE Typed
  BY <1>1 DEF TypeOK, SavePolicy
<1>2. ASSUME NEW p \in PolicyId, DeletePolicy(p) PROVE Typed
  BY <1>2 DEF TypeOK, DeletePolicy, Unassigned
<1>3. ASSUME NEW h \in Holder, AssignPolicies(h) PROVE Typed
  BY <1>3 DEF TypeOK, AssignPolicies
<1>4. ASSUME NEW u \in User, SyncGroups(u) PROVE Typed
  BY <1>4 DEF TypeOK, SyncGroups
<1>5. ASSUME NEW x \in Proxy, GrantProxy(x) PROVE Typed
  BY <1>5 DEF TypeOK, GrantProxy, Holder
<1>6. ASSUME NEW x \in Proxy, SwitchProxy(x) PROVE Typed
  BY <1>6 DEF TypeOK, SwitchProxy
<1>7. ASSUME NEW x \in Proxy, DeleteProxy(x) PROVE Typed
  BY <1>7 DEF TypeOK, DeleteProxy
<1>8. CASE SetDirectRestricted \/ AssignDirect
  BY <1>8 DEF TypeOK, SetDirectRestricted, AssignDirect, Holder
<1> QED
  BY <1>1, <1>2, <1>3, <1>4, <1>5, <1>6, <1>7, <1>8 DEF Edit

\* Every step keeps the types, given that what is dialled was looked up.
LEMMA StepTyped == TypeOK /\ HoldsAnswer /\ [Next]_vars => TypeOK'
<1> SUFFICES ASSUME TypeOK, HoldsAnswer, [Next]_vars PROVE TypeOK'
  OBVIOUS
<1> USE DEF Goto, Disconnect
<1>1. CASE Administer
  <2>1. /\ steady' \in [Request -> SUBSET PolicyId]
        /\ opened' \in [Request -> BOOLEAN] /\ permitted' \in [Request -> BOOLEAN]
    <3>1. \A r \in Request : (opened[r] \/ EgressOpen(who[r], via[r])') \in BOOLEAN
      OBVIOUS
    <3> QED
      BY <1>1, <3>1 DEF TypeOK, Administer, Observe
  <2> QED
    BY <1>1, <2>1, EditTyped DEF TypeOK, Administer, Observe, routeVars, hopVars
<1>2. ASSUME NEW r \in Request, Begin(r) PROVE TypeOK'
  BY <1>2, QueriesAreBoolean DEF TypeOK, Begin, HopBegins, dbVars, routeVars, hopVars
<1>3. ASSUME NEW r \in Request, Resolve(r) PROVE TypeOK'
  <2>1. PICK s \in Answers : /\ addrs' = [addrs EXCEPT ![r] = s]
                            /\ permitted' = [permitted EXCEPT ![r] = Allows(who[r], target[r], AddressSet(s))]
    BY <1>3 DEF Resolve
  <2> QED
    BY <1>3, <2>1, QueriesAreBoolean, AccessAssumption DEF TypeOK, Resolve, dbVars, routeVars
<1>4. ASSUME NEW r \in Request, ReadPolicies(r) PROVE TypeOK'
  <2>1. {[id |-> p, mode |-> policy[p].mode] : p \in InEffect(who[r])} \in SUBSET [id : PolicyId, mode : Mode]
    <3>1. \A p \in PolicyId : policy[p].mode \in Mode
      BY RowType DEF Row
    <3>2. \A p \in InEffect(who[r]) : [id |-> p, mode |-> policy[p].mode] \in [id : PolicyId, mode : Mode]
      BY <3>1 DEF InEffect
    <3> QED
      BY <3>2
  <2> QED
    BY <1>4, <2>1 DEF TypeOK, ReadPolicies, dbVars, routeVars, ghostVars
<1>5. ASSUME NEW r \in Request, ReadRules(r) PROVE TypeOK'
  <2>1. PICK p \in todo[r] :
           /\ todo' = [todo EXCEPT ![r] = @ \ {p}]
           /\ read' = [read EXCEPT ![r] = @ \cup
                          {[id |-> p.id, mode |-> p.mode, rules |-> policy[p.id].rules]}]
    BY <1>5 DEF ReadRules
  <2>2. p \in [id : PolicyId, mode : Mode]
    BY DEF TypeOK
  <2>3. [id |-> p.id, mode |-> p.mode, rules |-> policy[p.id].rules]
           \in [id : PolicyId, mode : Mode, rules : SUBSET Rule]
    BY <2>2, RowType DEF Row
  <2> QED
    BY <1>5, <2>1, <2>3 DEF TypeOK, ReadRules, dbVars, routeVars, ghostVars
<1>6. ASSUME NEW r \in Request, Decide(r) \/ CheckEgress(r) PROVE TypeOK'
  BY <1>6 DEF TypeOK, Decide, CheckEgress, AfterAuthorize, dbVars, routeVars, hopVars, ghostVars
<1>7. ASSUME NEW r \in Request, Dial(r) PROVE TypeOK'
  <2>1. addrs[r][1] \in Address
    BY <1>7 DEF TypeOK, HoldsAnswer, Looked, Resolvable, Dial
  <2> QED
    BY <1>7, <2>1 DEF TypeOK, Dial, Pinned, dbVars, routeVars, ghostVars
<1>8. ASSUME NEW r \in Request, Answered(r) \/ Fails(r) PROVE TypeOK'
  BY <1>8 DEF TypeOK, Answered, Fails, dbVars, routeVars, ghostVars
<1>11. ASSUME NEW r \in Request, HandshakeRedirected(r) PROVE TypeOK'
  BY <1>11 DEF TypeOK, HandshakeRedirected, dbVars, routeVars, ghostVars
<1>9. ASSUME NEW r \in Request, Redirected(r) PROVE TypeOK'
  BY <1>9, QueriesAreBoolean
     DEF TypeOK, Redirected, HopBegins, AfterRedirect, HopsAfter, dbVars, routeVars
<1>10. CASE UNCHANGED vars
  BY <1>10 DEF TypeOK, vars, dbVars, routeVars, hopVars, ghostVars
<1> QED
  BY <1>1, <1>2, <1>3, <1>4, <1>5, <1>6, <1>7, <1>8, <1>9, <1>10, <1>11 DEF Next, Step

\* A request in the pipeline keeps the answer of its last lookup.
LEMMA StepHoldsAnswer == TypeOK /\ HoldsAnswer /\ [Next]_vars => HoldsAnswer'
<1> SUFFICES ASSUME TypeOK, HoldsAnswer, [Next]_vars PROVE HoldsAnswer'
  OBVIOUS
<1> USE DEF Goto, HoldsAnswer, Looked, Disconnect
<1>1. CASE Administer
  BY <1>1 DEF Administer, Observe, hopVars, Resolvable
<1>2. ASSUME NEW r \in Request, Resolve(r) PROVE HoldsAnswer'
  BY <1>2 DEF TypeOK, Resolve, Resolved, Resolvable
<1>3. ASSUME NEW r \in Request, Begin(r) \/ Answered(r) \/ Fails(r) \/ Redirected(r)
      PROVE  HoldsAnswer'
  BY <1>3 DEF TypeOK, Begin, Answered, Fails, Redirected, AfterRedirect, hopVars, Resolvable
<1>4. ASSUME NEW r \in Request,
             ReadPolicies(r) \/ ReadRules(r) \/ Decide(r) \/ CheckEgress(r) \/ Dial(r)
                \/ HandshakeRedirected(r)
      PROVE  HoldsAnswer'
  BY <1>4 DEF TypeOK, ReadPolicies, ReadRules, Decide, CheckEgress, Dial, AfterAuthorize,
              HandshakeRedirected,
              hopVars, Resolvable
<1>5. CASE UNCHANGED vars
  BY <1>5 DEF vars, hopVars, Resolvable
<1> QED
  BY <1>1, <1>2, <1>3, <1>4, <1>5 DEF Next, Step

\* Every variable keeps its type, whatever requests and administrators do.
THEOREM TypeCorrect == Spec => []TypeOK
<1>1. Spec => [](TypeOK /\ HoldsAnswer)
  BY InitTyped, StepTyped, StepHoldsAnswer, PTL DEF Spec
<1> QED
  BY <1>1, PTL

----------------------------------------------------------------------------
(***************************************************************************)
(* The safety invariants are not inductive: that a connection respects the *)
(* policies says nothing of the policies still being read.  The            *)
(* strengthening follows the pipeline.  Of a policy unedited since the hop *)
(* began and in effect, the record read or still to be completed is the    *)
(* row as it stands (ReadsFaithful); once decided, such policies let the   *)
(* target pass (Passed); the connection is to the pinned address           *)
(* (Connected); an egress open now was open at some moment of the hop      *)
(* (OpenCounted), and beyond its check it was (OpenedEgress).              *)
(***************************************************************************)
Standing(r) == steady[r] \cap InEffect(who[r])
NoneEver(r) == steady[r] = PolicyId /\ InEffect(who[r]) = {}

ReadsFaithful ==
    \A r \in Request : pc[r] = "rules" =>
        /\ \A p \in Standing(r) :
              \/ [id |-> p, mode |-> policy[p].mode] \in todo[r]
              \/ [id |-> p, mode |-> policy[p].mode, rules |-> policy[p].rules] \in read[r]
        /\ NoneEver(r) => todo[r] = {} /\ read[r] = {}

Passed ==
    \A r \in Request : pc[r] \in {"egress", "dial", "upstream"} =>
        /\ \A p \in Standing(r) : ~Denies(policy[p], target[r], AddressSet(addrs[r]))
        /\ ~NoneEver(r)

Connected ==
    \A r \in Request : conn[r] # {} => pc[r] = "upstream" /\ conn[r] = {addrs[r][1]}

OpenCounted == \A r \in Request : pc[r] # "idle" /\ EgressOpen(who[r], via[r]) => opened[r]
OpenedEgress == \A r \in Request : pc[r] \in {"dial", "upstream"} => opened[r]

IInv == TypeOK /\ HoldsAnswer /\ ReadsFaithful /\ Passed /\ Connected /\ OpenCounted /\ OpenedEgress

Actor(r) == Begin(r) \/ Step(r) \/ HandshakeRedirected(r)

\* A request's own steps change neither the database nor its route, and nothing
\* of another request.
LEMMA ActorsAreLocal ==
  ASSUME TypeOK, NEW r \in Request, Actor(r)
  PROVE  /\ UNCHANGED <<dbVars, routeVars>>
         /\ \A q \in Request \ {r} :
               /\ pc'[q] = pc[q] /\ target'[q] = target[q] /\ addrs'[q] = addrs[q]
               /\ todo'[q] = todo[q] /\ read'[q] = read[q] /\ conn'[q] = conn[q]
               /\ steady'[q] = steady[q] /\ opened'[q] = opened[q]
<1> USE DEF TypeOK, Goto, Disconnect, HopBegins, routeVars, dbVars, hopVars, ghostVars
<1>1. CASE Begin(r)
  BY <1>1 DEF Begin
<1>2. CASE Resolve(r) \/ ReadPolicies(r) \/ ReadRules(r)
  BY <1>2 DEF Resolve, ReadPolicies, ReadRules
<1>3. CASE Decide(r) \/ CheckEgress(r) \/ Dial(r)
  BY <1>3 DEF Decide, CheckEgress, Dial
<1>4. CASE Answered(r) \/ Redirected(r) \/ Fails(r) \/ HandshakeRedirected(r)
  BY <1>4 DEF Answered, Redirected, Fails, HandshakeRedirected
<1> QED
  BY <1>1, <1>2, <1>3, <1>4 DEF Actor, Step

\* While the database stays the same, so do its answers.
LEMMA QueriesStable ==
  ASSUME UNCHANGED <<dbVars, routeVars>>
  PROVE  /\ policy' = policy /\ who' = who /\ via' = via
         /\ \A u : InEffect(u)' = InEffect(u)
  BY DEF dbVars, routeVars, InEffect, Holds

\* What an edit leaves standing for a hop was standing before, with the same row.
LEMMA EditsSpareTheSteady ==
  ASSUME TypeOK, Administer, NEW r \in Request
  PROVE  /\ \A p \in Standing(r)' : p \in Standing(r) /\ policy'[p] = policy[p]
         /\ NoneEver(r)' => NoneEver(r)
<1>1. steady'[r] = {p \in steady[r] : Unchanged(p, who[r])} /\ who' = who
  BY DEF Administer, Observe, routeVars
<1>2. \A p \in Standing(r)' : p \in Standing(r) /\ policy'[p] = policy[p]
  BY <1>1 DEF Standing, Unchanged
<1>3. ASSUME NoneEver(r)' PROVE NoneEver(r)
  <2>1. PolicyId \subseteq steady[r] /\ \A p \in PolicyId : Unchanged(p, who[r])
    BY <1>1, <1>3 DEF NoneEver
  <2>2. \A p \in PolicyId : p \notin InEffect(who[r])
    BY <1>1, <1>3, <2>1 DEF NoneEver, Unchanged
  <2>3. InEffect(who[r]) \subseteq PolicyId
    BY DEF InEffect
  <2> QED
    BY <2>1, <2>2, <2>3 DEF NoneEver, TypeOK
<1> QED
  BY <1>2, <1>3

(***************************************************************************)
(* Preservation.  Each lemma takes the administrators' steps first, which  *)
(* leave requests alone, then the steps of the request that acts, which    *)
(* leave the database and the other requests alone.                        *)
(***************************************************************************)
\* Reading policies one query at a time still collects every unedited policy.
LEMMA StepReadsFaithful == TypeOK /\ ReadsFaithful /\ [Next]_vars => ReadsFaithful'
<1> SUFFICES ASSUME TypeOK, ReadsFaithful, [Next]_vars, NEW q \in Request, pc'[q] = "rules"
             PROVE  /\ \A p \in Standing(q)' :
                          \/ [id |-> p, mode |-> policy'[p].mode] \in todo'[q]
                          \/ [id |-> p, mode |-> policy'[p].mode, rules |-> policy'[p].rules] \in read'[q]
                    /\ NoneEver(q)' => todo'[q] = {} /\ read'[q] = {}
  BY DEF ReadsFaithful
<1>1. CASE Administer
  <2>1. pc' = pc /\ todo' = todo /\ read' = read
    BY <1>1 DEF Administer, Observe, hopVars
  <2> QED
    BY <1>1, <2>1, EditsSpareTheSteady DEF ReadsFaithful
<1>2. ASSUME NEW r \in Request, Actor(r), steady'[q] = steady[q], pc[q] = "rules",
             todo'[q] = todo[q], read'[q] = read[q]
      PROVE  /\ \A p \in Standing(q)' :
                   \/ [id |-> p, mode |-> policy'[p].mode] \in todo'[q]
                   \/ [id |-> p, mode |-> policy'[p].mode, rules |-> policy'[p].rules] \in read'[q]
             /\ NoneEver(q)' => todo'[q] = {} /\ read'[q] = {}
  <2>1. policy' = policy /\ InEffect(who[q])' = InEffect(who[q]) /\ who' = who
    BY <1>2, ActorsAreLocal, QueriesStable
  <2>2. Standing(q)' = Standing(q) /\ NoneEver(q)' = NoneEver(q)
    BY <1>2, <2>1 DEF Standing, NoneEver
  <2> QED
    BY <1>2, <2>1, <2>2 DEF ReadsFaithful
<1>3. ASSUME NEW r \in Request, r # q, Actor(r)
      PROVE  steady'[q] = steady[q] /\ pc[q] = "rules" /\ todo'[q] = todo[q] /\ read'[q] = read[q]
  BY <1>3, ActorsAreLocal
<1>4. CASE ReadPolicies(q)
  <2>1. todo'[q] = {[id |-> p, mode |-> policy[p].mode] : p \in InEffect(who[q])} /\ read'[q] = {}
    BY <1>4 DEF TypeOK, ReadPolicies
  <2>2. policy' = policy /\ InEffect(who[q])' = InEffect(who[q]) /\ who' = who
    BY <1>4, QueriesStable DEF ReadPolicies
  <2> QED
    BY <2>1, <2>2 DEF Standing, NoneEver
<1>5. CASE ReadRules(q)
  <2>1. PICK p \in todo[q] :
           /\ todo' = [todo EXCEPT ![q] = @ \ {p}]
           /\ read' = [read EXCEPT ![q] = @ \cup
                          {[id |-> p.id, mode |-> p.mode, rules |-> policy[p.id].rules]}]
    BY <1>5 DEF ReadRules
  <2>2. policy' = policy /\ InEffect(who[q])' = InEffect(who[q]) /\ who' = who
    BY <1>5, QueriesStable DEF ReadRules
  <2>3. Standing(q)' = Standing(q) /\ NoneEver(q)' = NoneEver(q) /\ pc[q] = "rules"
    BY <1>5, <2>2 DEF Standing, NoneEver, ReadRules, ghostVars
  <2>4. todo'[q] = todo[q] \ {p}
        /\ read'[q] = read[q] \cup {[id |-> p.id, mode |-> p.mode, rules |-> policy[p.id].rules]}
    BY <2>1 DEF TypeOK
  <2>5. todo[q] # {}
    BY <2>1
  <2>6. ASSUME NEW o \in Standing(q), [id |-> o, mode |-> policy[o].mode] = p
        PROVE  [id |-> o, mode |-> policy[o].mode, rules |-> policy[o].rules] \in read'[q]
    BY <2>4, <2>6
  <2> QED
    BY <2>2, <2>3, <2>4, <2>5, <2>6 DEF ReadsFaithful
<1>6. ASSUME Begin(q) \/ Resolve(q) \/ Decide(q) \/ CheckEgress(q) \/ Dial(q) \/ Answered(q)
                \/ Redirected(q) \/ Fails(q) \/ HandshakeRedirected(q)
      PROVE  FALSE
  BY <1>6 DEF TypeOK, Begin, Resolve, Decide, CheckEgress, Dial, Answered, Redirected, Fails,
              HandshakeRedirected, Goto, AfterAuthorize, AfterRedirect
<1>7. CASE UNCHANGED vars
  BY <1>7 DEF ReadsFaithful, Standing, NoneEver, InEffect, Holds, vars, dbVars, routeVars, hopVars, ghostVars
<1> QED
  BY <1>1, <1>2, <1>3, <1>4, <1>5, <1>6, <1>7 DEF Next, Actor, Step

\* Two records of the same mode and rules decide alike.
LEMMA DenialByContent ==
  \A p, o, t, A : p.mode = o.mode /\ p.rules = o.rules => (Denies(p, t, A) <=> Denies(o, t, A))
  BY DEF Denies

\* From the decision to the connection, unedited policies let the target pass.
LEMMA StepPassed == TypeOK /\ ReadsFaithful /\ Passed /\ [Next]_vars => Passed'
<1> DEFINE Beyond == {"egress", "dial", "upstream"}
           Fine(q) == /\ \A p \in Standing(q) : ~Denies(policy[p], target[q], AddressSet(addrs[q]))
                      /\ ~NoneEver(q)
<1> SUFFICES ASSUME TypeOK, ReadsFaithful, Passed, [Next]_vars, NEW q \in Request, pc'[q] \in Beyond
             PROVE  Fine(q)'
  BY DEF Passed
<1>1. CASE Administer
  <2>1. pc' = pc /\ target' = target /\ addrs' = addrs
    BY <1>1 DEF Administer, Observe, hopVars
  <2>2. Fine(q)
    BY <2>1 DEF Passed
  <2>3. /\ \A p \in Standing(q)' : p \in Standing(q) /\ policy'[p] = policy[p]
        /\ NoneEver(q)' => NoneEver(q)
    BY <1>1, EditsSpareTheSteady
  <2>4. ASSUME NEW p \in Standing(q)' PROVE ~Denies(policy'[p], target'[q], AddressSet(addrs'[q]))
    <3>1. p \in Standing(q) /\ policy'[p] = policy[p]
      BY <2>3, <2>4
    <3> QED
      BY <2>1, <2>2, <3>1
  <2> QED
    BY <2>2, <2>3, <2>4
<1>2. ASSUME NEW r \in Request, Actor(r), steady'[q] = steady[q], target'[q] = target[q],
             addrs'[q] = addrs[q], Fine(q)
      PROVE  Fine(q)'
  <2>1. policy' = policy /\ InEffect(who[q])' = InEffect(who[q]) /\ who' = who
    BY <1>2, ActorsAreLocal, QueriesStable
  <2>2. Standing(q)' = Standing(q) /\ NoneEver(q)' = NoneEver(q)
    BY <1>2, <2>1 DEF Standing, NoneEver
  <2> QED
    BY <1>2, <2>1, <2>2
<1>3. ASSUME NEW r \in Request, r # q, Actor(r) PROVE Fine(q)'
  <2>1. pc[q] \in Beyond /\ steady'[q] = steady[q] /\ target'[q] = target[q] /\ addrs'[q] = addrs[q]
    BY <1>3, ActorsAreLocal
  <2> QED
    BY <1>2, <1>3, <2>1 DEF Passed
<1>4. CASE Decide(q)
  <2>1. /\ Evaluate(read[q], target[q], AddressSet(addrs[q])) /\ todo[q] = {} /\ pc[q] = "rules"
        /\ steady' = steady /\ target' = target /\ addrs' = addrs
    BY <1>4 DEF TypeOK, Decide, Goto, hopVars, ghostVars
  <2>2. ASSUME NEW p \in Standing(q) PROVE ~Denies(policy[p], target[q], AddressSet(addrs[q]))
    <3>1. [id |-> p, mode |-> policy[p].mode, rules |-> policy[p].rules] \in read[q]
      BY <2>1, <2>2 DEF ReadsFaithful
    <3> QED
      BY <2>1, <3>1, DenialByContent DEF Evaluate
  <2>3. ~NoneEver(q)
    BY <2>1 DEF ReadsFaithful, Evaluate
  <2> QED
    BY <1>2, <1>4, <2>1, <2>2, <2>3 DEF Actor, Step
<1>5. CASE CheckEgress(q) \/ Dial(q) \/ HandshakeRedirected(q)
  <2>1. pc[q] \in Beyond /\ steady'[q] = steady[q] /\ target'[q] = target[q] /\ addrs'[q] = addrs[q]
    BY <1>5 DEF CheckEgress, Dial, HandshakeRedirected, Goto, hopVars, ghostVars
  <2> QED
    BY <1>2, <1>5, <2>1 DEF Passed, Actor, Step
<1>6. ASSUME Begin(q) \/ Resolve(q) \/ ReadPolicies(q) \/ ReadRules(q) \/ Answered(q)
                \/ Redirected(q) \/ Fails(q)
      PROVE  FALSE
  BY <1>6 DEF TypeOK, Begin, Resolve, ReadPolicies, ReadRules, Answered, Redirected, Fails,
              Goto, AfterRedirect
<1>7. CASE UNCHANGED vars
  BY <1>7 DEF Passed, Standing, NoneEver, InEffect, Holds, vars, dbVars, routeVars, hopVars, ghostVars
<1> QED
  BY <1>1, <1>3, <1>4, <1>5, <1>6, <1>7 DEF Next, Actor, Step

\* A connection is to the first address of the hop's own lookup.
LEMMA StepConnected == TypeOK /\ Connected /\ [Next]_vars => Connected'
<1> SUFFICES ASSUME TypeOK, Connected, [Next]_vars, NEW q \in Request, conn'[q] # {}
             PROVE  pc'[q] = "upstream" /\ conn'[q] = {addrs'[q][1]}
  BY DEF Connected
<1>1. CASE Administer
  BY <1>1 DEF Connected, Administer, Observe, hopVars
<1>2. ASSUME NEW r \in Request, r # q, Actor(r) PROVE pc'[q] = "upstream" /\ conn'[q] = {addrs'[q][1]}
  BY <1>2, ActorsAreLocal DEF Connected
<1>3. CASE Dial(q)
  BY <1>3 DEF TypeOK, Dial, Goto, Pinned
<1>4. CASE HandshakeRedirected(q)
  BY <1>4 DEF Connected, HandshakeRedirected
<1>5. ASSUME Answered(q) \/ Redirected(q) \/ Fails(q) PROVE FALSE
  BY <1>5 DEF TypeOK, Answered, Redirected, Fails, Disconnect
<1>6. ASSUME Begin(q) \/ Resolve(q) \/ ReadPolicies(q) \/ ReadRules(q) \/ Decide(q) \/ CheckEgress(q)
      PROVE FALSE
  BY <1>6 DEF Connected, Begin, Resolve, ReadPolicies, ReadRules, Decide, CheckEgress, Goto, hopVars
<1>7. CASE UNCHANGED vars
  BY <1>7 DEF Connected, vars, hopVars
<1> QED
  BY <1>1, <1>2, <1>3, <1>4, <1>5, <1>6, <1>7 DEF Next, Actor, Step

\* Whenever an egress is open during a hop, the hop's history says so.
LEMMA StepOpenCounted == TypeOK /\ OpenCounted /\ [Next]_vars => OpenCounted'
<1> SUFFICES ASSUME TypeOK, OpenCounted, [Next]_vars, NEW q \in Request,
                    pc'[q] # "idle", EgressOpen(who[q], via[q])'
             PROVE  opened'[q]
  BY DEF OpenCounted
<1>1. CASE Administer
  BY <1>1 DEF Administer, Observe
<1>2. ASSUME NEW r \in Request, Actor(r), pc[q] # "idle", opened'[q] = opened[q] PROVE opened'[q]
  <2> UNCHANGED <<dbVars, routeVars>>
    BY <1>2, ActorsAreLocal
  <2>1. EgressOpen(who[q], via[q])' = EgressOpen(who[q], via[q])
    BY DEF EgressOpen, Holds, dbVars, routeVars
  <2> QED
    BY <1>2, <2>1 DEF OpenCounted
<1>3. ASSUME NEW r \in Request, r # q, Actor(r) PROVE opened'[q]
  <2>1. pc[q] # "idle" /\ opened'[q] = opened[q]
    BY <1>3, ActorsAreLocal
  <2> QED
    BY <1>2, <1>3, <2>1
<1>4. CASE Begin(q) \/ Redirected(q)
  <2>1. opened'[q] = EgressOpen(who[q], via[q])
    BY <1>4 DEF TypeOK, Begin, Redirected, HopBegins
  <2>2. EgressOpen(who[q], via[q])' = EgressOpen(who[q], via[q])
    BY <1>4 DEF Begin, Redirected, EgressOpen, Holds, dbVars, routeVars
  <2> QED
    BY <2>1, <2>2
<1>5. CASE Step(q) \/ HandshakeRedirected(q)
  <2>1. CASE Redirected(q)
    BY <1>4, <2>1
  <2>2. CASE ~Redirected(q)
    <3>1. pc[q] # "idle" /\ opened'[q] = opened[q]
      BY <1>5, <2>2 DEF Step, Resolve, ReadPolicies, ReadRules, Decide, CheckEgress, Dial, Answered,
                        Fails, HandshakeRedirected, Goto, ghostVars
    <3> QED
      BY <1>2, <1>5, <3>1 DEF Actor
  <2> QED
    BY <2>1, <2>2
<1>6. CASE UNCHANGED vars
  BY <1>6 DEF OpenCounted, EgressOpen, Holds, vars, dbVars, routeVars, ghostVars
<1> QED
  BY <1>1, <1>3, <1>4, <1>5, <1>6 DEF Next, Actor

\* A request gets beyond the egress check only if the egress was open.
LEMMA StepOpenedEgress == TypeOK /\ OpenCounted /\ OpenedEgress /\ [Next]_vars => OpenedEgress'
<1> SUFFICES ASSUME TypeOK, OpenCounted, OpenedEgress, [Next]_vars, NEW q \in Request,
                    pc'[q] \in {"dial", "upstream"}
             PROVE  opened'[q]
  BY DEF OpenedEgress
<1>1. CASE Administer
  <2>1. opened[q]
    BY <1>1 DEF OpenedEgress, Administer, Observe
  <2> QED
    BY <1>1, <2>1 DEF Administer, Observe
<1>2. ASSUME NEW r \in Request, r # q, Actor(r) PROVE opened'[q]
  BY <1>2, ActorsAreLocal DEF OpenedEgress
<1>3. CASE CheckEgress(q)
  BY <1>3 DEF TypeOK, OpenCounted, CheckEgress, Goto, ghostVars
<1>4. CASE Dial(q) \/ HandshakeRedirected(q)
  BY <1>4 DEF OpenedEgress, Dial, HandshakeRedirected, Goto, ghostVars
<1>5. ASSUME Begin(q) \/ Resolve(q) \/ ReadPolicies(q) \/ ReadRules(q) \/ Decide(q)
                \/ Answered(q) \/ Redirected(q) \/ Fails(q)
      PROVE  FALSE
  BY <1>5 DEF TypeOK, Begin, Resolve, ReadPolicies, ReadRules, Decide, Answered, Redirected, Fails,
              Goto, AfterAuthorize, AfterRedirect
<1>6. CASE UNCHANGED vars
  BY <1>6 DEF OpenedEgress, vars, ghostVars
<1> QED
  BY <1>1, <1>2, <1>3, <1>4, <1>5, <1>6 DEF Next, Actor, Step

\* At the start no request is anywhere in the pipeline.
LEMMA InitIInv == Init => IInv
<1> SUFFICES ASSUME Init PROVE IInv
  OBVIOUS
<1>1. ReadsFaithful /\ Passed /\ Connected /\ OpenCounted /\ OpenedEgress
  BY DEF Init, ReadsFaithful, Passed, Connected, OpenCounted, OpenedEgress
<1> QED
  BY <1>1, InitTyped DEF IInv

\* The strengthened invariant, of which the safety properties are consequences.
THEOREM Invariant == Spec => []IInv
<1>1. IInv /\ [Next]_vars => IInv'
  BY StepTyped, StepHoldsAnswer, StepReadsFaithful, StepPassed, StepConnected, StepOpenCounted,
     StepOpenedEgress DEF IInv
<1> QED
  BY <1>1, InitIInv, PTL DEF Spec

\* Except for whitelists, a policy that denies some of the addresses denies all
\* of them together.
LEMMA DenialMonotone ==
  ASSUME NEW p, NEW t, NEW A, NEW B \in SUBSET A, p.mode # "whitelist", Denies(p, t, B)
  PROVE  Denies(p, t, A)
<1>1. MatchesAny(p.rules, t, B) => MatchesAny(p.rules, t, A)
  BY DEF MatchesAny, Matches
<1>2. B \cap NonPublic # {} => A \cap NonPublic # {}
  OBVIOUS
<1> QED
  BY <1>1, <1>2 DEF Denies

\* A connection respects every policy in effect and unedited since its hop began,
\* whatever is edited, resolved and redirected meanwhile.
THEOREM DialsRespectPolicies == Spec => []DialRespectsPolicies
<1>1. IInv => DialRespectsPolicies
  <2> SUFFICES ASSUME IInv, NEW r \in Request, NEW a \in conn[r]
               PROVE  /\ a \notin HardDenied
                      /\ \A p \in Standing(r) :
                            ~Denies(policy[p], target[r],
                                    IF policy[p].mode = "whitelist" THEN AddressSet(addrs[r]) ELSE {a})
                      /\ ~NoneEver(r)
    BY DEF DialRespectsPolicies, Standing, NoneEver
  <2>1. pc[r] = "upstream" /\ a = addrs[r][1]
    BY DEF IInv, Connected
  <2>2. addrs[r] \in Seq(Address) /\ Resolvable(addrs[r])
    BY <2>1 DEF IInv, TypeOK, HoldsAnswer, Looked
  <2>3. a \in AddressSet(addrs[r])
    BY <2>1, <2>2 DEF AddressSet, Resolvable
  <2>4. a \notin HardDenied
    BY <2>2, <2>3 DEF Resolvable
  <2>5. (\A p \in Standing(r) : ~Denies(policy[p], target[r], AddressSet(addrs[r]))) /\ ~NoneEver(r)
    BY <2>1 DEF IInv, Passed
  <2>6. ASSUME NEW p \in Standing(r), policy[p].mode # "whitelist"
        PROVE  ~Denies(policy[p], target[r], {a})
    BY <2>3, <2>5, <2>6, DenialMonotone
  <2> QED
    BY <2>4, <2>5, <2>6
<1> QED
  BY <1>1, Invariant, PTL

\* A connection is made only through an egress that was open to its user at some
\* moment of its hop.
THEOREM RevokedEgressStopsDials == Spec => []RevokedEgressNeverDialled
<1>1. IInv => RevokedEgressNeverDialled
  BY DEF IInv, RevokedEgressNeverDialled, Connected, OpenedEgress
<1> QED
  BY <1>1, Invariant, PTL

=============================================================================
