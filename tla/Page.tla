-------------------------------- MODULE Page --------------------------------
(***************************************************************************)
(* The injected runtime of one page (internal/proxy/runtime.js): its view  *)
(* of document.cookie over the encrypted jar of the context (cookies.go,   *)
(* setDocumentCookie), and the queue that resolves the URLs of a page in   *)
(* compatibility mode.                                                     *)
(*                                                                         *)
(* The page is one thread; its callbacks, the handlers of the server and   *)
(* the network interleave.  There is one cookie: the row of a name, domain *)
(* and path in the jar, and its name in the view.                          *)
(***************************************************************************)
EXTENDS Naturals, FiniteSets, SequencesExt

CONSTANTS Value,     \* what pages write, and targets set for scripts to see
          Secret,    \* what targets set as HttpOnly only
          Absent, Empty,
          Kinds,     \* the ways in which pages write: see Faithful, ViewAfter
          MaxWrites, \* bound on the writes under way at a time
          Call,      \* calls of resolveURL
          Target,    \* their absolute targets
          Limit,     \* resolutions at a time (24)
          CacheSize, \* resolved URLs remembered (4096)
          Modes,     \* compatibility modes of the context
          Parts      \* bound: a page does either; the parts share nothing but its end

ASSUME PageAssumption ==
    /\ Value \cap Secret = {} /\ {Absent, Empty} \cap (Value \cup Secret) = {} /\ Absent # Empty
    /\ Kinds \subseteq {"set", "delete", "empty", "expired", "httpOnly"}
    /\ MaxWrites \in Nat
    /\ Limit \in Nat \ {0} /\ CacheSize \in Nat \ {0}
    /\ Modes \subseteq BOOLEAN /\ Parts \subseteq {"cookies", "urls"}

VARIABLES
    compatibilityMode,
    part,
    jar,            \* the row of proxy_cookies
    visibleCookies, \* the cookie as scripts of the page see it
    writes,         \* the page's writes that are not settled, in the order issued
    news,           \* cookies of multiplexer responses on their way to the page
    disturbed,      \* the view may differ from the jar for another reason than order
    calls,          \* what a call of resolveURL waits for or got
    resolutionQueue,
    active,         \* targets being asked for; activeResolutions counts them
    activeResolutions,
    resolvingURLs,  \* targets with a promise to share
    resolvedURLs    \* the cache, oldest first

cookieVars == <<jar, visibleCookies, writes, news, disturbed>>
resolveVars == <<calls, resolutionQueue, active, activeResolutions, resolvingURLs, resolvedURLs>>
vars == <<compatibilityMode, part, cookieVars, resolveVars>>

NoCookie == [value |-> Absent, httpOnly |-> FALSE]
NotCalled == [state |-> "none"]

Init ==
    /\ compatibilityMode \in Modes /\ part \in Parts
    /\ jar = NoCookie /\ visibleCookies = Absent
    /\ writes = <<>> /\ news = {} /\ disturbed = FALSE
    /\ calls = [c \in Call |-> NotCalled]
    /\ resolutionQueue = <<>> /\ active = {} /\ activeResolutions = 0
    /\ resolvingURLs = {} /\ resolvedURLs = <<>>

----------------------------------------------------------------------------
(* Cookies.                                                                *)

\* updateVisibleCookie: Max-Age=0 and an empty value delete; every other attribute
\* is ignored.
ViewAfter(w) == IF w.kind \in {"delete", "empty"} THEN Absent ELSE w.value

\* setDocumentCookie and SaveCookies: an HttpOnly cookie is refused, an expired one
\* deleted, an empty one stored.
JarAfter(w) ==
    CASE w.kind = "httpOnly" -> jar
      [] w.kind \in {"delete", "expired"} -> NoCookie
      [] w.kind = "empty" -> [value |-> Empty, httpOnly |-> FALSE]
      [] w.kind = "set" -> [value |-> w.value, httpOnly |-> FALSE]

\* The kinds the page and the jar take alike.
Faithful == {"set", "delete"}

\* VisibleCookies
EveryCookie(j) == j.value
VisibleCookies(j) == IF j.httpOnly THEN Absent ELSE j.value

\* queueCookieWrite: in compatibility mode a write is sent when the fetch of the one
\* before has settled, otherwise at once.
NoQueue == TRUE
SentAtOnce == ~ compatibilityMode

WriteCookie(kind, v) ==
    LET w == [kind |-> kind, value |-> v] IN
    /\ part = "cookies" /\ Len(writes) < MaxWrites
    /\ visibleCookies' = ViewAfter(w)
    /\ writes' = Append(writes, [kind |-> kind, value |-> v, at |-> IF SentAtOnce THEN "sent" ELSE "queued"])
    /\ disturbed' = (disturbed \/ kind \notin Faithful)
    /\ UNCHANGED <<compatibilityMode, part, jar, news, resolveVars>>

SendCookie(i) ==
    /\ writes[i].at = "queued"
    /\ \A j \in 1 .. i - 1 : writes[j].at = "lost"
    /\ writes' = [writes EXCEPT ![i].at = "sent"]
    /\ UNCHANGED <<compatibilityMode, part, jar, visibleCookies, news, disturbed, resolveVars>>

\* The server saves the cookie, also when the page no longer waits for it; or fails.
SaveCookie(i) ==
    /\ writes[i].at \in {"sent", "lost"}
    /\ writes' = IF writes[i].at = "sent" THEN [writes EXCEPT ![i].at = "saved"] ELSE RemoveAt(writes, i)
    /\ \/ jar' = JarAfter(writes[i]) /\ UNCHANGED disturbed
       \/ jar' = jar /\ disturbed' = TRUE
    /\ UNCHANGED <<compatibilityMode, part, visibleCookies, news, resolveVars>>

FetchSettles(i) ==
    /\ writes[i].at = "saved"
    /\ writes' = RemoveAt(writes, i)
    /\ UNCHANGED <<compatibilityMode, part, jar, visibleCookies, news, disturbed, resolveVars>>

\* The fetch fails while the request may still be at work.
FetchFails(i) ==
    /\ writes[i].at = "sent"
    /\ writes' = [writes EXCEPT ![i].at = "lost"]
    /\ disturbed' = TRUE
    /\ UNCHANGED <<compatibilityMode, part, jar, visibleCookies, news, resolveVars>>

\* A response of a target sets the cookie (SaveCookies in forward and muxRoundTrip).
TargetSetsCookie ==
    /\ part = "cookies"
    /\ jar' \in [value : Value, httpOnly : {FALSE}] \cup [value : Secret, httpOnly : {TRUE}] \cup {NoCookie}
    /\ disturbed' = TRUE
    /\ UNCHANGED <<compatibilityMode, part, visibleCookies, writes, news, resolveVars>>

\* executeMux reads the visible cookies; the page adds them to its view, later.
MuxReadsCookies ==
    /\ VisibleCookies(jar) # Absent
    /\ news' = news \cup {VisibleCookies(jar)}
    /\ UNCHANGED <<compatibilityMode, part, jar, visibleCookies, writes, disturbed, resolveVars>>

ResponseStarts(v) ==
    /\ v \in news
    /\ news' = news \ {v}
    /\ visibleCookies' = IF v = Empty THEN Absent ELSE v
    /\ disturbed' = (disturbed \/ visibleCookies' # visibleCookies)
    /\ UNCHANGED <<compatibilityMode, part, jar, writes, resolveVars>>

\* Another page of the origin is loaded: rewriteHTML hands it the visible cookies.
\* What the old page had not sent is lost, what it had sent is still at work, in no
\* order any more.
AtServer(w) == w.at \in {"sent", "lost"}
AtWork == {i \in DOMAIN writes : AtServer(writes[i])}
LoadPage ==
    /\ visibleCookies' = VisibleCookies(jar)
    /\ writes' = LET left == SetToSeq(AtWork) IN [i \in DOMAIN left |-> [writes[left[i]] EXCEPT !.at = "lost"]]
    /\ disturbed' = (AtWork # {})
    /\ news' = {}
    /\ calls' = [c \in Call |-> NotCalled]
    /\ resolutionQueue' = <<>> /\ active' = {} /\ activeResolutions' = 0
    /\ resolvingURLs' = {} /\ resolvedURLs' = <<>>
    /\ UNCHANGED <<compatibilityMode, part, jar>>

----------------------------------------------------------------------------
(* Resolving URLs.                                                         *)

\* drainResolutions: what is taken from the queue while fewer than Limit are active.
Taken(queue, count) == IF count >= Limit THEN 0
                       ELSE IF Len(queue) <= Limit - count THEN Len(queue) ELSE Limit - count

Drain(queue, asked, count) ==
    LET n == Taken(queue, count) IN
    /\ resolutionQueue' = SubSeq(queue, n + 1, Len(queue))
    /\ active' = asked \cup ToSet(SubSeq(queue, 1, n))
    /\ activeResolutions' = count + n

Waits(c, x) == calls' = [calls EXCEPT ![c] = [state |-> "waiting", target |-> x]]
Gets(c, x) == calls' = [calls EXCEPT ![c] = [state |-> "resolved", target |-> x]]

\* resolveURL in compatibility mode, of a target that is not a route already.
SharesNothing(x) == FALSE
Shared(x) == x \in resolvingURLs

ResolveURL(c, x) ==
    /\ part = "urls" /\ compatibilityMode
    /\ calls[c] = NotCalled
    /\ \/ /\ x \in ToSet(resolvedURLs)
          /\ Gets(c, x)
          /\ UNCHANGED <<resolutionQueue, active, activeResolutions, resolvingURLs>>
       \/ /\ x \notin ToSet(resolvedURLs) /\ Shared(x)
          /\ Waits(c, x)
          /\ UNCHANGED <<resolutionQueue, active, activeResolutions, resolvingURLs>>
       \/ /\ x \notin ToSet(resolvedURLs) /\ ~ Shared(x)
          /\ Waits(c, x)
          /\ resolvingURLs' = resolvingURLs \cup {x}
          /\ Drain(Append(resolutionQueue, x), active, activeResolutions)
    /\ UNCHANGED <<compatibilityMode, part, cookieVars, resolvedURLs>>

\* Otherwise every call asks for itself.
ResolveDirectly(c, x) ==
    /\ part = "urls" /\ ~ compatibilityMode
    /\ calls[c] = NotCalled
    /\ Waits(c, x)
    /\ UNCHANGED <<compatibilityMode, part, cookieVars, resolutionQueue, active, activeResolutions, resolvingURLs, resolvedURLs>>

Answered(c) ==
    /\ ~ compatibilityMode
    /\ calls[c].state = "waiting"
    /\ \E state \in {"resolved", "rejected"} : calls' = [calls EXCEPT ![c].state = state]
    /\ UNCHANGED <<compatibilityMode, part, cookieVars, resolutionQueue, active, activeResolutions, resolvingURLs, resolvedURLs>>

\* The fetch of /__tvpn/resolve has settled: the callers get the answer, a good one is
\* remembered in place of the oldest, and the next in the queue is asked for.
RememberedLate(x) == Append(IF Len(resolvedURLs) > CacheSize THEN Tail(resolvedURLs) ELSE resolvedURLs, x)
Remembered(x) == Append(IF Len(resolvedURLs) >= CacheSize THEN Tail(resolvedURLs) ELSE resolvedURLs, x)

StillCounted == activeResolutions
AfterOne == activeResolutions - 1

ResolutionSettles(x) ==
    /\ x \in active
    /\ \E state \in {"resolved", "rejected"} :
        /\ calls' = [c \in Call |-> IF calls[c].state = "waiting" /\ calls[c].target = x
                                    THEN [calls[c] EXCEPT !.state = state] ELSE calls[c]]
        /\ resolvedURLs' = IF state = "resolved" THEN Remembered(x) ELSE resolvedURLs
    /\ resolvingURLs' = resolvingURLs \ {x}
    /\ Drain(resolutionQueue, active \ {x}, AfterOne)
    /\ UNCHANGED <<compatibilityMode, part, cookieVars>>

----------------------------------------------------------------------------
Next ==
    \/ \E kind \in Kinds, v \in Value : WriteCookie(kind, v)
    \/ \E i \in DOMAIN writes : SendCookie(i) \/ SaveCookie(i) \/ FetchSettles(i) \/ FetchFails(i)
    \/ TargetSetsCookie \/ MuxReadsCookies \/ LoadPage
    \/ \E v \in Value \cup Secret \cup {Empty} : ResponseStarts(v)
    \/ \E c \in Call : Answered(c) \/ \E x \in Target : ResolveURL(c, x) \/ ResolveDirectly(c, x)
    \/ \E x \in Target : ResolutionSettles(x)

\* A fetch settles some time: the browser and the server see to it.
Fairness ==
    /\ \A x \in Target : WF_vars(ResolutionSettles(x))
    /\ \A c \in Call : WF_vars(Answered(c))

Spec == Init /\ [][Next]_vars /\ Fairness

----------------------------------------------------------------------------
(* Properties.                                                             *)

Stage == {"queued", "sent", "lost", "saved"}

\* Types; the cache stays within its size.
TypeOK ==
    /\ compatibilityMode \in BOOLEAN /\ part \in Parts
    /\ jar \in [value : Value \cup Secret \cup {Absent, Empty}, httpOnly : BOOLEAN]
    /\ visibleCookies \in Value \cup Secret \cup {Absent, Empty}
    /\ writes \in Seq([kind : Kinds, value : Value, at : Stage]) /\ Len(writes) <= MaxWrites
    /\ news \subseteq Value \cup Secret \cup {Empty}
    /\ disturbed \in BOOLEAN
    /\ calls \in [Call -> {NotCalled} \cup [state : {"waiting", "resolved", "rejected"}, target : Target]]
    /\ resolutionQueue \in Seq(Target) /\ active \subseteq Target /\ activeResolutions \in Nat
    /\ resolvingURLs \subseteq Target
    /\ resolvedURLs \in Seq(Target) /\ Len(resolvedURLs) <= CacheSize

\* "HttpOnly cookies are never returned to scripts" (docs/proxy-protocol.md): what a
\* target set as HttpOnly is neither in the view of a page nor on its way there.
HttpOnlyHidden == visibleCookies \notin Secret /\ news \cap Secret = {}

\* Cookie writes take effect in the order the page made them ("Cookie 有序写入",
\* docs/requirements.md:31): when all are settled the jar holds what the page sees,
\* unless a write failed, was of a kind the two take differently, or a target or an
\* older response had a hand in it.
WritesInOrder ==
    compatibilityMode /\ ~ disturbed /\ writes = <<>> => VisibleCookies(jar) = visibleCookies

\* However many calls come at once, a target is asked for once, at most Limit at a time,
\* and who waits waits for a lookup that is queued or under way.
OneLookupPerTarget ==
    compatibilityMode =>
        /\ resolvingURLs = ToSet(resolutionQueue) \cup active
        /\ ToSet(resolutionQueue) \cap active = {}
        /\ Cardinality(ToSet(resolutionQueue)) = Len(resolutionQueue)
        /\ activeResolutions = Cardinality(active) /\ activeResolutions <= Limit
        /\ \A c \in Call : calls[c].state = "waiting" => calls[c].target \in resolvingURLs

\* Every call of resolveURL settles, or its page is gone: failed lookups give their
\* place to the next in the queue.
ResolutionsSettle == \A c \in Call : calls[c].state = "waiting" ~> calls[c].state # "waiting"
=============================================================================
