------------------------------ MODULE Fetching ------------------------------
(***************************************************************************)
(* What window.fetch of a proxied page promises, whatever carries it: the  *)
(* target is asked at most once, a promise settles once, a response comes  *)
(* from a target that answered, its body arrives from the front, and a     *)
(* body that ends has arrived whole.  Module Mux implements it.            *)
(***************************************************************************)
EXTENDS Naturals

CONSTANT Fetch \* the calls of the page

VARIABLES
    upstream,  \* "none", "asked", "answering", "ended" or "stopped"
    produced,  \* the chunks the target has produced
    promise,   \* "pending", "resolved" or "rejected"
    stream,    \* "none", "nobody", "open", "closed", "errored" or "cancelled"
    delivered  \* the chunks handed to the page

server == <<upstream, produced>>
page == <<promise, stream, delivered>>
vars == <<server, page>>

Init ==
    /\ upstream = [f \in Fetch |-> "none"] /\ produced = [f \in Fetch |-> 0]
    /\ promise = [f \in Fetch |-> "pending"] /\ stream = [f \in Fetch |-> "none"]
    /\ delivered = [f \in Fetch |-> 0]

\* The target of f goes from one stage to the next; from each it may stop.
Proceeds(f, from, to) ==
    /\ upstream[f] = from
    /\ upstream' = [upstream EXCEPT ![f] = to]
    /\ UNCHANGED <<produced, page>>

Produces(f) ==
    /\ upstream[f] = "answering"
    /\ produced' = [produced EXCEPT ![f] = @ + 1]
    /\ UNCHANGED <<upstream, page>>

\* Requests end before they were made or answered: refused, cancelled, cut off.
Stop(P) ==
    /\ \A f \in P : upstream[f] \in {"none", "asked", "answering"}
    /\ upstream' = [f \in Fetch |-> IF f \in P THEN "stopped" ELSE upstream[f]]
    /\ UNCHANGED <<produced, page>>

\* The response arrives; a status no Response can have leaves the promise alone.
Responds(f) ==
    /\ promise[f] = "pending" /\ stream[f] = "none"
    /\ upstream[f] \in {"answering", "ended", "stopped"}
    /\ \E settled \in {"resolved", "pending"} : promise' = [promise EXCEPT ![f] = settled]
    /\ \E s \in {"nobody", "open"} : stream' = [stream EXCEPT ![f] = s]
    /\ UNCHANGED <<server, delivered>>

Delivers(f) ==
    /\ stream[f] = "open" /\ delivered[f] < produced[f]
    /\ delivered' = [delivered EXCEPT ![f] = @ + 1]
    /\ UNCHANGED <<server, promise, stream>>

Closes(f) ==
    /\ stream[f] = "open"
    /\ upstream[f] = "ended" /\ delivered[f] = produced[f]
    /\ stream' = [stream EXCEPT ![f] = "closed"]
    /\ UNCHANGED <<server, promise, delivered>>

Cancels(f) ==
    /\ stream[f] = "open" /\ promise[f] = "resolved"
    /\ stream' = [stream EXCEPT ![f] = "cancelled"]
    /\ UNCHANGED <<server, promise, delivered>>

\* Calls fail: their streams if they have one, their promises if not.
Fail(P) ==
    /\ stream' = [f \in Fetch |-> IF f \in P /\ stream[f] = "open" THEN "errored" ELSE stream[f]]
    /\ promise' = [f \in Fetch |-> IF f \in P /\ promise[f] = "pending" /\ stream[f] \in {"none", "nobody"}
                                   THEN "rejected" ELSE promise[f]]
    /\ UNCHANGED <<server, delivered>>

Next ==
    \/ \E f \in Fetch :
        \/ Proceeds(f, "none", "asked") \/ Proceeds(f, "asked", "answering")
        \/ Proceeds(f, "answering", "ended") \/ Produces(f)
        \/ Responds(f) \/ Delivers(f) \/ Closes(f) \/ Cancels(f)
    \/ \E P \in SUBSET Fetch : Stop(P) \/ Fail(P)

Spec == Init /\ [][Next]_vars
=============================================================================
