----------------------------- MODULE MCContexts -----------------------------
(* An instance of Contexts: an owner and a stranger to the one context, with a  *)
(* ticket at a time and two handlers.  Origins and handlers are interchangeable. *)
EXTENDS Contexts, TLC

Names == Permutations(ContextId) \cup Permutations(Ticket) \cup Permutations(Request)
         \cup Permutations(Origin)
=============================================================================
