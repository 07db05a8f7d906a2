------------------------------- MODULE MCMux -------------------------------
(* Instances of Mux: uploads that fit, one over the limit, and a call without *)
(* a body, whose response may never end.                                      *)
EXTENDS MuxFetching, TLC

CONSTANTS f1, f2

Fits2TooLarge3 == (f1 :> 2) @@ (f2 :> 3)
Fits1NoBody == (f1 :> 1) @@ (f2 :> 0)
=============================================================================
