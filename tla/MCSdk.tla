-------------------------------- MODULE MCSdk --------------------------------
(* An instance of Sdk: three goroutines that share a session or make requests *)
(* of their own.                                                              *)
EXTENDS Sdk, TLC

Names == Permutations(Caller) \cup Permutations(ContextId)
=============================================================================
