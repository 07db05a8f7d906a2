----------------------------- MODULE MuxFetching -----------------------------
(***************************************************************************)
(* The multiplexer implements Fetching: frames, connections and stream     *)
(* identifiers are hidden, an executor is what asks the target.            *)
(***************************************************************************)
EXTENDS Mux

\* The phases of a stream at the server, as stages of the target's answer.
Stage(f) ==
    CASE phase[f] \in {"none", "collecting"} -> "none"
      [] phase[f] = "executing" -> "asked"
      [] phase[f] = "responding" -> "answering"
      [] phase[f] = "ended" -> "ended"
      [] phase[f] \in {"failed", "dropped"} -> "stopped"

Abstract == INSTANCE Fetching WITH
    upstream <- [f \in Fetch |-> Stage(f)],
    produced <- produced,
    promise <- promise,
    stream <- stream,
    delivered <- [f \in Fetch |-> Len(got[f])]

(* Over one shared connection that may drop, every call behaves as a fetch of *)
(* its own: the target asked at most once, the promise settled once, the body *)
(* in order and whole when it ends (runtime.js muxFetch, mux.go executeMux).  *)
ImplementsFetching == Abstract!Spec
=============================================================================
