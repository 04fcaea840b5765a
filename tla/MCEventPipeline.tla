-------------------------- MODULE MCEventPipeline --------------------------
(* EventPipeline for TLC. *)
EXTENDS EventPipeline, TLC

CONSTANTS e1, e2, p

\* Two events of one fingerprint.
SamePrint == e1 :> p @@ e2 :> p

Interchangeable == Permutations(Slots) \cup Permutations(Operators)
=============================================================================
