-------------------------- MODULE MCEventPipeline --------------------------
(* EventPipeline on small instances; the .cfg files choose the event types *)
(* so that calls open incidents, join them, or raise detached alerts.      *)
EXTENDS EventPipeline, TLC

Interchangeable == Permutations(Workers) \cup Permutations(EventIds)
=============================================================================
