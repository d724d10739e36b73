------------------------- MODULE MCMissionRuntime -------------------------
(* MissionRuntime on small instances: one or two runs and pages, scripts   *)
(* of one or two beats.                                                    *)
EXTENDS MissionRuntime, TLC

Symmetry == Permutations(Runs)
=============================================================================
