-------------------------- MODULE MCScenarioPage --------------------------
(***************************************************************************)
(* A page opened on no run, or by a link to a run that is complete or to a *)
(* red one that is still played.                                           *)
(***************************************************************************)
EXTENDS ScenarioPage

Played(type, beats) ==
  [type |-> type, run |-> 1, beats |-> beats, cmds |-> 0]

MCLinks ==
  {None,
   [side |-> "blue", coop |-> FALSE, beats |-> NumBeats, cmds |-> 0,
    status |-> "complete",
    feed |-> [i \in 1 .. NumBeats |-> Played("beat", i)]
             \o <<Played("complete", NumBeats)>>],
   [side |-> "red", coop |-> FALSE, beats |-> 0, cmds |-> 0,
    status |-> "active", feed |-> <<>>]}
=============================================================================
