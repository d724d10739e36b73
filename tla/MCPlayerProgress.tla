------------------------- MODULE MCPlayerProgress -------------------------
(***************************************************************************)
(* A small career: one mission, which is the Daily Challenge of day 2 and  *)
(* the last of op Nightshade for an old career that has the other two.     *)
(***************************************************************************)
EXTENDS PlayerProgress

Play(scenario, difficulty, commands) ==
  [scenario |-> scenario, side |-> "blue", difficulty |-> difficulty,
   result |-> [events |-> 5, alerts |-> 2, responses |-> 1, incident |-> TRUE,
               contained |-> TRUE, commands |-> commands]]

MCPlays ==
  {Play("scn-session-002", "recruit", {"alerts list"})}

MCXpMarks == [x \in {"xp-500"} |-> 300]
MCStreakMarks == [x \in {"streak-3"} |-> 2]

MCLegacy ==
  {[runs |-> <<MissionRecord(Play("scn-auth-001", "recruit", {}), FALSE),
               MissionRecord(Play("scn-doc-003", "analyst", {"contain session"}), FALSE)>>,
    achievements |-> {"first-mission", "blue-recon", "flawless"}]}

TabSymmetry == Permutations(Tabs)
=============================================================================
