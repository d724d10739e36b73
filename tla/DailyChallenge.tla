-------------------------- MODULE DailyChallenge --------------------------
(***************************************************************************)
(* The rotation of the Daily Challenge.  A day is the number of local      *)
(* calendar days since the epoch, which is what the date keys of the code  *)
(* stand for: consecutive keys are consecutive numbers.                    *)
(***************************************************************************)
EXTENDS Integers, Sequences

SCENARIO_DEFINITIONS ==
  <<"scn-tutorial-000", "scn-auth-001", "scn-session-002", "scn-doc-003",
    "scn-doc-004", "scn-svc-005", "scn-corr-006", "scn-pol-007">>

DIFFICULTY_ORDER == <<"recruit", "analyst", "operator">>

(* The challenge of a day: the scenario and the side change every day, the *)
(* difficulty every third day.                                             *)
GetDailyChallenge(day) ==
  [scenario   |-> SCENARIO_DEFINITIONS[(day % Len(SCENARIO_DEFINITIONS)) + 1],
   side       |-> IF day % 2 = 0 THEN "blue" ELSE "red",
   difficulty |-> DIFFICULTY_ORDER[((day \div 3) % Len(DIFFICULTY_ORDER)) + 1]]

IsDailyChallengeMatch(play, day) ==
  LET daily == GetDailyChallenge(day)
  IN  /\ play.scenario = daily.scenario
      /\ play.side = daily.side
      /\ play.difficulty = daily.difficulty
=============================================================================
