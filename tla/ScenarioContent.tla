-------------------------- MODULE ScenarioContent --------------------------
(***************************************************************************)
(* The objectives of the scenarios and the XP they are worth.  Whether an  *)
(* objective is met is read off the result of the run: its counts of       *)
(* events, alerts and responses, whether it has an incident, whether       *)
(* anything at all is contained in the world, and the verbs of its         *)
(* commands.                                                               *)
(***************************************************************************)
EXTENDS Integers, Sequences

(* XP multipliers, in halves.                                              *)
DIFFICULTIES    == [recruit |-> 2, analyst |-> 3, operator |-> 4]
BonusMultiplier == 3

Objective(xp, done) == [xp |-> xp, done |-> done]

RedFoothold(r)       == r.events >= 1
RedVolume(r, n)      == r.events >= n
RedTrippedDefense(r) == r.contained
BlueDetect(r)        == r.alerts >= 1
BlueCorrelate(r)     == r.incident
BlueRespond(r)       == r.responses >= 1 \/ RedTrippedDefense(r)
BlueContainByCommand(r)    == "contain session" \in r.commands
BlueAnyContainByCommand(r) ==
  r.commands \cap {"contain session", "contain document", "contain service"} # {}
TutorialIssued(r, verb)    == verb \in r.commands

(* The shape all scenarios but the tutorial share.                         *)
Red(r, volume, xp) ==
  <<Objective(xp[1], RedFoothold(r)), Objective(xp[2], RedVolume(r, volume)),
    Objective(xp[3], RedTrippedDefense(r))>>
Blue(r, contained, xp) ==
  <<Objective(xp[1], BlueDetect(r)), Objective(xp[2], BlueCorrelate(r)),
    Objective(xp[3], contained)>>

Tutorial000(r) ==
  [red  |-> <<Objective(0, FALSE)>>,
   blue |-> <<Objective(0, TutorialIssued(r, "alerts list")),
              Objective(0, TutorialIssued(r, "events tail")),
              Objective(0, TutorialIssued(r, "status")),
              Objective(0, TutorialIssued(r, "contain session"))>>]
Auth001(r) ==
  [red  |-> Red(r, 5, <<20, 30, 50>>),
   blue |-> Blue(r, BlueContainByCommand(r), <<25, 35, 50>>)]
Session002(r) ==
  [red  |-> Red(r, 3, <<20, 30, 50>>),
   blue |-> Blue(r, BlueAnyContainByCommand(r), <<25, 35, 50>>)]
Doc003(r) ==
  [red  |-> Red(r, 5, <<20, 30, 50>>),
   blue |-> Blue(r, BlueAnyContainByCommand(r), <<25, 35, 50>>)]
Doc004(r) ==
  [red  |-> Red(r, 10, <<20, 30, 50>>),
   blue |-> Blue(r, BlueAnyContainByCommand(r), <<25, 35, 50>>)]
Svc005(r) ==
  [red  |-> Red(r, 3, <<20, 30, 50>>),
   blue |-> Blue(r, BlueAnyContainByCommand(r), <<25, 35, 50>>)]
Corr006(r) ==
  [red  |-> Red(r, 10, <<25, 35, 60>>),
   blue |-> Blue(r, BlueAnyContainByCommand(r), <<30, 40, 60>>)]
Pol007(r) ==
  [red  |-> Red(r, 3, <<20, 30, 50>>),
   blue |-> Blue(r, BlueRespond(r), <<25, 35, 50>>)]

SCENARIO_CONTENT(scenario, r) ==
  CASE scenario = "scn-tutorial-000" -> Tutorial000(r)
    [] scenario = "scn-auth-001"     -> Auth001(r)
    [] scenario = "scn-session-002"  -> Session002(r)
    [] scenario = "scn-doc-003"      -> Doc003(r)
    [] scenario = "scn-doc-004"      -> Doc004(r)
    [] scenario = "scn-svc-005"      -> Svc005(r)
    [] scenario = "scn-corr-006"     -> Corr006(r)
    [] scenario = "scn-pol-007"      -> Pol007(r)

Objectives(play) == SCENARIO_CONTENT(play.scenario, play.result)[play.side]

(* The sum of a sequence of XP.                                            *)
XpTotal(xps) ==
  LET sum[n \in 0 .. Len(xps)] == IF n = 0 THEN 0 ELSE sum[n - 1] + xps[n]
  IN  sum[Len(xps)]

EarnedRawXp(play) ==
  XpTotal([i \in DOMAIN Objectives(play) |->
             IF Objectives(play)[i].done THEN Objectives(play)[i].xp ELSE 0])

(* The XP of a run, rounded half up.                                       *)
EarnedXp(play, isDaily) ==
  LET bonus == IF isDaily THEN BonusMultiplier ELSE 2
  IN  (EarnedRawXp(play) * DIFFICULTIES[play.difficulty] * bonus + 2) \div 4

AllComplete(play) == \A i \in DOMAIN Objectives(play) : Objectives(play)[i].done
=============================================================================
