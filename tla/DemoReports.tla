----------------------------- MODULE DemoReports -----------------------------
(* The summaries of the demo data, mock-data.ts: metrics, risk profiles, rule *)
(* effectiveness, scenario history, the ATT&CK tables, kill chains, campaigns *)
(* and the exercise report.  The source writes their numbers by hand, next to *)
(* the rows they summarise; they are written here as they stand.  Names,      *)
(* descriptions, links and recommendations are left out, and rule ids lose    *)
(* their DET- prefix.                                                         *)
EXTENDS DemoIncidents, FiniteSetsExt

MOCK_METRICS ==
  [total_events |-> 847, total_alerts |-> 142, total_incidents |-> 16, total_responses |-> 58,
   active_containments |-> 7,
   events_by_category |-> [authentication |-> 312, session |-> 158, document |-> 201,
                           service |-> 87, network |-> 89],
   alerts_by_severity |-> [critical |-> 16, high |-> 74, medium |-> 52,
                           low |-> 0, informational |-> 0],
   incidents_by_status |-> [open |-> 3, investigating |-> 4, contained |-> 4,
                            resolved |-> 3, closed |-> 2]]

----------------------------------------------------------------------------
(* Analytics.                                                                 *)

Rise(ago, rule, delta, new) == [ago |-> ago, rule |-> rule, delta |-> delta, new |-> new]
Profile(actor, current, peak, history) ==
  [actor |-> actor, current |-> current, peak |-> peak, history |-> history]

MOCK_RISK_PROFILES ==
  {Profile("wade.hollis", 20, 45,
           <<Rise(3960, "AUTH-001", 15, 15), Rise(3959, "AUTH-002", 30, 45)>>),
   Profile("alex.nguyen", 35, 35, <<Rise(2864, "SESSION-003", 35, 35)>>),
   Profile("priya.shah", 75, 75,
           <<Rise(1810, "DOC-004", 30, 30), Rise(1800, "DOC-006", 45, 75)>>),
   Profile("svc-sat-telemetry", 10, 25, <<Rise(1203, "SVC-007", 25, 25)>>),
   Profile("robin.chen", 65, 65,
           <<Rise(500, "ART-008", 15, 15), Rise(485, "POL-009", 50, 65)>>),
   Profile("mira.delacroix", 55, 55, <<Rise(120, "CORR-010", 55, 55)>>)}

Fires(rule, triggers, actors) == [rule |-> rule, triggers |-> triggers, actors |-> actors]
MOCK_RULE_EFFECTIVENESS ==
  {Fires("AUTH-001", 41, 11), Fires("AUTH-002", 26, 11), Fires("SESSION-003", 16, 10),
   Fires("DOC-004", 19, 10), Fires("DOC-005", 0, 0), Fires("DOC-006", 11, 10),
   Fires("SVC-007", 13, 6), Fires("ART-008", 11, 10), Fires("POL-009", 4, 4),
   Fires("CORR-010", 1, 1)}

Ran(scenario, corr, events, alerts, responses, incident, executed) ==
  [scenario |-> scenario, corr |-> corr, events |-> events, alerts |-> alerts,
   responses |-> responses, incident |-> incident, executed |-> executed]
MOCK_SCENARIO_HISTORY ==
  {Ran("scn-auth-001", CORRELATION_IDS.AUTH_BRUTE, 7, 2, 1, 1, 3962),
   Ran("scn-session-002", CORRELATION_IDS.SESSION_HIJACK, 4, 1, 0, 2, 2880),
   Ran("scn-doc-004", CORRELATION_IDS.DOC_EXFIL, 7, 2, 1, 3, 1810),
   Ran("scn-svc-005", CORRELATION_IDS.SVC_ABUSE, 4, 1, 1, 4, 1205),
   Ran("scn-pol-007", CORRELATION_IDS.POLICY_CHANGE, 4, 2, 0, 5, 510),
   Ran("scn-corr-006", CORRELATION_IDS.MULTI_STAGE, 4, 1, 0, 6, 165)}

----------------------------------------------------------------------------
(* ATT&CK.                                                                    *)

MOCK_MITRE_TACTICS ==
  {"TA0001", "TA0003", "TA0005", "TA0006", "TA0007", "TA0008", "TA0009", "TA0010"}

(* The tactics of each technique.                                             *)
MOCK_MITRE_TECHNIQUES ==
  [T1041 |-> {"TA0010"}, T1046 |-> {"TA0007"}, T1078 |-> {"TA0001", "TA0003", "TA0005"},
   T1110 |-> {"TA0006"}, T1190 |-> {"TA0001"}, T1213 |-> {"TA0009"},
   T1550 |-> {"TA0005", "TA0008"}, T1554 |-> {"TA0003"}, T1562 |-> {"TA0005"}]

Surfaces(rule, techniques, tactics, phases) ==
  [rule |-> rule, techniques |-> techniques, tactics |-> tactics, phases |-> phases]
MOCK_TTP_MAPPINGS ==
  {Surfaces("AUTH-001", {"T1110"}, {"TA0006"}, {"delivery"}),
   Surfaces("AUTH-002", {"T1078"}, {"TA0001"}, {"exploitation"}),
   Surfaces("SESSION-003", {"T1550"}, {"TA0005", "TA0008"},
            {"exploitation", "command_and_control"}),
   Surfaces("DOC-004", {"T1213"}, {"TA0009"}, {"actions_on_objectives"}),
   Surfaces("DOC-005", {"T1213"}, {"TA0009"}, {"actions_on_objectives"}),
   Surfaces("DOC-006", {"T1041"}, {"TA0010"}, {"actions_on_objectives"}),
   Surfaces("SVC-007", {"T1046"}, {"TA0007"}, {"reconnaissance", "delivery"}),
   Surfaces("ART-008", {"T1554"}, {"TA0003"}, {"installation"}),
   Surfaces("POL-009", {"T1562"}, {"TA0005"}, {"actions_on_objectives"}),
   Surfaces("CORR-010", {"T1041", "T1078", "T1550"}, {"TA0001", "TA0008", "TA0010"},
            {"delivery", "exploitation", "command_and_control", "actions_on_objectives"})}

Pair(tactic, technique, rules, scenarios) ==
  [tactic |-> tactic, technique |-> technique, rules |-> rules, scenarios |-> scenarios]
MOCK_MITRE_COVERAGE ==
  {Pair("TA0001", "T1078", {"AUTH-002", "CORR-010"}, {"scn-auth-001", "scn-corr-006"}),
   Pair("TA0001", "T1190", {}, {}),
   Pair("TA0003", "T1078", {}, {}),
   Pair("TA0003", "T1554", {"ART-008"}, {"scn-pol-007"}),
   Pair("TA0005", "T1078", {}, {}),
   Pair("TA0005", "T1550", {"SESSION-003"}, {"scn-session-002"}),
   Pair("TA0005", "T1562", {"POL-009"}, {"scn-pol-007"}),
   Pair("TA0006", "T1110", {"AUTH-001"}, {"scn-auth-001"}),
   Pair("TA0007", "T1046", {"SVC-007"}, {"scn-svc-005"}),
   Pair("TA0008", "T1550", {"SESSION-003", "CORR-010"}, {"scn-session-002", "scn-corr-006"}),
   Pair("TA0009", "T1213", {"DOC-004", "DOC-005"}, {"scn-doc-004"}),
   Pair("TA0010", "T1041", {"DOC-006", "CORR-010"}, {"scn-doc-004", "scn-corr-006"})}

(* Covered techniques, all techniques and percentage of each tactic.          *)
MOCK_TACTIC_COVERAGE ==
  [TA0001 |-> <<1, 2, 50>>,  TA0003 |-> <<1, 2, 50>>,  TA0005 |-> <<2, 3, 66>>,
   TA0006 |-> <<1, 1, 100>>, TA0007 |-> <<1, 1, 100>>, TA0008 |-> <<1, 1, 100>>,
   TA0009 |-> <<1, 1, 100>>, TA0010 |-> <<1, 1, 100>>]

(* The techniques of the rules that fired on the chain of a scenario's run.   *)
ComputeScenarioTTPs(scenario) ==
  LET runs  == {h \in MOCK_SCENARIO_HISTORY : h.scenario = scenario}
      fired == {a.rule : a \in {x \in MOCK_ALERTS : \E h \in runs : x.corr = h.corr}}
  IN UNION {t.techniques : t \in {x \in MOCK_TTP_MAPPINGS : x.rule \in fired}}

----------------------------------------------------------------------------
(* Kill chains and campaigns.                                                 *)

KILL_CHAIN_STAGE_TEMPLATES ==
  <<"reconnaissance", "weaponization", "delivery", "exploitation", "installation",
    "command_and_control", "actions_on_objectives">>

Hit(rules, first) == [rules |-> rules, first |-> first]

BuildStages(hits) ==
  [k \in DOMAIN KILL_CHAIN_STAGE_TEMPLATES |->
    LET name == KILL_CHAIN_STAGE_TEMPLATES[k] IN
      IF name \in DOMAIN hits
      THEN [name |-> name, detected |-> TRUE, rules |-> hits[name].rules,
            first |-> hits[name].first]
      ELSE [name |-> name, detected |-> FALSE, rules |-> {}, first |-> Never]]

Analysis(incident, corr, actor, hits, percent, highest, first, last) ==
  [incident |-> incident, corr |-> corr, actor |-> actor, stages |-> BuildStages(hits),
   percent |-> percent, highest |-> highest, first |-> first, last |-> last]
EarlyAnalyses ==
  {Analysis(1, CORRELATION_IDS.AUTH_BRUTE, "wade.hollis",
            [delivery |-> Hit({"AUTH-001"}, 3962), exploitation |-> Hit({"AUTH-002"}, 3959)],
            28, "exploitation", 3962, 3959),
   Analysis(2, CORRELATION_IDS.SESSION_HIJACK, "alex.nguyen",
            [exploitation        |-> Hit({"SESSION-003"}, 2870),
             command_and_control |-> Hit({"SESSION-003"}, 2865)],
            28, "command_and_control", 2880, 2864),
   Analysis(3, CORRELATION_IDS.DOC_EXFIL, "priya.shah",
            [actions_on_objectives |-> Hit({"DOC-004", "DOC-006"}, 1810)],
            14, "actions_on_objectives", 1810, 1800)}
LateAnalyses ==
  {Analysis(4, CORRELATION_IDS.SVC_ABUSE, "svc-sat-telemetry",
            [reconnaissance |-> Hit({"SVC-007"}, 1205), delivery |-> Hit({"SVC-007"}, 1205)],
            28, "delivery", 1205, 1200),
   Analysis(5, CORRELATION_IDS.POLICY_CHANGE, "robin.chen",
            [installation          |-> Hit({"ART-008"}, 510),
             actions_on_objectives |-> Hit({"POL-009"}, 485)],
            28, "actions_on_objectives", 510, 485),
   Analysis(6, CORRELATION_IDS.MULTI_STAGE, "mira.delacroix",
            [delivery              |-> Hit({"CORR-010"}, 165),
             exploitation          |-> Hit({"CORR-010"}, 150),
             command_and_control   |-> Hit({"CORR-010"}, 135),
             actions_on_objectives |-> Hit({"CORR-010"}, 120)],
            57, "actions_on_objectives", 165, 120)}
MOCK_KILL_CHAIN_ANALYSES == EarlyAnalyses \cup LateAnalyses

MOCK_CAMPAIGNS ==
  {[id |-> "CAM-0001", corrs |-> {CORRELATION_IDS.DOC_EXFIL, CORRELATION_IDS.MULTI_STAGE},
    ttps |-> {"T1041"}, actors |-> {}, first |-> 1810, last |-> 120],
   [id |-> "CAM-0002", corrs |-> {CORRELATION_IDS.SVC_ABUSE, CORRELATION_IDS.POLICY_CHANGE},
    ttps |-> {}, actors |-> {}, first |-> 1205, last |-> 485]}

(* Its window is the 72 hours before REFERENCE_NOW.                           *)
MOCK_EXERCISE_REPORT ==
  [window |-> 3 * 24 * 60,
   total_events |-> MOCK_METRICS.total_events, total_alerts |-> MOCK_METRICS.total_alerts,
   total_incidents |-> MOCK_METRICS.total_incidents, scenarios_executed |-> 6,
   rules_total |-> 10, rules_triggered |-> 9,
   responses_executed |-> 39, responses_total |-> 58, containment_rate |-> 36,
   highest_risk_actor |-> "priya.shah", highest_peak_score |-> 75,
   tactics_covered |-> MOCK_MITRE_TACTICS,
   techniques_covered |-> {"T1041", "T1046", "T1078", "T1110", "T1213", "T1550",
                           "T1554", "T1562"},
   coverage_percentage |-> 83]
=============================================================================
