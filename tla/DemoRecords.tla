----------------------------- MODULE DemoRecords -----------------------------
(* The rows the frontend shows when no backend answers, src/frontend/lib/    *)
(* mock-data.ts: events, alerts and responses, the hand-written chains and    *)
(* the baseline the factories generate at module load.                        *)
(*                                                                            *)
(* A time is a number of minutes before REFERENCE_NOW, as in minutesAgo(n): a *)
(* larger one is earlier.  An identifier is its prefix and its number:        *)
(* evt-0007 is <<"evt", 7>>, evt-n0007 is <<"evt-n", 7>>.  A row keeps the    *)
(* fields other tables refer to or count; addresses, agents, event types,     *)
(* confidences, summaries and payloads are left out.                          *)
EXTENDS Integers, Sequences, FiniteSets, Functions

Never == 1000000   \* null, where a time may be missing: before every row

Evt(n)     == <<"evt", n>>
Evts(a, b) == {Evt(n) : n \in a..b}
Alert(n)   == <<"alert", n>>
Resp(n)    == <<"resp", n>>
Bg(n)      == <<"corr-bg", n>>
NoCorr     == <<"none", 0>>

CORRELATION_IDS ==
  [AUTH_BRUTE |-> <<"chain", 1>>, SESSION_HIJACK |-> <<"chain", 2>>,
   DOC_EXFIL  |-> <<"chain", 3>>, SVC_ABUSE      |-> <<"chain", 4>>,
   POLICY_CHANGE |-> <<"chain", 5>>, MULTI_STAGE |-> <<"chain", 6>>]

----------------------------------------------------------------------------
(* Events.                                                                    *)

(* The events first, first+1, ... of one actor, at the given times.           *)
Story(corr, actor, category, first, agos) ==
  {[id |-> Evt(first + i - 1), ago |-> agos[i], category |-> category,
    actor |-> actor, corr |-> corr] : i \in DOMAIN agos}

AuthBrute ==
  Story(CORRELATION_IDS.AUTH_BRUTE, "wade.hollis", "authentication", 1,
        <<3962, 3961, 3961, 3960, 3960, 3960, 3959>>)
SessionHijack ==
  Story(CORRELATION_IDS.SESSION_HIJACK, "alex.nguyen", "session", 10,
        <<2880, 2870, 2865, 2864>>)
DocExfil ==
  Story(CORRELATION_IDS.DOC_EXFIL, "priya.shah", "document", 20,
        <<1810, 1805, 1804, 1803, 1802, 1801, 1800>>)
SvcAbuse ==
  Story(CORRELATION_IDS.SVC_ABUSE, "svc-sat-telemetry", "service", 30,
        <<1205, 1204, 1203, 1200>>)
PolicyChange ==
  Story(CORRELATION_IDS.POLICY_CHANGE, "robin.chen", "service", 40,
        <<510, 505, 500>>)
  \cup Story(CORRELATION_IDS.POLICY_CHANGE, "robin.chen", "network", 43, <<485>>)
MultiStage ==
  Story(CORRELATION_IDS.MULTI_STAGE, "mira.delacroix", "network", 50,
        <<165, 150, 135, 120>>)
Routine ==
  Story(NoCorr, "priya.shah", "authentication", 100, <<720>>)
  \cup Story(NoCorr, "operator-soc-01", "authentication", 101, <<640>>)
  \cup Story(NoCorr, "priya.shah", "session", 102, <<420>>)
  \cup Story(NoCorr, "priya.shah", "document", 103, <<300>>)
  \cup Story(NoCorr, "robin.chen", "authentication", 104, <<240>>)
  \cup Story(NoCorr, "operator-soc-02", "session", 105, <<95>>)

INLINE_EVENTS ==
  AuthBrute \cup SessionHijack \cup DocExfil \cup SvcAbuse
  \cup PolicyChange \cup MultiStage \cup Routine

NOISE_USERS ==
  <<"operator-soc-01", "operator-soc-02", "alex.nguyen", "eli.kwon", "li.wei",
    "priya.shah", "mira.delacroix", "dana.obi", "robin.chen", "jessie.park">>
NOISE_SERVICES ==
  <<"svc-api-gateway", "svc-cache-redis", "svc-metrics-collector",
    "svc-log-forwarder", "svc-telemetry-ingest">>
Cyclic(pool, i) == pool[(i % Len(pool)) + 1]

(* count rows, from the earliest to the latest, between MIN and MAX ago.      *)
SpreadOffset(i, count) ==
  IF count <= 1 THEN 4300 ELSE 30 + ((4300 - 30) * (count - 1 - i)) \div (count - 1)

(* A factory runs through its specs and numbers the rows it pushes with one   *)
(* counter: row i of spec k gets the number of rows pushed before it.         *)
Seq0(specs, k, i) == SumFunctionOnSet([j \in DOMAIN specs |-> specs[j].count], 1..(k - 1)) + i
Total(specs)      == Seq0(specs, Len(specs) + 1, 0)
Pushed(specs)     == UNION {{<<k, i>> : i \in 0..(specs[k].count - 1)} : k \in DOMAIN specs}

NoiseBlocks ==
  <<[category |-> "authentication", count |-> 302, pool |-> NOISE_USERS],
    [category |-> "session",        count |-> 152, pool |-> NOISE_USERS],
    [category |-> "document",       count |-> 193, pool |-> NOISE_USERS],
    [category |-> "service",        count |-> 80,  pool |-> NOISE_SERVICES],
    [category |-> "network",        count |-> 84,  pool |-> <<"firewall-edge-01">>]>>

GenerateBaselineNoise ==
  {LET block == NoiseBlocks[x[1]] IN
     [id |-> <<"evt-n", Seq0(NoiseBlocks, x[1], x[2])>>,
      ago |-> SpreadOffset(x[2], block.count), category |-> block.category,
      actor |-> Cyclic(block.pool, x[2]), corr |-> NoCorr]
   : x \in Pushed(NoiseBlocks)}

MOCK_EVENTS == INLINE_EVENTS \cup GenerateBaselineNoise

----------------------------------------------------------------------------
(* Alerts.                                                                    *)

Fired(n, ago, rule, severity, actor, corr, evidence) ==
  [id |-> Alert(n), ago |-> ago, rule |-> rule, severity |-> severity,
   actor |-> actor, corr |-> corr, evidence |-> evidence]

AccountAlerts ==
  {Fired(1, 3960, "AUTH-001", "medium", "wade.hollis",
         CORRELATION_IDS.AUTH_BRUTE, Evts(1, 6)),
   Fired(2, 3959, "AUTH-002", "high", "wade.hollis",
         CORRELATION_IDS.AUTH_BRUTE, Evts(1, 7)),
   Fired(3, 2864, "SESSION-003", "high", "alex.nguyen",
         CORRELATION_IDS.SESSION_HIJACK, Evts(10, 13)),
   Fired(4, 1810, "DOC-004", "high", "priya.shah",
         CORRELATION_IDS.DOC_EXFIL, Evts(20, 20)),
   Fired(5, 1800, "DOC-006", "critical", "priya.shah",
         CORRELATION_IDS.DOC_EXFIL, Evts(21, 26))}
InfrastructureAlerts ==
  {Fired(6, 1203, "SVC-007", "high", "svc-sat-telemetry",
         CORRELATION_IDS.SVC_ABUSE, Evts(30, 33)),
   Fired(7, 500, "ART-008", "medium", "robin.chen",
         CORRELATION_IDS.POLICY_CHANGE, Evts(40, 42)),
   Fired(8, 485, "POL-009", "critical", "robin.chen",
         CORRELATION_IDS.POLICY_CHANGE, Evts(43, 43)),
   Fired(9, 120, "CORR-010", "critical", "mira.delacroix",
         CORRELATION_IDS.MULTI_STAGE, Evts(50, 53))}
INLINE_ALERTS == AccountAlerts \cup InfrastructureAlerts

NOISE_ALERT_SPECS ==
  <<[rule |-> "AUTH-001",    severity |-> "medium",   count |-> 40, pool |-> NOISE_USERS],
    [rule |-> "AUTH-002",    severity |-> "high",     count |-> 25, pool |-> NOISE_USERS],
    [rule |-> "SESSION-003", severity |-> "high",     count |-> 15, pool |-> NOISE_USERS],
    [rule |-> "DOC-004",     severity |-> "high",     count |-> 18, pool |-> NOISE_USERS],
    [rule |-> "DOC-006",     severity |-> "critical", count |-> 10, pool |-> NOISE_USERS],
    [rule |-> "SVC-007",     severity |-> "high",     count |-> 12, pool |-> NOISE_SERVICES],
    [rule |-> "ART-008",     severity |-> "medium",   count |-> 10, pool |-> NOISE_USERS],
    [rule |-> "POL-009",     severity |-> "critical", count |-> 3,  pool |-> NOISE_USERS]>>

(* Slip: the actor is taken by the running number, not by the place within    *)
(* the rule's own alerts.                                                     *)
GenerateBaselineAlertsBySeq ==
  {LET spec == NOISE_ALERT_SPECS[x[1]]
       seq  == Seq0(NOISE_ALERT_SPECS, x[1], x[2])
   IN [id |-> <<"alert-n", seq>>, ago |-> SpreadOffset(seq, Total(NOISE_ALERT_SPECS)),
       rule |-> spec.rule, severity |-> spec.severity, actor |-> Cyclic(NOISE_USERS, seq),
       corr |-> <<"corr-noise", seq>>, evidence |-> {}]
   : x \in Pushed(NOISE_ALERT_SPECS)}

GenerateBaselineAlerts ==
  {LET spec == NOISE_ALERT_SPECS[x[1]]
       seq  == Seq0(NOISE_ALERT_SPECS, x[1], x[2])
   IN [id |-> <<"alert-n", seq>>, ago |-> SpreadOffset(seq, Total(NOISE_ALERT_SPECS)),
       rule |-> spec.rule, severity |-> spec.severity, actor |-> Cyclic(spec.pool, x[2]),
       corr |-> <<"corr-noise", seq>>, evidence |-> {}]
   : x \in Pushed(NOISE_ALERT_SPECS)}

MOCK_ALERTS == INLINE_ALERTS \cup GenerateBaselineAlerts

----------------------------------------------------------------------------
(* Responses.                                                                 *)

Answer(n, incident, corr, ago) ==
  [id |-> Resp(n), incident |-> incident, corr |-> corr, ago |-> ago]

INLINE_RESPONSES ==
  {Answer(1, 1, CORRELATION_IDS.AUTH_BRUTE, 3955),
   Answer(3, 3, CORRELATION_IDS.DOC_EXFIL, 1795),
   Answer(4, 4, CORRELATION_IDS.SVC_ABUSE, 1195),
   Answer(5, 7, Bg(7), 5760), Answer(6, 8, Bg(8), 4320), Answer(7, 9, Bg(9), 2880),
   Answer(8, 10, Bg(10), 8640), Answer(9, 11, Bg(11), 7200),
   Answer(10, 12, Bg(12), 2940), Answer(11, 13, Bg(13), 2940)}

FollowUps(incident, corr, base, spacing, count) ==
  [incident |-> incident, corr |-> corr, base |-> base, spacing |-> spacing, count |-> count]

ChainFollowUps ==
  <<FollowUps(1, CORRELATION_IDS.AUTH_BRUTE, 3950, 20, 5),
    FollowUps(2, CORRELATION_IDS.SESSION_HIJACK, 2860, 30, 2),
    FollowUps(3, CORRELATION_IDS.DOC_EXFIL, 1790, 20, 2),
    FollowUps(4, CORRELATION_IDS.SVC_ABUSE, 1190, 15, 4),
    FollowUps(5, CORRELATION_IDS.POLICY_CHANGE, 480, 30, 1),
    FollowUps(6, CORRELATION_IDS.MULTI_STAGE, 110, 20, 1)>>
BackgroundFollowUps ==
  <<FollowUps(12, Bg(12), 3500, 30, 4), FollowUps(13, Bg(13), 2950, 15, 4),
    FollowUps(14, Bg(14), 820, 30, 2), FollowUps(15, Bg(15), 700, 30, 2),
    FollowUps(16, Bg(16), 220, 20, 3), FollowUps(7, Bg(7), 6900, 60, 4),
    FollowUps(8, Bg(8), 5500, 60, 4), FollowUps(9, Bg(9), 5000, 60, 4),
    FollowUps(10, Bg(10), 9800, 90, 3), FollowUps(11, Bg(11), 8400, 90, 3)>>
NOISE_RESPONSE_SPECS == ChainFollowUps \o BackgroundFollowUps

GenerateBaselineResponses ==
  {LET spec == NOISE_RESPONSE_SPECS[x[1]] IN
     [id |-> <<"resp-n", Seq0(NOISE_RESPONSE_SPECS, x[1], x[2])>>,
      incident |-> spec.incident, corr |-> spec.corr,
      ago |-> spec.base + x[2] * spec.spacing]
   : x \in Pushed(NOISE_RESPONSE_SPECS)}

MOCK_RESPONSES == INLINE_RESPONSES \cup GenerateBaselineResponses

----------------------------------------------------------------------------
(* The filters of the mock fallback: one left out is "all", NoCorr, Never.    *)

FilterEvents(events, actor, corr, since) ==
  {e \in events : /\ actor \in {"all", e.actor}
                  /\ corr \in {NoCorr, e.corr}
                  /\ e.ago <= since}
FilterAlerts(alerts, actor, corr, rule) ==
  {a \in alerts : /\ actor \in {"all", a.actor}
                  /\ corr \in {NoCorr, a.corr}
                  /\ rule \in {"all", a.rule}}
=============================================================================
