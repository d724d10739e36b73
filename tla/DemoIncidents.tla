---------------------------- MODULE DemoIncidents ----------------------------
(* The sixteen incidents of the demo data, mock-data.ts, and the layer of     *)
(* lib/api.ts that holds a mutable copy of them.  A record keeps what other   *)
(* tables refer to, the times and the timeline; titles, confidences, risk     *)
(* scores, affected resources and the text of notes are left out.             *)
EXTENDS DemoRecords, SequencesExt

(* A timeline entry refers to an event, an alert, a response, the incident's  *)
(* own alert (inc-0007-a1: no row of MOCK_ALERTS) or its own status change.   *)
Entry(ago, kind, ref) == [ago |-> ago, kind |-> kind, ref |-> ref]
OwnAlert(n)           == <<"inc-a", n>>
Sc(n)                 == <<"sc", n>>

Incident1 ==
  [id |-> 1, corr |-> CORRELATION_IDS.AUTH_BRUTE, actor |-> "wade.hollis",
   status |-> "contained", containment |-> "session_revoked", severity |-> "high",
   rules |-> {"AUTH-001", "AUTH-002"}, events |-> Evts(1, 7),
   responses |-> {Resp(1)}, created |-> 3960, updated |-> 3950, closed |-> Never,
   notes |-> <<3949, 3700>>,
   timeline |-> <<Entry(3962, "event", Evt(1)), Entry(3960, "alert", Alert(1)),
                 Entry(3959, "event", Evt(7)), Entry(3959, "alert", Alert(2)),
                 Entry(3955, "response", Resp(1)),
                 Entry(3950, "status_change", Sc(1))>>]

Incident2 ==
  [id |-> 2, corr |-> CORRELATION_IDS.SESSION_HIJACK, actor |-> "alex.nguyen",
   status |-> "investigating", containment |-> "pending", severity |-> "high",
   rules |-> {"SESSION-003"}, events |-> Evts(10, 13),
   responses |-> {}, created |-> 2864, updated |-> 2860, closed |-> Never,
   notes |-> <<2700>>,
   timeline |-> <<Entry(2880, "event", Evt(10)), Entry(2865, "event", Evt(12)),
                 Entry(2864, "alert", Alert(3)),
                 Entry(2860, "status_change", Sc(1))>>]

Incident3 ==
  [id |-> 3, corr |-> CORRELATION_IDS.DOC_EXFIL, actor |-> "priya.shah",
   status |-> "investigating", containment |-> "download_restricted", severity |-> "critical",
   rules |-> {"DOC-004", "DOC-006"}, events |-> Evts(20, 26),
   responses |-> {Resp(3)}, created |-> 1810, updated |-> 1790, closed |-> Never,
   notes |-> <<1789, 1500>>,
   timeline |-> <<Entry(1810, "alert", Alert(4)), Entry(1805, "event", Evt(21)),
                 Entry(1802, "event", Evt(24)), Entry(1800, "alert", Alert(5)),
                 Entry(1795, "response", Resp(3)),
                 Entry(1790, "status_change", Sc(1))>>]

Incident4 ==
  [id |-> 4, corr |-> CORRELATION_IDS.SVC_ABUSE, actor |-> "svc-sat-telemetry",
   status |-> "contained", containment |-> "service_disabled", severity |-> "high",
   rules |-> {"SVC-007"}, events |-> Evts(30, 33),
   responses |-> {Resp(4)}, created |-> 1203, updated |-> 1198, closed |-> Never,
   notes |-> <<1190>>,
   timeline |-> <<Entry(1205, "event", Evt(30)), Entry(1203, "alert", Alert(6)),
                 Entry(1200, "response", Resp(4)),
                 Entry(1198, "status_change", Sc(1))>>]

Incident5 ==
  [id |-> 5, corr |-> CORRELATION_IDS.POLICY_CHANGE, actor |-> "robin.chen",
   status |-> "open", containment |-> "pending", severity |-> "critical",
   rules |-> {"ART-008", "POL-009"}, events |-> Evts(40, 43),
   responses |-> {}, created |-> 500, updated |-> 484, closed |-> Never,
   notes |-> <<470>>,
   timeline |-> <<Entry(510, "event", Evt(40)), Entry(500, "alert", Alert(7)),
                 Entry(485, "event", Evt(43)), Entry(484, "alert", Alert(8))>>]

Incident6 ==
  [id |-> 6, corr |-> CORRELATION_IDS.MULTI_STAGE, actor |-> "mira.delacroix",
   status |-> "open", containment |-> "pending", severity |-> "critical",
   rules |-> {"CORR-010"}, events |-> Evts(50, 53),
   responses |-> {}, created |-> 165, updated |-> 120, closed |-> Never,
   notes |-> <<>>,
   timeline |-> <<Entry(165, "event", Evt(50)), Entry(150, "event", Evt(51)),
                 Entry(135, "event", Evt(52)), Entry(120, "event", Evt(53)),
                 Entry(120, "alert", Alert(9))>>]

Incident7 ==
  [id |-> 7, corr |-> Bg(7), actor |-> "cron-jobs-scheduler",
   status |-> "resolved", containment |-> "false_positive_closed", severity |-> "low",
   rules |-> {"AUTH-001"}, events |-> {},
   responses |-> {Resp(5)}, created |-> 7200, updated |-> 5760, closed |-> Never,
   notes |-> <<5760>>,
   timeline |-> <<Entry(7200, "alert", OwnAlert(7)),
                 Entry(7200, "status_change", Sc(1)),
                 Entry(5760, "response", Resp(5)),
                 Entry(5760, "status_change", Sc(2))>>]

Incident8 ==
  [id |-> 8, corr |-> Bg(8), actor |-> "jessie.park",
   status |-> "resolved", containment |-> "access_revoked", severity |-> "medium",
   rules |-> {"AUTH-002"}, events |-> {},
   responses |-> {Resp(6)}, created |-> 5760, updated |-> 4320, closed |-> Never,
   notes |-> <<>>,
   timeline |-> <<Entry(5760, "alert", OwnAlert(8)),
                 Entry(5760, "status_change", Sc(1)),
                 Entry(4320, "response", Resp(6)),
                 Entry(4320, "status_change", Sc(2))>>]

Incident9 ==
  [id |-> 9, corr |-> Bg(9), actor |-> "unknown-external",
   status |-> "resolved", containment |-> "ip_blocked", severity |-> "medium",
   rules |-> {"AUTH-001"}, events |-> {},
   responses |-> {Resp(7)}, created |-> 4320, updated |-> 2880, closed |-> Never,
   notes |-> <<>>,
   timeline |-> <<Entry(4320, "alert", OwnAlert(9)),
                 Entry(2880, "response", Resp(7)),
                 Entry(2880, "status_change", Sc(1))>>]

Incident10 ==
  [id |-> 10, corr |-> Bg(10), actor |-> "cert-rotator-01",
   status |-> "closed", containment |-> "false_positive_closed", severity |-> "low",
   rules |-> {"POL-009"}, events |-> {},
   responses |-> {Resp(8)}, created |-> 10080, updated |-> 8640, closed |-> 8640,
   notes |-> <<>>,
   timeline |-> <<Entry(10080, "alert", OwnAlert(10)),
                 Entry(8640, "response", Resp(8)),
                 Entry(8640, "status_change", Sc(1))>>]

Incident11 ==
  [id |-> 11, corr |-> Bg(11), actor |-> "backup-agent-02",
   status |-> "closed", containment |-> "false_positive_closed", severity |-> "informational",
   rules |-> {"DOC-005"}, events |-> {},
   responses |-> {Resp(9)}, created |-> 8640, updated |-> 7200, closed |-> 7200,
   notes |-> <<>>,
   timeline |-> <<Entry(8640, "alert", OwnAlert(11)),
                 Entry(7200, "response", Resp(9)),
                 Entry(7200, "status_change", Sc(1))>>]

Incident12 ==
  [id |-> 12, corr |-> Bg(12), actor |-> "unknown-external",
   status |-> "contained", containment |-> "ip_blocked", severity |-> "medium",
   rules |-> {"AUTH-001"}, events |-> {},
   responses |-> {Resp(10)}, created |-> 3600, updated |-> 2880, closed |-> Never,
   notes |-> <<>>,
   timeline |-> <<Entry(3600, "alert", OwnAlert(12)),
                 Entry(2880, "response", Resp(10)),
                 Entry(2880, "status_change", Sc(1))>>]

Incident13 ==
  [id |-> 13, corr |-> Bg(13), actor |-> "operator-soc-01",
   status |-> "contained", containment |-> "session_revoked", severity |-> "low",
   rules |-> {"SESSION-003"}, events |-> {},
   responses |-> {Resp(11)}, created |-> 3000, updated |-> 2940, closed |-> Never,
   notes |-> <<2940>>,
   timeline |-> <<Entry(3000, "alert", OwnAlert(13)),
                 Entry(2940, "response", Resp(11)),
                 Entry(2940, "status_change", Sc(1))>>]

Incident14 ==
  [id |-> 14, corr |-> Bg(14), actor |-> "svc-telemetry-ingest",
   status |-> "investigating", containment |-> "active_monitoring", severity |-> "medium",
   rules |-> {"SVC-007"}, events |-> {},
   responses |-> {}, created |-> 840, updated |-> 780, closed |-> Never,
   notes |-> <<>>,
   timeline |-> <<Entry(840, "alert", OwnAlert(14)),
                 Entry(780, "status_change", Sc(1))>>]

Incident15 ==
  [id |-> 15, corr |-> Bg(15), actor |-> "robin.chen",
   status |-> "investigating", containment |-> "under_review", severity |-> "medium",
   rules |-> {"AUTH-002"}, events |-> {},
   responses |-> {}, created |-> 720, updated |-> 660, closed |-> Never,
   notes |-> <<>>,
   timeline |-> <<Entry(720, "alert", OwnAlert(15)),
                 Entry(660, "status_change", Sc(1))>>]

Incident16 ==
  [id |-> 16, corr |-> Bg(16), actor |-> "aggregate",
   status |-> "open", containment |-> "triage_pending", severity |-> "medium",
   rules |-> {"DOC-004"}, events |-> {},
   responses |-> {}, created |-> 240, updated |-> 240, closed |-> Never,
   notes |-> <<>>,
   timeline |-> <<Entry(240, "alert", OwnAlert(16))>>]

INLINE_INCIDENTS ==
  <<Incident1, Incident2, Incident3, Incident4, Incident5, Incident6, Incident7,
    Incident8, Incident9, Incident10, Incident11, Incident12, Incident13,
    Incident14, Incident15, Incident16>>

(* Each incident with the follow-ups the factory made for it.                 *)
MOCK_INCIDENTS ==
  [n \in DOMAIN INLINE_INCIDENTS |->
    LET incident == INLINE_INCIDENTS[n] IN
      [incident EXCEPT !.responses = @ \cup
        {r.id : r \in {q \in GenerateBaselineResponses : q.incident = incident.id}}]]
=============================================================================
