------------------------------ MODULE DemoTour ------------------------------
(* A visitor walks through the site while no backend answers.  The pages take *)
(* their rows from the demo data, follow each other's links, and the incident *)
(* page changes a copy of the incidents the tab keeps in memory (lib/api.ts,  *)
(* "Mock state layer").  A page load is one step: IncidentDesk models what    *)
(* happens while calls are under way.  The visitor's clock is past            *)
(* REFERENCE_NOW: the k-th edit happens k minutes after it.                   *)
EXTENDS DemoReports

CONSTANT MaxEdits   \* bound: edits between two reloads of the tab

ASSUME TourAssumption == MaxEdits \in Nat

VARIABLES
  page,       \* the page on screen, and the id in its address
  changed,    \* mockIncidentsState: where it differs from MOCK_INCIDENTS, by
              \* number, with the fields that an edit changes
  edits       \* edits made since the tab was loaded

vars == <<page, changed, edits>>

Sections == {"/", "/events", "/alerts", "/analytics", "/incidents", "/mitre",
             "/killchain", "/campaigns", "/reports"}
At(path, id) == [path |-> path, id |-> id]
NoId         == NoCorr
Statuses     == {"open", "investigating", "contained", "resolved", "closed"}

INCIDENT_STATUS_TRANSITIONS ==
  [open |-> {"investigating", "contained", "resolved"},
   investigating |-> {"contained", "resolved"}, contained |-> {"resolved"},
   resolved |-> {"closed"}, closed |-> {}]

DEFAULT_FEED_LIMIT == 200

(* The newest rows, sorted, cut to the limit a page asks for.                 *)
Newest(rows, limit) ==
  IF Cardinality(rows) <= limit THEN rows
  ELSE {r \in rows : Cardinality({q \in rows : q.ago < r.ago}) < limit}
GetEvents(corr, limit) == Newest(FilterEvents(MOCK_EVENTS, "all", corr, Never), limit)
GetAlerts(limit)       == Newest(FilterAlerts(MOCK_ALERTS, "all", NoCorr, "all"), limit)
AlertFeed              == GetAlerts(DEFAULT_FEED_LIMIT)
GetResponses           == MOCK_RESPONSES

FindMockIncident(corr) == {n \in DOMAIN MOCK_INCIDENTS : MOCK_INCIDENTS[n].corr = corr}

(* What the incident page and the alert page select for their address.        *)
Alerts1000           == GetAlerts(1000)
Alerts500            == GetAlerts(500)
ShownAlerts(corr)    == {a \in Alerts1000 : a.corr = corr}
ShownEvents(corr)    == GetEvents(corr, 200)
ShownResponses(corr) == {r \in GetResponses : r.corr = corr}
RelatedEvents        ==
  [a \in Alerts500 |->
    {e \in GetEvents(a.corr, 100) :
       IF a.evidence # {} THEN e.id \in a.evidence ELSE e.corr = a.corr \/ e.actor = a.actor}]

(* Slip: the alert is looked for among one page of alerts.                    *)
MatchedAlertsPaged(id) == {a \in GetAlerts(100) : a.id = id}

MatchedAlerts(id) == {a \in Alerts500 : a.id = id}

(* The links a page shows into the demo data.                                 *)
ToIncidents(corrs) == {At("/incidents/[id]", c) : c \in corrs}
ToAlerts(alerts)   == {At("/alerts/[id]", a.id) : a \in alerts}
AlertLinks         == ToAlerts(AlertFeed)
Links ==
  CASE page.path = "/"          -> {At(s, NoId) : s \in {"/events", "/alerts", "/incidents",
                                                         "/analytics"}}
    [] page.path = "/incidents" -> ToIncidents({i.corr : i \in Range(MOCK_INCIDENTS)})
    [] page.path = "/alerts"    -> AlertLinks
    [] page.path = "/killchain" -> ToIncidents({k.corr : k \in MOCK_KILL_CHAIN_ANALYSES})
    [] page.path = "/campaigns" -> ToIncidents(UNION {c.corrs : c \in MOCK_CAMPAIGNS})
    [] page.path = "/analytics" -> ToIncidents({h.corr : h \in MOCK_SCENARIO_HISTORY})
    [] page.path = "/incidents/[id]" -> ToAlerts(ShownAlerts(page.id)) \cup {At("/incidents", NoId)}
    [] page.path = "/alerts/[id]" ->
         {At("/alerts", NoId)}
         \cup ToIncidents({a.corr : a \in {x \in MatchedAlerts(page.id) :
                                             FindMockIncident(x.corr) # {}}})
    [] OTHER -> {}

----------------------------------------------------------------------------

(* JSON.parse(JSON.stringify(MOCK_INCIDENTS)).                                *)
Copied ==
  [n \in DOMAIN MOCK_INCIDENTS |->
    LET i == MOCK_INCIDENTS[n] IN
      [status |-> i.status, updated |-> i.updated, closed |-> i.closed,
       notes |-> i.notes, timeline |-> i.timeline]]
Incident(n) == IF n \in DOMAIN changed THEN changed[n] ELSE Copied[n]

Init ==
  /\ page = At("/", NoId)
  /\ changed = << >>
  /\ edits = 0

Navigate == \E s \in Sections : page' = At(s, NoId) /\ UNCHANGED <<changed, edits>>
FollowLink == \E l \in Links : page' = l /\ UNCHANGED <<changed, edits>>

Now    == -(edits + 1)   \* of the next edit, in minutes before REFERENCE_NOW
Edit   == edits < MaxEdits /\ edits' = edits + 1 /\ UNCHANGED page
Edited == IF page.path = "/incidents/[id]" THEN FindMockIncident(page.id) ELSE {}

(* The tab's list with this copy of incident n in it.                         *)
Replaced(n, copy) ==
  [m \in DOMAIN changed \cup {n} |-> IF m = n THEN copy ELSE changed[m]]

(* Slip: the entry goes to the head of the timeline, as in a newest-first list. *)
MutateIncidentStatusUnshift(n, status) ==
  changed' = Replaced(n, [Incident(n) EXCEPT
    !.status = status, !.updated = Now,
    !.closed = IF status = "closed" THEN Now ELSE @,
    !.timeline = <<Entry(Now, "status_change", Sc(Len(@) + 1))>> \o @])

MutateIncidentStatus(n, status) ==
  changed' = Replaced(n, [Incident(n) EXCEPT
    !.status = status, !.updated = Now,
    !.closed = IF status = "closed" THEN Now ELSE @,
    !.timeline = Append(@, Entry(Now, "status_change", Sc(Len(@) + 1)))])

MutateIncidentNote(n) ==
  changed' = Replaced(n, [Incident(n) EXCEPT !.notes = Append(@, Now), !.updated = Now])

ChangeStatus ==
  /\ Edit
  /\ \E n \in Edited : \E status \in INCIDENT_STATUS_TRANSITIONS[Incident(n).status] :
       MutateIncidentStatus(n, status)

AddNote == Edit /\ \E n \in Edited : MutateIncidentNote(n)

(* The module is evaluated afresh: the copy is MOCK_INCIDENTS again.          *)
Reload == page' = page /\ changed' = << >> /\ edits' = 0

Next == Navigate \/ FollowLink \/ ChangeStatus \/ AddNote \/ Reload

Spec == Init /\ [][Next]_vars

----------------------------------------------------------------------------

(* The incident page selects responses by correlation id and the record lists *)
(* them by number, and the factory that makes most of them fills both sides   *)
(* from one spec: whatever incident is opened, the two say the same, and each *)
(* response belongs to one incident.                                          *)
AnswersLinked ==
  \A n \in FindMockIncident(page.id) :
    /\ {r.id : r \in ShownResponses(page.id)} = MOCK_INCIDENTS[n].responses
    /\ \A r \in ShownResponses(page.id) : r.incident = n
    /\ \A m \in DOMAIN MOCK_INCIDENTS \ {n} :
         MOCK_INCIDENTS[m].responses \cap MOCK_INCIDENTS[n].responses = {}

(* "Every contributing_event_id below points to a real event in MOCK_EVENTS - *)
(* nothing dangling": a page reached by a link finds exactly one object for   *)
(* its address, the alert page finds all the evidence of an alert that lists  *)
(* any, and the incident page finds the events, and each event, alert and     *)
(* response its timeline names, among the rows it shows beside it, and the    *)
(* responses it lists.                                                        *)
NoDeadEnds ==
  /\ page.path = "/alerts/[id]" =>
       /\ Cardinality(MatchedAlerts(page.id)) = 1
       /\ \A a \in MatchedAlerts(page.id) :
            {e.id : e \in RelatedEvents[a]} = a.evidence
  /\ page.path = "/incidents/[id]" =>
       /\ Cardinality(FindMockIncident(page.id)) = 1
       /\ \A n \in FindMockIncident(page.id) :
            /\ MOCK_INCIDENTS[n].events = {e.id : e \in ShownEvents(page.id)}
            /\ \A i \in DOMAIN Incident(n).timeline :
                 LET entry == Incident(n).timeline[i] IN
                   /\ entry.kind = "event" => entry.ref \in MOCK_INCIDENTS[n].events
                   /\ entry.kind = "response" => entry.ref \in MOCK_INCIDENTS[n].responses
                   /\ entry.kind = "alert" =>
                        entry.ref \in {OwnAlert(n)} \cup {a.id : a \in ShownAlerts(page.id)}
       /\ AnswersLinked

(* The story of an incident reads from its first entry to its last, no two    *)
(* entries share an id (the id of a new one is its place), updated_at is no   *)
(* older than the last entry, and closed_at is set exactly when the incident  *)
(* is closed: in the demo data and after any edits a visitor makes.           *)
StoriesInOrder ==
  \A n \in DOMAIN MOCK_INCIDENTS :
    LET story == Incident(n).timeline IN
      /\ \A i \in 2 .. Len(story) : story[i - 1].ago >= story[i].ago
      /\ Cardinality({story[i].ref : i \in DOMAIN story}) = Len(story)
      /\ Incident(n).updated <= story[Len(story)].ago
      /\ Incident(n).closed # Never <=> Incident(n).status = "closed"

Count(S, P(_)) == Cardinality({x \in S : P(x)})
Contained == {"session_revoked", "download_restricted", "service_disabled",
              "access_revoked", "ip_blocked"}

(* "Every numeric field is derived from another mock constant so a recruiter  *)
(* checking the report tab against the metrics, analytics, or MITRE tabs sees *)
(* the same numbers everywhere": the figures on the dashboard are those of    *)
(* the rows the other pages show.  The incidents by status are those of the   *)
(* first load: an edit changes the list and not the dashboard.                *)
MetricsMatchRows ==
  page.path = "/" =>
    /\ MOCK_METRICS.total_events = Cardinality(MOCK_EVENTS)
    /\ MOCK_METRICS.total_alerts = Cardinality(MOCK_ALERTS)
    /\ MOCK_METRICS.total_incidents = Cardinality(DOMAIN MOCK_INCIDENTS)
    /\ MOCK_METRICS.total_responses = Cardinality(GetResponses)
    /\ MOCK_METRICS.active_containments =
         Count(DOMAIN MOCK_INCIDENTS, LAMBDA n : MOCK_INCIDENTS[n].containment \in Contained)
    /\ \A c \in DOMAIN MOCK_METRICS.events_by_category :
         MOCK_METRICS.events_by_category[c] = Count(MOCK_EVENTS, LAMBDA e : e.category = c)
    /\ \A s \in DOMAIN MOCK_METRICS.alerts_by_severity :
         MOCK_METRICS.alerts_by_severity[s] = Count(MOCK_ALERTS, LAMBDA a : a.severity = s)
    /\ edits = 0 => \A s \in Statuses :
         MOCK_METRICS.incidents_by_status[s] =
           Count(DOMAIN MOCK_INCIDENTS, LAMBDA n : Incident(n).status = s)

AlertsOf(corr) == {a \in MOCK_ALERTS : a.corr = corr}
EventsOf(corr) == {e \in MOCK_EVENTS : e.corr = corr}
Agos(rows)     == {r.ago : r \in rows}

(* The analytics page counts what the alert and event lists hold: triggers    *)
(* and actors of each rule, events and alerts of each run, which starts with  *)
(* its first event; a risk profile rises by one step per alert of its actor   *)
(* outside the baseline, and peaks at the last.                               *)
AnalyticsMatchRows ==
  page.path = "/analytics" =>
    /\ \A f \in MOCK_RULE_EFFECTIVENESS :
         LET fired == {a \in MOCK_ALERTS : a.rule = f.rule} IN
           /\ f.triggers = Cardinality(fired)
           /\ f.actors = Cardinality({a.actor : a \in fired})
    /\ {a.rule : a \in MOCK_ALERTS} \subseteq {f.rule : f \in MOCK_RULE_EFFECTIVENESS}
    /\ \A h \in MOCK_SCENARIO_HISTORY :
         /\ h.events = Cardinality(EventsOf(h.corr))
         /\ h.alerts = Cardinality(AlertsOf(h.corr))
         /\ h.responses = Count(INLINE_RESPONSES, LAMBDA r : r.corr = h.corr)
         /\ h.executed = Max(Agos(EventsOf(h.corr)))
         /\ h.incident \in FindMockIncident(h.corr)
    /\ \A p \in MOCK_RISK_PROFILES :
         /\ {<<x.ago, x.rule>> : x \in Range(p.history)} =
              {<<a.ago, a.rule>> : a \in {y \in INLINE_ALERTS : y.actor = p.actor}}
         /\ \A i \in DOMAIN p.history :
              p.history[i].new = SumFunctionOnSet([j \in DOMAIN p.history |-> p.history[j].delta], 1..i)
         /\ p.peak = Max({x.new : x \in Range(p.history)})
         /\ p.current <= p.peak

Phase(name)  == CHOOSE k \in 1..7 : KILL_CHAIN_STAGE_TEMPLATES[k] = name
Firing(corr) == {t \in MOCK_TTP_MAPPINGS : t.rule \in {a.rule : a \in AlertsOf(corr)}}

(* A kill chain shows as detected exactly the phases of the rules that fired  *)
(* on its chain, each with the rules that show it and a time of an event of   *)
(* the chain; the highest stage and the percentage follow from them, and the  *)
(* first and last activity are the chain's.                                   *)
KillChainsMatchAlerts ==
  page.path = "/killchain" =>
    \A k \in MOCK_KILL_CHAIN_ANALYSES :
      LET seen == {i \in 1..7 : k.stages[i].detected} IN
        /\ k.incident \in FindMockIncident(k.corr)
        /\ MOCK_INCIDENTS[k.incident].actor = k.actor
        /\ {k.stages[i].name : i \in seen} = UNION {t.phases : t \in Firing(k.corr)}
        /\ \A i \in seen :
             /\ k.stages[i].rules = {t.rule : t \in {x \in Firing(k.corr) :
                                                       k.stages[i].name \in x.phases}}
             /\ k.stages[i].first \in Agos(EventsOf(k.corr))
        /\ k.percent = (Cardinality(seen) * 100) \div 7
        /\ Phase(k.highest) = Max(seen)
        /\ k.first = Max(Agos(EventsOf(k.corr))) /\ k.last = Min(Agos(EventsOf(k.corr)))

ScenariosOf(rules) ==
  {h.scenario : h \in {x \in MOCK_SCENARIO_HISTORY : \E a \in AlertsOf(x.corr) : a.rule \in rules}}
CoveredOf(tactic)  == {c \in MOCK_MITRE_COVERAGE : c.tactic = tactic /\ c.rules # {}}

(* The matrix has one row per tactic of each technique, with the rules mapped *)
(* to both and the scenarios whose runs fired one of them, and the summary    *)
(* counts its rows; a campaign shares the techniques all its chains show and  *)
(* spans their activity; the exercise report repeats the figures of the rest. *)
ReportsMatchTables ==
  /\ page.path = "/mitre" =>
       /\ {<<c.tactic, c.technique>> : c \in MOCK_MITRE_COVERAGE} =
            UNION {{<<tactic, t>> : tactic \in MOCK_MITRE_TECHNIQUES[t]}
                   : t \in DOMAIN MOCK_MITRE_TECHNIQUES}
       /\ \A c \in MOCK_MITRE_COVERAGE :
            /\ c.rules = {t.rule : t \in {x \in MOCK_TTP_MAPPINGS :
                                            c.tactic \in x.tactics /\ c.technique \in x.techniques}}
            /\ c.scenarios = ScenariosOf(c.rules)
       /\ \A t \in MOCK_MITRE_TACTICS :
            LET all     == Count(MOCK_MITRE_COVERAGE, LAMBDA c : c.tactic = t)
                covered == Cardinality(CoveredOf(t))
            IN MOCK_TACTIC_COVERAGE[t] = <<covered, all, (covered * 100) \div all>>
  /\ page.path = "/campaigns" =>
       \A c \in MOCK_CAMPAIGNS :
         LET runs == {h \in MOCK_SCENARIO_HISTORY : h.corr \in c.corrs}
             agos == UNION {Agos(EventsOf(x)) : x \in c.corrs}
         IN /\ c.ttps = {t \in DOMAIN MOCK_MITRE_TECHNIQUES :
                           \A h \in runs : t \in ComputeScenarioTTPs(h.scenario)}
            /\ c.first = Max(agos) /\ c.last = Min(agos)
  /\ page.path = "/reports" =>
       LET r == MOCK_EXERCISE_REPORT IN
         /\ r.scenarios_executed = Cardinality(MOCK_SCENARIO_HISTORY)
         /\ r.rules_total = Cardinality(MOCK_RULE_EFFECTIVENESS)
         /\ r.rules_triggered = Count(MOCK_RULE_EFFECTIVENESS, LAMBDA f : f.triggers > 0)
         /\ r.responses_total = Cardinality(GetResponses)
         /\ r.highest_peak_score = Max({p.peak : p \in MOCK_RISK_PROFILES})
         /\ \E p \in MOCK_RISK_PROFILES : p.actor = r.highest_risk_actor /\ p.peak = r.highest_peak_score
         /\ r.tactics_covered = {c.tactic : c \in {x \in MOCK_MITRE_COVERAGE : x.rules # {}}}
         /\ r.techniques_covered = {c.technique : c \in {x \in MOCK_MITRE_COVERAGE : x.rules # {}}}
         /\ r.coverage_percentage =
              MapThenSumSet(LAMBDA t : MOCK_TACTIC_COVERAGE[t][3], MOCK_MITRE_TACTICS)
                \div Cardinality(MOCK_MITRE_TACTICS)

(* A visitor who compares one page with another finds the same figures, and   *)
(* finds them after an edit too.                                              *)
FiguresMatchRows ==
  MetricsMatchRows /\ AnalyticsMatchRows /\ KillChainsMatchAlerts /\ ReportsMatchTables
=============================================================================
