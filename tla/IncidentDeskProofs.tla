------------------------- MODULE IncidentDeskProofs -------------------------
(***************************************************************************)
(* What holds of IncidentDesk for any number of tabs, incidents, roles,    *)
(* analysts' moves and failures.                                           *)
(***************************************************************************)
EXTENDS IncidentDesk, SequenceTheorems, TLAPS

-----------------------------------------------------------------------------
(* The inductive invariant                                                 *)

Incidents == LiveIncidents \cup DemoIncidents
Verdicts  == {"pending", "live", "down"}
Shown     == {"none", "live", "demo"}
Kinds     == {"none", "incident", "alert", "list"}
Page      == [kind : Kinds, incident : Incidents \cup {None}, run : BOOLEAN,
              shown : Shown, status : Statuses \cup {None},
              parts : [Parts -> Shown], notes : SUBSET Nat, loading : BOOLEAN,
              updating : BOOLEAN, submitting : BOOLEAN, error : BOOLEAN]
Auth      == [user : Roles \cup {None}, capabilities : Roles \cup {None},
              booting : BOOLEAN, expires : BOOLEAN, stored : BOOLEAN]
Requests  == [tab : Tabs \cup {None}, slot : {"status", "note"}, edit : Edits,
              from : Statuses \cup {None}]

(* The state of the client, of the backend and of the pages has its shape. *)
ClientTypes ==
  /\ up \in BOOLEAN /\ faults \in Nat /\ trusted \subseteq Tabs
  /\ probes \in [Tabs -> Seq(Verdicts)]
  /\ cached \in [Tabs -> Nat]
  /\ \A t \in Tabs : cached[t] <= Len(probes[t])
  /\ calls \in [Tabs -> [Slots -> Calls \cup {None}]]
BackendTypes ==
  /\ status \in [LiveIncidents -> Statuses]
  /\ said \in [LiveIncidents -> SUBSET Statuses]
  /\ posted \in [LiveIncidents -> SUBSET Nat]
  /\ threads \subseteq Requests
  /\ session \in [Tabs -> Roles \cup {None}]
TabTypes ==
  /\ auth \in [Tabs -> Auth] /\ page \in [Tabs -> Page]
  /\ mock \in [Tabs -> [DemoIncidents -> [status : Statuses, notes : SUBSET Nat]]]
  /\ moves \in Nat
Types == ClientTypes /\ BackendTypes /\ TabTypes

(* The signed-in tabs that nothing went wrong for have no down verdict.    *)
Trust ==
  /\ ~up => trusted = {}
  /\ \A t \in trusted : cached[t] = 0 \/ probes[t][cached[t]] # "down"

(* A login answers with who signed in.                                     *)
Vouched(c) == /\ c.op = "login" => c.args \in Roles
              /\ c.answer \in Roles \cup {None}
              /\ c.stage = "answered" => c.answer # None
(* The expiry is stored as it is shown, and not shown without a user.      *)
Fitting(a) == a.stored = a.expires /\ (~a.booting /\ a.expires => a.user # None)
Identity ==
  \A t \in Tabs :
    LET c == calls[t].identity
    IN  /\ c # None => Vouched(c)
        /\ Fitting(auth[t])

(* The calls a load goes through, by the kind of its page.                 *)
LoadOps ==
  [incident |-> {"incident", "missionIncident", "extras", "profile"},
   alert    |-> {"alerts", "related", "incident"},
   list     |-> {"list"},
   none     |-> {}]
Loads ==
  \A t \in Tabs :
    /\ page[t].loading <=> calls[t].load # None
    /\ calls[t].load # None => calls[t].load.op \in LoadOps[page[t].kind]
    /\ page[t].kind \in {"incident", "alert"} => page[t].incident \in Incidents
    /\ page[t].kind \in {"none", "list"} => page[t].incident = None
    /\ page[t].run => page[t].incident \in LiveIncidents

(* A page that waits for an edit waits for one of its incident.            *)
EditsFit ==
  \A t \in Tabs :
    /\ page[t].updating =>
         calls[t].status # None /\ calls[t].status.args.incident = page[t].incident
    /\ page[t].submitting =>
         calls[t].note # None /\ calls[t].note.args.incident = page[t].incident

(* An edit that is answered was made, and of a live incident.              *)
StatusMade(c) ==
  /\ c.op = "status" /\ c.args \in Edits /\ c.args.to \in Statuses
  /\ c.stage = "answered" =>
       /\ c.args.incident \in LiveIncidents /\ c.answer = c.args.to
       /\ c.args.to \in said[c.args.incident]
NoteMade(c) ==
  /\ c.op \in {"note", "notes"} /\ c.args \in Edits
  /\ c.op = "note" /\ c.stage = "answered" =>
       c.args.incident \in LiveIncidents /\ c.args.id \in posted[c.args.incident]
EditsMade ==
  \A t \in Tabs : /\ calls[t].status # None => StatusMade(calls[t].status)
                  /\ calls[t].note # None => NoteMade(calls[t].note)

(* A request past its check asks for a move that was legal at the check.   *)
Checked ==
  /\ \A i \in LiveIncidents : status[i] \in said[i]
  /\ \A th \in threads :
       /\ th.slot = "status" => th.edit.to \in Statuses
       /\ th.slot = "status" /\ th.from # None =>
            /\ th.edit.incident \in LiveIncidents
            /\ th.edit.to \in ValidTransitions[th.from]

(* A page that shows a live incident shows nothing of the demo, and what   *)
(* is shown as live is a live incident.                                    *)
Honest(p) ==
  /\ p.incident \in LiveIncidents =>
       /\ p.shown # "demo" /\ \A part \in Parts : p.parts[part] # "demo"
       /\ p.notes \subseteq posted[p.incident]
       /\ p.kind = "incident" /\ p.shown = "live" => p.status \in said[p.incident]
  /\ p.kind = "incident" /\ p.shown = "live" => p.incident \in LiveIncidents
PagesHonest == \A t \in Tabs : Honest(page[t])

DeskInv == /\ Types /\ Trust /\ Identity /\ Loads /\ EditsFit /\ EditsMade
           /\ Checked /\ PagesHonest /\ EditsTold

-----------------------------------------------------------------------------
(* The client                                                              *)

Live(u) == cached[u] = 0 \/ probes[u][cached[u]] # "down"

(* What a step does that puts a call in a slot of a tab.                   *)
Posed(t, slot, op, args) ==
  /\ \E c \in Calls :
       /\ c.op = op /\ c.args = args /\ c.stage # "answered" /\ c.answer = None
       /\ calls' = [calls EXCEPT ![t][slot] = c]
  /\ probes' \in [Tabs -> Seq(Verdicts)] /\ cached' \in [Tabs -> Nat]
  /\ \A u \in Tabs : /\ cached'[u] <= Len(probes'[u])
                     /\ Live(u) => Live(u)'

(* A call behind the probe is posed, and makes no verdict.                 *)
LEMMA AskPoses ==
  ASSUME ClientTypes, NEW t \in Tabs, NEW slot \in Slots, NEW op \in Ops,
         NEW args \in Edits \cup Roles \cup {<<>>}, Ask(t, slot, op, args)
  PROVE  Posed(t, slot, op, args)
  <1> DEFINE i == Promise(t)
             c == Call(op, args, i, StageOn(Probed(t)[i]))
  <1>1. /\ Probed(t) \in Seq(Verdicts) /\ Len(Probed(t)) \in Nat
        /\ i \in Nat /\ 1 <= i /\ i <= Len(Probed(t))
    BY DEF ClientTypes, Promise, Probed, Verdicts
  <1>2. Probed(t)[i] \in Verdicts
    BY <1>1
  <1>3. StageOn(Probed(t)[i]) \in {"probing", "sent", "failed"}
    BY <1>2 DEF StageOn, Verdicts
  <1>4. c \in Calls
    BY <1>1, <1>3 DEF Calls, Call
  <1>5. /\ c.op = op /\ c.args = args /\ c.stage # "answered" /\ c.answer = None
    BY <1>3 DEF Call
  <1>6. Live(t) => cached[t] = 0 \/ Probed(t)[i] # "down"
    BY DEF Live, Promise, Probed
  <1>7. cached[t] = 0 => Probed(t)[i] = "pending"
    BY DEF ClientTypes, Promise, Probed, Verdicts
  <1> HIDE DEF c, i
  <1>8. calls' = [calls EXCEPT ![t][slot] = c]
    BY DEF Ask, c, i
  <1>9. probes' = [probes EXCEPT ![t] = Probed(t)] /\ cached' = [cached EXCEPT ![t] = i]
    BY DEF Ask, i
  <1> QED
    BY <1>1, <1>4, <1>5, <1>6, <1>7, <1>8, <1>9 DEF Posed, ClientTypes, Live

(* A call on a probe of its own is posed.                                  *)
LEMMA AskAfreshPoses ==
  ASSUME ClientTypes, NEW t \in Tabs, NEW slot \in Slots, NEW op \in Ops,
         NEW args \in Edits \cup Roles \cup {<<>>}, AskAfresh(t, slot, op, args)
  PROVE  Posed(t, slot, op, args)
  <1> DEFINE i == Len(probes[t]) + 1
             c == Call(op, args, i, "probing")
  <1>1. i \in Nat /\ Append(probes[t], "pending") \in Seq(Verdicts)
    BY DEF ClientTypes, Verdicts
  <1>2. c \in Calls /\ c.op = op /\ c.args = args /\ c.stage = "probing" /\ c.answer = None
    BY <1>1 DEF Calls, Call
  <1>3. /\ Append(probes[t], "pending")[i] = "pending"
        /\ i <= Len(Append(probes[t], "pending"))
    BY DEF ClientTypes
  <1>4. /\ calls' = [calls EXCEPT ![t][slot] = c]
        /\ probes' = [probes EXCEPT ![t] = Append(@, "pending")]
        /\ cached' = [cached EXCEPT ![t] = i]
    BY DEF AskAfresh
  <1> HIDE DEF c, i
  <1> QED
    BY <1>1, <1>2, <1>3, <1>4 DEF Posed, ClientTypes, Live

(* A request that does not look at the probe is posed.                     *)
LEMMA RequestPoses ==
  ASSUME ClientTypes, NEW t \in Tabs, NEW slot \in Slots, NEW op \in Ops,
         NEW args \in Edits \cup Roles \cup {<<>>}, Request(t, slot, op, args)
  PROVE  Posed(t, slot, op, args)
  <1> DEFINE c == Call(op, args, 0, "sent")
  <1>1. c \in Calls /\ c.op = op /\ c.args = args /\ c.stage = "sent" /\ c.answer = None
    BY DEF Calls, Call
  <1>2. calls' = [calls EXCEPT ![t][slot] = c] /\ UNCHANGED <<probes, cached>>
    BY DEF Request
  <1> HIDE DEF c
  <1> QED
    BY <1>1, <1>2 DEF Posed, ClientTypes, Live

-----------------------------------------------------------------------------
(* Loads                                                                   *)

(* What a step of a load does to its page p, which becomes q.              *)
Fills(p, q) ==
  /\ q.kind = p.kind /\ q.incident = p.incident /\ q.run = p.run
  /\ q.updating = p.updating /\ q.submitting = p.submitting
  /\ Honest(q)

(* An honest page that waits for no edit but those page p waits for.       *)
Succeeds(p, q) ==
  /\ q.kind \in {"incident", "alert"} => q.incident \in Incidents
  /\ q.kind \in {"none", "list"} => q.incident = None
  /\ q.run => q.incident \in LiveIncidents
  /\ q.updating => p.updating /\ q.incident = p.incident
  /\ q.submitting => p.submitting /\ q.incident = p.incident
  /\ Honest(q)

(* What a step does to a tab whose load it begins, goes on with or ends.   *)
LoadEffect(t) ==
  /\ UNCHANGED <<up, trusted, backendVars, auth, mock, told>>
  /\ faults' \in Nat /\ moves' \in Nat
  /\ \E q \in Page :
       /\ Succeeds(page[t], q) /\ page' = [page EXCEPT ![t] = q]
       /\ \/ q.loading /\ \E op \in LoadOps[q.kind] : Posed(t, "load", op, <<>>)
          \/ /\ ~q.loading /\ calls' = [calls EXCEPT ![t]["load"] = None]
             /\ UNCHANGED <<probes, cached>>

(* The rows of a part are of the backend or, of a demo incident, the demo. *)
LEMMA RowsHonest ==
  ASSUME NEW part \in Parts, NEW i, NEW limit \in Nat, NEW ok \in BOOLEAN
  PROVE  /\ Rows(part, i, limit, ok) \in Shown
         /\ i \in LiveIncidents => Rows(part, i, limit, ok) # "demo"
  BY DeskAssumption DEF Rows, Fallback, Shown

(* Any operation of a load is one of a call, and posed behind the probe.    *)
LEMMA LoadPoses ==
  ASSUME ClientTypes, NEW t \in Tabs, NEW k \in Kinds, NEW op \in LoadOps[k],
         Ask(t, "load", op, <<>>)
  PROVE  Posed(t, "load", op, <<>>)
  <1>1. op \in Ops
    BY DEF LoadOps, Kinds, Ops
  <1>2. "load" \in Slots /\ <<>> \in Edits \cup Roles \cup {<<>>}
    BY DEF Slots
  <1> QED
    BY <1>1, <1>2, AskPoses

(* A load that a call comes back to is under way, on a page of its kind.   *)
LEMMA LoadUnderWay ==
  ASSUME DeskInv, NEW t \in Tabs, NEW op, Back(t, op)
  PROVE  /\ page[t] \in Page /\ page[t].loading /\ Honest(page[t])
         /\ op \in LoadOps[page[t].kind]
  BY DEF Back, Answered, Failed, At, DeskInv, Types, TabTypes, Loads, PagesHonest, Honest

(* A load that goes on from an honest page has the effect of a load.       *)
LEMMA LoadGoesOn ==
  ASSUME DeskInv, NEW t \in Tabs, NEW q \in Page, NEW op \in LoadOps[q.kind],
         Fills(page[t], q), q.loading, Loading(t, q), Ask(t, "load", op, <<>>),
         UNCHANGED <<up, trusted, backendVars, auth, mock, told, moves>>, faults' \in Nat
  PROVE  LoadEffect(t)
  <1>1. q.kind \in Kinds
    BY DEF Page
  <1>2. Posed(t, "load", op, <<>>)
    BY <1>1, LoadPoses DEF DeskInv, Types
  <1>3. Succeeds(page[t], q)
    BY DEF Succeeds, Fills, DeskInv, Loads
  <1> QED
    BY <1>2, <1>3 DEF LoadEffect, Loading, DeskInv, Types, TabTypes

(* So has one that ends.                                                   *)
LEMMA LoadEnds ==
  ASSUME DeskInv, NEW t \in Tabs, NEW q \in Page,
         Fills(page[t], q), ~q.loading, Loading(t, q), Done(t, "load"),
         UNCHANGED <<up, trusted, backendVars, auth, mock, told, moves>>, faults' \in Nat
  PROVE  LoadEffect(t)
  <1>1. Succeeds(page[t], q)
    BY DEF Succeeds, Fills, DeskInv, Loads
  <1> QED
    BY <1>1 DEF LoadEffect, Loading, Done, DeskInv, Types, TabTypes

(* The page asks for its incident first, and goes on if there is one.      *)
LEMMA LoadIncidentFills ==
  ASSUME DeskInv, NEW t \in Tabs, LoadIncident(t)
  PROVE  LoadEffect(t)
  <1> DEFINE p == page[t]
             op == FirstCall("incident", p.run)
             live == /\ p.incident \in LiveIncidents /\ Answered(t, "load", op)
                     /\ session[t] # None \/ p.run
             shown == IF live THEN "live"
                      ELSE IF p.run THEN "none" ELSE Fallback(p.incident)
  <1>1. p \in Page /\ p.kind = "incident" /\ p.loading /\ Honest(p)
    BY DEF LoadIncident, Back, Answered, Failed, At, DeskInv, Types, TabTypes, Loads,
           PagesHonest, Honest
  <1>2. shown \in Shown /\ (p.incident \in LiveIncidents => shown # "demo")
    BY DeskAssumption DEF Fallback, Shown
  <1> DEFINE st == IF live THEN status[p.incident] ELSE None
             blank == [p EXCEPT !.loading = FALSE, !.error = TRUE]
             q == [p EXCEPT !.shown = shown, !.status = st]
  <1>3. /\ st \in Statuses \cup {None}
        /\ p.incident \in LiveIncidents /\ shown = "live" => st \in said[p.incident]
        /\ shown = "live" => p.incident \in LiveIncidents
    BY DEF Fallback, DeskInv, Types, BackendTypes, Checked
  <1>4. /\ shown = "none" => Loading(t, blank) /\ Done(t, "load")
        /\ shown # "none" => Loading(t, q) /\ Ask(t, "load", "extras", <<>>)
        /\ LoadStep
    BY DEF LoadIncident
  <1> HIDE DEF st, shown
  <1>5. blank \in Page /\ ~blank.loading /\ Fills(p, blank)
    BY <1>1 DEF Page, Fills, Honest
  <1>6. q \in Page /\ q.loading /\ q.kind = "incident" /\ Fills(p, q)
    BY <1>1, <1>2, <1>3 DEF Page, Fills, Honest
  <1> HIDE DEF blank, q
  <1>7. "extras" \in LoadOps[q.kind]
    BY <1>6 DEF LoadOps
  <1>8. CASE shown = "none"
    BY <1>4, <1>5, <1>8, LoadEnds DEF LoadStep, DeskInv, Types, ClientTypes
  <1>9. CASE shown # "none"
    BY <1>4, <1>6, <1>7, <1>9, LoadGoesOn DEF LoadStep, DeskInv, Types, ClientTypes
  <1> QED
    BY <1>8, <1>9

(* Alerts, events, responses and notes, whichever of them are lost.        *)
LEMMA LoadExtrasFills ==
  ASSUME DeskInv, NEW t \in Tabs, LoadExtras(t)
  PROVE  LoadEffect(t)
  <1> DEFINE p == page[t]
  <1>1. p \in Page /\ p.loading /\ Honest(p) /\ p.kind = "incident"
    BY LoadUnderWay DEF LoadExtras, LoadOps, Page, Kinds
  <1>2. PICK got \in SUBSET (Parts \cup {"notes"}) :
          Loading(t, [p EXCEPT !.parts = Extras(p.incident, got),
                        !.notes = GetIncidentNotes(t, p.incident, "notes" \in got)])
    BY DEF LoadExtras
  <1> DEFINE parts == Extras(p.incident, got)
             notes == GetIncidentNotes(t, p.incident, "notes" \in got)
             q == [p EXCEPT !.parts = parts, !.notes = notes]
  <1>3. /\ parts \in [Parts -> Shown]
        /\ p.incident \in LiveIncidents => \A part \in Parts : parts[part] # "demo"
    BY DeskAssumption DEF Extras, Rows, Fallback, Parts, Shown
  <1>4. /\ notes \in SUBSET Nat
        /\ p.incident \in LiveIncidents => notes \subseteq posted[p.incident]
    BY <1>1, DeskAssumption
       DEF GetIncidentNotes, DeskInv, Types, BackendTypes, TabTypes, Page
  <1> HIDE DEF parts, notes
  <1>5. q \in Page /\ q.loading /\ q.kind = "incident" /\ Fills(p, q)
    BY <1>1, <1>3, <1>4 DEF Page, Fills, Honest
  <1>6. Loading(t, q)
    BY <1>2 DEF parts, notes
  <1>7. /\ Ask(t, "load", "profile", <<>>)
        /\ UNCHANGED <<up, trusted, backendVars, auth, mock, told, moves>>
        /\ faults' \in Nat
    BY DEF LoadExtras, DeskInv, Types, ClientTypes
  <1> HIDE DEF q
  <1>8. "profile" \in LoadOps[q.kind]
    BY <1>5 DEF LoadOps
  <1> QED
    BY <1>5, <1>6, <1>7, <1>8, LoadGoesOn

(* The actor's profile ends the load of an incident.                       *)
LEMMA LoadProfileFills ==
  ASSUME DeskInv, NEW t \in Tabs, LoadProfile(t)
  PROVE  LoadEffect(t)
  <1> DEFINE p == page[t]
             rows == Rows("profile", p.incident, 0, Well(t, "profile"))
             q == [p EXCEPT !.loading = FALSE, !.parts.profile = rows]
  <1>1. p \in Page /\ Honest(p)
    BY LoadUnderWay DEF LoadProfile
  <1>2. rows \in Shown /\ (p.incident \in LiveIncidents => rows # "demo")
    BY DeskAssumption DEF Rows, Fallback, Shown
  <1>3. Loading(t, q) /\ Done(t, "load") /\ LoadStep
    BY DEF LoadProfile
  <1> HIDE DEF rows
  <1>4. q \in Page /\ ~q.loading /\ Fills(p, q)
    BY <1>1, <1>2 DEF Page, Fills, Honest, Parts
  <1> HIDE DEF q
  <1> QED
    BY <1>3, <1>4, LoadEnds DEF LoadStep, DeskInv, Types, ClientTypes

(* The alert page goes on if it finds its alert.                           *)
LEMMA LoadAlertFills ==
  ASSUME DeskInv, NEW t \in Tabs, LoadAlert(t)
  PROVE  LoadEffect(t)
  <1> DEFINE p == page[t]
             rows == Rows("alerts", p.incident, 500, Well(t, "alerts"))
             goes == (rows # "none")
             q == [p EXCEPT !.parts.alerts = rows, !.loading = goes]
  <1>1. p \in Page /\ Honest(p) /\ p.kind = "alert"
    BY LoadUnderWay DEF LoadAlert, LoadOps, Page, Kinds
  <1>2. rows \in Shown /\ (p.incident \in LiveIncidents => rows # "demo")
    BY DeskAssumption DEF Rows, Fallback, Shown
  <1>3. /\ Loading(t, q) /\ LoadStep
        /\ ~goes => Done(t, "load")
        /\ goes => Ask(t, "load", "related", <<>>)
    BY DEF LoadAlert
  <1>4. goes \in BOOLEAN
    OBVIOUS
  <1> HIDE DEF rows, goes
  <1>5. q \in Page /\ q.loading = goes /\ q.kind = "alert" /\ Fills(p, q)
    BY <1>1, <1>2, <1>4 DEF Page, Fills, Honest, Parts
  <1> HIDE DEF q
  <1>6. "related" \in LoadOps[q.kind]
    BY <1>5 DEF LoadOps
  <1>7. CASE goes
    BY <1>3, <1>5, <1>6, <1>7, LoadGoesOn DEF LoadStep, DeskInv, Types, ClientTypes
  <1>8. CASE ~goes
    BY <1>3, <1>5, <1>8, LoadEnds DEF LoadStep, DeskInv, Types, ClientTypes
  <1> QED
    BY <1>7, <1>8

(* The events and responses of an alert.                                   *)
LEMMA LoadRelatedFills ==
  ASSUME DeskInv, NEW t \in Tabs, LoadRelated(t)
  PROVE  LoadEffect(t)
  <1> DEFINE p == page[t]
             events == Rows("events", p.incident, 100, Well(t, "related"))
             responses == Rows("responses", p.incident, 0, Well(t, "related"))
             q == [p EXCEPT !.parts.events = events, !.parts.responses = responses]
  <1>1. p \in Page /\ p.loading /\ Honest(p) /\ p.kind = "alert"
    BY LoadUnderWay DEF LoadRelated, LoadOps, Page, Kinds
  <1>2. /\ events \in Shown /\ responses \in Shown
        /\ p.incident \in LiveIncidents => events # "demo" /\ responses # "demo"
    BY DeskAssumption DEF Rows, Fallback, Shown
  <1>3. Loading(t, q) /\ Ask(t, "load", "incident", <<>>) /\ LoadStep
    BY DEF LoadRelated
  <1> HIDE DEF events, responses
  <1>4. q \in Page /\ q.loading /\ q.kind = "alert" /\ Fills(p, q)
    BY <1>1, <1>2 DEF Page, Fills, Honest, Parts
  <1> HIDE DEF q
  <1>5. "incident" \in LoadOps[q.kind]
    BY <1>4 DEF LoadOps
  <1> QED
    BY <1>3, <1>4, <1>5, LoadGoesOn DEF LoadStep, DeskInv, Types, ClientTypes

(* The incident of an alert ends its load.                                 *)
LEMMA LoadAlertIncidentFills ==
  ASSUME DeskInv, NEW t \in Tabs, LoadAlertIncident(t)
  PROVE  LoadEffect(t)
  <1> DEFINE p == page[t]
             live == p.incident \in LiveIncidents /\ Well(t, "incident")
             shown == IF live THEN "live" ELSE Fallback(p.incident)
             st == IF live THEN status[p.incident] ELSE None
             q == [p EXCEPT !.loading = FALSE, !.shown = shown, !.status = st]
  <1>1. p \in Page /\ Honest(p) /\ p.kind = "alert"
    BY LoadUnderWay DEF LoadAlertIncident
  <1>2. shown \in Shown /\ (p.incident \in LiveIncidents => shown # "demo")
    BY DeskAssumption DEF Fallback, Shown
  <1>3. st \in Statuses \cup {None}
    BY DEF DeskInv, Types, BackendTypes
  <1>4. Loading(t, q) /\ Done(t, "load") /\ LoadStep
    BY DEF LoadAlertIncident
  <1> HIDE DEF shown, st
  <1>5. q \in Page /\ ~q.loading /\ Fills(p, q)
    BY <1>1, <1>2, <1>3 DEF Page, Fills, Honest
  <1> HIDE DEF q
  <1> QED
    BY <1>4, <1>5, LoadEnds DEF LoadStep, DeskInv, Types, ClientTypes

(* The list of incidents is one call.                                      *)
LEMMA LoadListFills ==
  ASSUME DeskInv, NEW t \in Tabs, LoadList(t)
  PROVE  LoadEffect(t)
  <1> DEFINE p == page[t]
             shown == IF Well(t, "list") /\ LiveIncidents # {} THEN "live" ELSE "demo"
             q == [p EXCEPT !.loading = FALSE, !.shown = shown]
  <1>1. p \in Page /\ p.incident \notin LiveIncidents /\ p.kind = "list"
    <2>1. p \in Page /\ p.kind = "list"
      BY LoadUnderWay DEF LoadList, LoadOps, Page, Kinds
    <2> QED
      BY <2>1, NoneAssumption DEF DeskInv, Loads
  <1>2. shown \in Shown
    BY DEF Shown
  <1>3. Loading(t, q) /\ Done(t, "load") /\ LoadStep
    BY DEF LoadList
  <1> HIDE DEF shown
  <1>4. q \in Page /\ ~q.loading /\ Fills(p, q)
    BY <1>1, <1>2 DEF Page, Fills, Honest
  <1> HIDE DEF q
  <1> QED
    BY <1>3, <1>4, LoadEnds DEF LoadStep, DeskInv, Types, ClientTypes

(* A step of a load keeps the invariant.                                   *)
LEMMA LoadKeeps ==
  ASSUME DeskInv, NEW t \in Tabs, LoadEffect(t)
  PROVE  DeskInv'
  <1> USE DEF DeskInv, Types
  <1>1. PICK q \in Page :
          /\ Succeeds(page[t], q) /\ page' = [page EXCEPT ![t] = q]
          /\ \/ q.loading /\ \E op \in LoadOps[q.kind] : Posed(t, "load", op, <<>>)
             \/ /\ ~q.loading /\ calls' = [calls EXCEPT ![t]["load"] = None]
                /\ UNCHANGED <<probes, cached>>
    BY DEF LoadEffect
  <1>2. PICK c \in Calls \cup {None} :
          /\ calls' = [calls EXCEPT ![t]["load"] = c]
          /\ q.loading <=> c # None
          /\ c # None => c.op \in LoadOps[q.kind]
    <2>1. CASE q.loading
      <3>1. PICK op \in LoadOps[q.kind] : Posed(t, "load", op, <<>>)
        BY <1>1, <2>1
      <3>2. PICK c \in Calls : c.op = op /\ calls' = [calls EXCEPT ![t]["load"] = c]
        BY <3>1 DEF Posed
      <3>3. c # None
        BY NoneAssumption
      <3> QED
        BY <2>1, <3>2, <3>3
    <2>2. CASE ~q.loading
      BY <1>1, <2>2
    <2> QED
      BY <2>1, <2>2
  <1>3. /\ probes' \in [Tabs -> Seq(Verdicts)] /\ cached' \in [Tabs -> Nat]
        /\ \A u \in Tabs : cached'[u] <= Len(probes'[u]) /\ (Live(u) => Live(u)')
    BY <1>1 DEF Posed, ClientTypes, Live
  <1>4. /\ UNCHANGED <<up, trusted, status, said, posted, threads, session, auth,
                       mock, told>>
        /\ faults' \in Nat /\ moves' \in Nat
    BY DEF LoadEffect, backendVars
  <1>5. Types'
    BY <1>1, <1>2, <1>3, <1>4 DEF ClientTypes, BackendTypes, TabTypes, Slots
  <1>6. Trust'
    BY <1>3, <1>4 DEF Trust, Live, ClientTypes
  <1>7. Identity'
    BY <1>2, <1>4 DEF Identity, ClientTypes, Slots
  <1>8. Loads'
    BY <1>1, <1>2 DEF Loads, Succeeds, ClientTypes, TabTypes, Slots
  <1>9. EditsFit' /\ EditsMade'
    <2>1. EditsFit'
      BY <1>1, <1>2, <1>4 DEF EditsFit, Succeeds, ClientTypes, TabTypes, Slots
    <2>2. EditsMade'
      BY <1>1, <1>2, <1>4 DEF EditsMade, StatusMade, NoteMade, Succeeds, ClientTypes,
                              Slots
    <2> QED
      BY <2>1, <2>2
  <1>10. Checked' /\ EditsTold'
    BY <1>4 DEF Checked, EditsTold
  <1>11. PagesHonest'
    BY <1>1, <1>4 DEF PagesHonest, Honest, Succeeds, TabTypes
  <1> QED
    BY <1>5, <1>6, <1>7, <1>8, <1>9, <1>10, <1>11

(* The page that is shown first.                                           *)
LEMMA BlankIsPage ==
  /\ Blank \in Page
  /\ Blank.kind = "none" /\ Blank.incident = None /\ ~Blank.run /\ ~Blank.loading
  /\ Blank.shown = "none" /\ \A part \in Parts : Blank.parts[part] = "none"
  /\ Blank.notes = {} /\ ~Blank.updating /\ ~Blank.submitting
  BY DEF Blank, Page, NoParts, Parts, Kinds, Shown

(* Opening a page keeps the invariant.                                     *)
LEMMA OpenKeeps ==
  ASSUME DeskInv, NEW t \in Tabs, NEW kind \in {"incident", "alert", "list"}, NEW i,
         NEW run \in BOOLEAN, Open(t, kind, i, run),
         IF kind = "list" THEN i = None /\ ~run ELSE i \in Incidents
  PROVE  DeskInv'
  <1> DEFINE q == [Blank EXCEPT !.kind = kind, !.incident = i, !.run = run,
                                !.loading = TRUE]
             op == FirstCall(kind, run)
  <1>1. q \in Page /\ q.kind = kind /\ q.loading /\ Succeeds(page[t], q)
    <2>1. run => i \in LiveIncidents
      BY DEF Open
    <2>2. i \in Incidents \cup {None}
      OBVIOUS
    <2> QED
      BY <2>1, <2>2, BlankIsPage DEF Page, Kinds, Succeeds, Honest, Incidents
  <1>2. /\ Loading(t, q) /\ Ask(t, "load", op, <<>>)
        /\ UNCHANGED <<up, faults, trusted, backendVars, auth, mock, told>>
        /\ moves' \in Nat
    BY DEF Open, Move, DeskInv, Types, TabTypes
  <1>3. op \in LoadOps[kind] /\ kind \in Kinds
    <2>1. CASE kind = "incident"
      BY <2>1 DEF FirstCall, LoadOps, Kinds
    <2>2. CASE kind = "alert"
      BY <2>2 DEF FirstCall, LoadOps, Kinds
    <2>3. CASE kind = "list"
      BY <2>3 DEF FirstCall, LoadOps, Kinds
    <2> QED
      BY <2>1, <2>2, <2>3
  <1> HIDE DEF q, op
  <1>4. Posed(t, "load", op, <<>>)
    BY <1>2, <1>3, LoadPoses DEF DeskInv, Types
  <1>5. LoadEffect(t)
    BY <1>1, <1>2, <1>3, <1>4 DEF LoadEffect, Loading, DeskInv, Types, ClientTypes
  <1> QED
    BY <1>5, LoadKeeps

-----------------------------------------------------------------------------
(* Probes, timeouts and outages                                            *)

(* A call goes on, or stays what it is; it is not answered by that.        *)
Advances(c, d) ==
  \/ d = c
  \/ /\ c # None /\ d \in Calls
     /\ d.op = c.op /\ d.args = c.args /\ d.answer = c.answer
     /\ d.stage # "answered"

(* What the client does by itself: calls go on, but no page changes.       *)
ClientEffect ==
  /\ Rest /\ UNCHANGED cached
  /\ up' \in BOOLEAN /\ faults' \in Nat /\ trusted' \subseteq Tabs
  /\ probes' \in [Tabs -> Seq(Verdicts)]
  /\ \A u \in Tabs : Len(probes'[u]) = Len(probes[u])
  /\ calls' \in [Tabs -> [Slots -> Calls \cup {None}]]
  /\ \A u \in Tabs, slot \in Slots : Advances(calls[u][slot], calls'[u][slot])
  /\ Trust'

(* What the client does by itself keeps the invariant.                     *)
LEMMA ClientKeeps ==
  ASSUME DeskInv, ClientEffect
  PROVE  DeskInv'
  <1> USE DEF DeskInv, Types
  <1>1. UNCHANGED <<status, said, posted, threads, session, auth, page, mock, told, moves>>
    BY DEF ClientEffect, Rest, backendVars
  <1>2. Types' /\ Trust'
    BY <1>1 DEF ClientEffect, ClientTypes, BackendTypes, TabTypes
  <1>3. /\ "identity" \in Slots /\ "load" \in Slots /\ "status" \in Slots
        /\ "note" \in Slots
    BY DEF Slots
  <1>4. \A u \in Tabs, slot \in Slots :
          /\ calls'[u][slot] = None <=> calls[u][slot] = None
          /\ calls'[u][slot] # None =>
               /\ calls'[u][slot].op = calls[u][slot].op
               /\ calls'[u][slot].args = calls[u][slot].args
               /\ calls'[u][slot].answer = calls[u][slot].answer
               /\ calls'[u][slot].stage = "answered" => calls[u][slot].stage = "answered"
    BY NoneAssumption DEF ClientEffect, Advances
  <1>5. Identity'
    BY <1>1, <1>3, <1>4 DEF Identity, Vouched
  <1>6. Loads'
    BY <1>1, <1>3, <1>4 DEF Loads
  <1>7. EditsFit'
    BY <1>1, <1>3, <1>4 DEF EditsFit
  <1>8. EditsMade'
    BY <1>1, <1>3, <1>4 DEF EditsMade, StatusMade, NoteMade
  <1>9. Checked' /\ EditsTold' /\ PagesHonest'
    BY <1>1 DEF Checked, EditsTold, PagesHonest, Honest
  <1> QED
    BY <1>2, <1>5, <1>6, <1>7, <1>8, <1>9

(* A probe that settles lets the calls behind it go on.                    *)
LEMMA SettlingAdvances ==
  ASSUME Types, NEW t \in Tabs, NEW i \in DOMAIN probes[t],
         NEW verdict \in {"live", "down"}, ProbeSettles(t, i, verdict)
  PROVE  /\ probes' = [probes EXCEPT ![t][i] = verdict]
         /\ probes' \in [Tabs -> Seq(Verdicts)]
         /\ \A u \in Tabs : Len(probes'[u]) = Len(probes[u])
         /\ calls' \in [Tabs -> [Slots -> Calls \cup {None}]]
         /\ \A u \in Tabs, slot \in Slots : Advances(calls[u][slot], calls'[u][slot])
         /\ UNCHANGED <<up, cached>>
  <1> USE DEF Types, ClientTypes
  <1>1. probes' = [probes EXCEPT ![t][i] = verdict] /\ UNCHANGED <<up, cached>>
    BY DEF ProbeSettles
  <1>2. /\ [probes[t] EXCEPT ![i] = verdict] \in Seq(Verdicts)
        /\ Len([probes[t] EXCEPT ![i] = verdict]) = Len(probes[t])
    <2>1. probes[t] \in Seq(Verdicts) /\ verdict \in Verdicts /\ i \in 1 .. Len(probes[t])
      BY LenProperties DEF Verdicts
    <2> QED
      BY <2>1, ExceptSeq
  <1>3. /\ probes' \in [Tabs -> Seq(Verdicts)]
        /\ \A u \in Tabs : Len(probes'[u]) = Len(probes[u])
    BY <1>1, <1>2
  <1> DEFINE Settled(c) == IF c # None /\ c.stage = "probing" /\ c.probe = i
                             THEN [c EXCEPT !.stage = StageOn(verdict)] ELSE c
  <1>4. calls' = [calls EXCEPT ![t] = [slot \in Slots |-> Settled(calls[t][slot])]]
    BY DEF ProbeSettles
  <1>5. StageOn(verdict) \in {"sent", "failed"}
    BY DEF StageOn
  <1>6. ASSUME NEW c \in Calls \cup {None}
        PROVE  Settled(c) \in Calls \cup {None} /\ Advances(c, Settled(c))
    <2>1. CASE c # None /\ c.stage = "probing" /\ c.probe = i
      <3> DEFINE d == [c EXCEPT !.stage = StageOn(verdict)]
      <3>1. c \in Calls
        BY <2>1
      <3>2. d \in Calls /\ d.op = c.op /\ d.args = c.args /\ d.answer = c.answer
            /\ d.stage # "answered"
        BY <1>5, <3>1 DEF Calls
      <3> QED
        BY <2>1, <3>2 DEF Advances
    <2>2. CASE ~(c # None /\ c.stage = "probing" /\ c.probe = i)
      BY <2>2 DEF Advances
    <2> QED
      BY <2>1, <2>2
  <1> HIDE DEF Settled
  <1>7. ASSUME NEW u \in Tabs, NEW slot \in Slots
        PROVE  /\ calls'[u][slot] \in Calls \cup {None}
               /\ Advances(calls[u][slot], calls'[u][slot])
    <2>1. CASE u = t
      BY <1>4, <1>6, <2>1
    <2>2. CASE u # t
      BY <1>4, <2>2 DEF Advances
    <2> QED
      BY <2>1, <2>2
  <1>8. calls' \in [Tabs -> [Slots -> Calls \cup {None}]]
    BY <1>4, <1>6
  <1> QED
    BY <1>1, <1>3, <1>7, <1>8

(* A probe is answered, or finds no backend.                               *)
LEMMA ProbeAnswersKeeps ==
  ASSUME DeskInv, NEW t \in Tabs, ProbeAnswers(t), Rest
  PROVE  DeskInv'
  <1> DEFINE verdict == IF up THEN "live" ELSE "down"
  <1>1. PICK i \in DOMAIN probes[t] : ProbeSettles(t, i, verdict)
    BY DEF ProbeAnswers
  <1>2. verdict \in {"live", "down"} /\ (up => verdict = "live")
    OBVIOUS
  <1> HIDE DEF verdict
  <1>3. /\ probes' = [probes EXCEPT ![t][i] = verdict]
        /\ probes' \in [Tabs -> Seq(Verdicts)]
        /\ \A u \in Tabs : Len(probes'[u]) = Len(probes[u])
        /\ calls' \in [Tabs -> [Slots -> Calls \cup {None}]]
        /\ \A u \in Tabs, slot \in Slots : Advances(calls[u][slot], calls'[u][slot])
        /\ UNCHANGED <<up, cached>>
    BY <1>1, <1>2, SettlingAdvances DEF DeskInv
  <1>4. UNCHANGED <<faults, trusted>>
    BY DEF ProbeAnswers
  <1>5. Trust'
    <2>1. \A u \in Tabs : \A k \in 1 .. Len(probes[u]) :
            up /\ probes[u][k] # "down" => probes'[u][k] # "down"
      BY <1>2, <1>3 DEF DeskInv, Types, ClientTypes
    <2> QED
      BY <1>3, <1>4, <2>1 DEF Trust, DeskInv, Types, ClientTypes
  <1> QED
    BY <1>3, <1>4, <1>5, ClientKeeps DEF ClientEffect, DeskInv, Types, ClientTypes

(* A probe runs into its timeout: the tab has no trust any more.           *)
LEMMA ProbeTimesOutKeeps ==
  ASSUME DeskInv, NEW t \in Tabs, ProbeTimesOut(t), Rest
  PROVE  DeskInv'
  <1>1. PICK i \in DOMAIN probes[t] : ProbeSettles(t, i, "down")
    BY DEF ProbeTimesOut
  <1>2. /\ probes' = [probes EXCEPT ![t][i] = "down"]
        /\ probes' \in [Tabs -> Seq(Verdicts)]
        /\ \A u \in Tabs : Len(probes'[u]) = Len(probes[u])
        /\ calls' \in [Tabs -> [Slots -> Calls \cup {None}]]
        /\ \A u \in Tabs, slot \in Slots : Advances(calls[u][slot], calls'[u][slot])
        /\ UNCHANGED <<up, cached>>
    BY <1>1, SettlingAdvances DEF DeskInv
  <1>3. /\ trusted' = trusted \ {t} /\ faults' \in Nat /\ trusted' \subseteq Tabs
    BY DEF ProbeTimesOut, DeskInv, Types, ClientTypes
  <1>4. \A u \in trusted' : probes'[u] = probes[u]
    BY <1>2, <1>3 DEF DeskInv, Types, ClientTypes
  <1>5. Trust'
    BY <1>2, <1>3, <1>4 DEF Trust, DeskInv
  <1> QED
    BY <1>2, <1>3, <1>5, ClientKeeps DEF ClientEffect, DeskInv, Types, ClientTypes

(* A request or its answer is lost.                                        *)
LEMMA LosesKeeps ==
  ASSUME DeskInv, NEW t \in Tabs, NEW slot \in Slots, Loses(t, slot), Rest
  PROVE  DeskInv'
  <1> DEFINE c == calls[t][slot]
             d == [c EXCEPT !.stage = "failed"]
  <1>1. c \in Calls
    BY DEF Loses, DeskInv, Types, ClientTypes
  <1>2. d \in Calls /\ Advances(c, d)
    BY <1>1, NoneAssumption DEF Calls, Advances
  <1>3. /\ calls' = [calls EXCEPT ![t][slot] = d]
        /\ UNCHANGED <<up, probes, cached, trusted>> /\ faults' \in Nat
    BY DEF Loses, DeskInv, Types, ClientTypes
  <1> HIDE DEF d
  <1>4. /\ calls' \in [Tabs -> [Slots -> Calls \cup {None}]]
        /\ \A u \in Tabs, s \in Slots : Advances(calls[u][s], calls'[u][s])
    BY <1>2, <1>3 DEF DeskInv, Types, ClientTypes, Advances
  <1>5. Trust'
    BY <1>3 DEF Trust, DeskInv
  <1> QED
    BY <1>3, <1>4, <1>5, ClientKeeps DEF ClientEffect, DeskInv, Types, ClientTypes

(* The backend is lost, and comes back.                                    *)
LEMMA OutageKeeps ==
  ASSUME DeskInv, GoesDown \/ ComesUp, Rest
  PROVE  DeskInv'
  <1>1. /\ UNCHANGED <<probes, cached, calls>>
        /\ up' \in BOOLEAN /\ faults' \in Nat /\ trusted' \subseteq Tabs
    <2>1. CASE GoesDown
      <3>1. up' \in BOOLEAN /\ UNCHANGED <<probes, cached, calls>>
        BY <2>1 DEF GoesDown
      <3>2. faults' \in Nat
        BY <2>1 DEF GoesDown, DeskInv, Types, ClientTypes
      <3>3. trusted' \subseteq Tabs
        BY <2>1 DEF GoesDown
      <3> QED
        BY <3>1, <3>2, <3>3
    <2>2. CASE ComesUp
      BY <2>2 DEF ComesUp, DeskInv, Types, ClientTypes
    <2> QED
      BY <2>1, <2>2
  <1>2. \A u \in Tabs, s \in Slots : Advances(calls[u][s], calls'[u][s])
    BY <1>1 DEF Advances
  <1>3. Trust'
    BY DEF GoesDown, ComesUp, Trust, DeskInv
  <1> QED
    BY <1>1, <1>2, <1>3, ClientKeeps DEF ClientEffect, DeskInv, Types, ClientTypes

-----------------------------------------------------------------------------
(* Identity                                                                *)

(* What a step does to a tab that only concerns who is signed in.          *)
SignEffect(t) ==
  /\ UNCHANGED <<up, status, said, posted, threads, page, mock, told>>
  /\ faults' \in Nat /\ moves' \in Nat /\ trusted' \subseteq Tabs
  /\ session' \in [Tabs -> Roles \cup {None}]
  /\ auth' \in [Tabs -> Auth]
  /\ \A u \in Tabs : u # t => auth'[u] = auth[u]
  /\ probes' \in [Tabs -> Seq(Verdicts)] /\ cached' \in [Tabs -> Nat]
  /\ \A u \in Tabs : cached'[u] <= Len(probes'[u])
  /\ Trust'
  /\ calls' \in [Tabs -> [Slots -> Calls \cup {None}]]
  /\ \A u \in Tabs, slot \in Slots :
       u # t \/ slot \notin {"identity", "logout"} => calls'[u][slot] = calls[u][slot]
  /\ calls'[t]["identity"] # None => Vouched(calls'[t]["identity"])
  /\ Fitting(auth'[t])

(* Such a step keeps the invariant.                                        *)
LEMMA SignKeeps ==
  ASSUME DeskInv, NEW t \in Tabs, SignEffect(t)
  PROVE  DeskInv'
  <1> USE DEF DeskInv, Types
  <1>1. UNCHANGED <<up, status, said, posted, threads, page, mock, told>>
    BY DEF SignEffect
  <1>2. Types' /\ Trust'
    BY DEF SignEffect, ClientTypes, BackendTypes, TabTypes
  <1>3. \A u \in Tabs : /\ calls'[u]["load"] = calls[u]["load"]
                        /\ calls'[u]["status"] = calls[u]["status"]
                        /\ calls'[u]["note"] = calls[u]["note"]
                        /\ u # t => calls'[u]["identity"] = calls[u]["identity"]
    BY DEF SignEffect, Slots
  <1>4. Identity'
    <2> SUFFICES ASSUME NEW u \in Tabs
                 PROVE  /\ calls'[u]["identity"] # None
                             => Vouched(calls'[u]["identity"])
                        /\ Fitting(auth'[u])
      BY DEF Identity
    <2>1. CASE u = t
      BY <2>1 DEF SignEffect
    <2>2. CASE u # t
      <3>1. auth'[u] = auth[u]
        BY <2>2 DEF SignEffect
      <3> QED
        BY <1>3, <2>2, <3>1 DEF Identity
    <2> QED
      BY <2>1, <2>2
  <1>5. Loads' /\ EditsFit' /\ EditsMade'
    BY <1>1, <1>3 DEF Loads, EditsFit, EditsMade, StatusMade, NoteMade
  <1>6. Checked' /\ EditsTold' /\ PagesHonest'
    BY <1>1 DEF Checked, EditsTold, PagesHonest, Honest
  <1> QED
    BY <1>2, <1>4, <1>5, <1>6

(* What a step does to the calls of a tab that says who it is.             *)
LEMMA SignSlot ==
  ASSUME DeskInv, NEW t \in Tabs, NEW slot \in {"identity", "logout"},
         NEW c \in Calls \cup {None}, calls' = [calls EXCEPT ![t][slot] = c],
         slot = "identity" /\ c # None => Vouched(c)
  PROVE  /\ calls' \in [Tabs -> [Slots -> Calls \cup {None}]]
         /\ \A u \in Tabs, s \in Slots :
              u # t \/ s \notin {"identity", "logout"} => calls'[u][s] = calls[u][s]
         /\ calls'[t]["identity"] # None => Vouched(calls'[t]["identity"])
  <1>1. slot \in Slots /\ "identity" \in Slots
    BY DEF Slots
  <1>2. calls[t]["identity"] # None => Vouched(calls[t]["identity"])
    BY DEF DeskInv, Identity
  <1> QED
    BY <1>1, <1>2 DEF DeskInv, Types, ClientTypes

(* An answer to a call is the call with its answer.                        *)
LEMMA AnswersSlot ==
  ASSUME ClientTypes, NEW t \in Tabs, NEW slot \in Slots, calls[t][slot] # None,
         NEW answer \in Roles \cup {"ok", None}, Answers(t, slot, answer)
  PROVE  \E d \in Calls :
           /\ calls' = [calls EXCEPT ![t][slot] = d]
           /\ d.op = calls[t][slot].op /\ d.args = calls[t][slot].args
           /\ d.answer = answer
           /\ d.stage = IF answer = None THEN "failed" ELSE "answered"
  <1> DEFINE c == calls[t][slot]
             stage == IF answer = None THEN "failed" ELSE "answered"
             d == [c EXCEPT !.answer = answer, !.stage = stage]
  <1>1. c \in Calls /\ stage \in {"failed", "answered"}
    BY DEF ClientTypes
  <1>2. d \in Calls /\ d.op = c.op /\ d.args = c.args /\ d.answer = answer
        /\ d.stage = stage
    BY <1>1 DEF Calls
  <1>3. calls' = [calls EXCEPT ![t][slot] = d]
    BY DEF Answers, ClientTypes
  <1> HIDE DEF d
  <1> QED
    BY <1>2, <1>3

(* The tabs that only a call of theirs changes.                            *)
CallOnly(t) ==
  /\ UNCHANGED <<up, status, said, posted, threads, page, mock, told, auth, trusted>>
  /\ faults' \in Nat /\ moves' \in Nat /\ session' \in [Tabs -> Roles \cup {None}]
  /\ UNCHANGED <<probes, cached>>

(* Such a step only concerns who is signed in.                             *)
LEMMA CallOnlySigns ==
  ASSUME DeskInv, NEW t \in Tabs, NEW slot \in {"identity", "logout"},
         NEW c \in Calls \cup {None}, calls' = [calls EXCEPT ![t][slot] = c],
         slot = "identity" /\ c # None => Vouched(c), CallOnly(t)
  PROVE  SignEffect(t)
  <1>1. Trust'
    BY DEF CallOnly, DeskInv, Trust
  <1>2. Fitting(auth'[t])
    BY DEF CallOnly, DeskInv, Identity
  <1> QED
    BY <1>1, <1>2, SignSlot
       DEF CallOnly, SignEffect, DeskInv, Types, ClientTypes, BackendTypes, TabTypes

(* /auth/me answers with the role of the cookie, or refuses.               *)
LEMMA ServeMeSigns ==
  ASSUME DeskInv, NEW t \in Tabs, ServeMe(t)
  PROVE  SignEffect(t)
  <1>1. /\ calls[t]["identity"] # None /\ calls[t]["identity"].op # "login"
        /\ "identity" \in Slots /\ session[t] \in Roles \cup {"ok", None}
        /\ Answers(t, "identity", session[t])
    BY DEF ServeMe, Answered, At, Slots, DeskInv, Types, BackendTypes
  <1>2. PICK d \in Calls :
          /\ calls' = [calls EXCEPT ![t]["identity"] = d]
          /\ d.op = calls[t]["identity"].op /\ d.answer = session[t]
          /\ d.stage = IF session[t] = None THEN "failed" ELSE "answered"
    BY <1>1, AnswersSlot DEF DeskInv, Types
  <1>3. Vouched(d)
    BY <1>1, <1>2 DEF Vouched, DeskInv, Types, BackendTypes
  <1>4. CallOnly(t)
    BY DEF ServeMe, Answers, CallOnly, backendVars, DeskInv, Types, ClientTypes,
           BackendTypes, TabTypes
  <1> QED
    BY <1>2, <1>3, <1>4, CallOnlySigns

(* A login is answered with its role, or refused.                          *)
LEMMA ServeLoginSigns ==
  ASSUME DeskInv, NEW t \in Tabs, ServeLogin(t)
  PROVE  SignEffect(t)
  <1>1. /\ calls[t]["identity"] # None /\ calls[t]["identity"].op = "login"
        /\ "identity" \in Slots
    BY DEF ServeLogin, Answered, At, Slots
  <1>2. calls[t]["identity"].args \in Roles
    BY <1>1 DEF DeskInv, Identity, Vouched
  <1>3. PICK answer \in Roles \cup {"ok", None} :
          answer \in Roles \cup {None} /\ Answers(t, "identity", answer)
    BY <1>2 DEF ServeLogin
  <1>4. PICK d \in Calls :
          /\ calls' = [calls EXCEPT ![t]["identity"] = d]
          /\ d.args = calls[t]["identity"].args /\ d.answer = answer
          /\ d.stage = IF answer = None THEN "failed" ELSE "answered"
    BY <1>1, <1>3, AnswersSlot DEF DeskInv, Types
  <1>5. Vouched(d)
    BY <1>2, <1>3, <1>4 DEF Vouched
  <1>6. CallOnly(t)
    BY <1>3 DEF ServeLogin, Answers, CallOnly, backendVars, DeskInv, Types, ClientTypes,
                BackendTypes, TabTypes
  <1> QED
    BY <1>4, <1>5, <1>6, CallOnlySigns

(* A logout drops the cookie.                                              *)
LEMMA ServeLogoutSigns ==
  ASSUME DeskInv, NEW t \in Tabs, ServeLogout(t)
  PROVE  SignEffect(t)
  <1>1. /\ calls[t]["logout"] # None /\ "logout" \in Slots
        /\ Answers(t, "logout", "ok")
    BY DEF ServeLogout, Answered, At, Slots
  <1>2. PICK d \in Calls : calls' = [calls EXCEPT ![t]["logout"] = d]
    BY <1>1, AnswersSlot DEF DeskInv, Types
  <1>3. CallOnly(t)
    BY DEF ServeLogout, Answers, CallOnly, DeskInv, Types, ClientTypes, BackendTypes,
           TabTypes
  <1> QED
    BY <1>2, <1>3, CallOnlySigns

(* A login is sent.                                                        *)
LEMMA LoginSigns ==
  ASSUME DeskInv, NEW t \in Tabs, NEW role \in Roles, Login(t, role)
  PROVE  SignEffect(t)
  <1>1. Posed(t, "identity", "login", role)
    BY RequestPoses DEF Login, DeskInv, Types, Slots, Ops
  <1>2. PICK c \in Calls : /\ calls' = [calls EXCEPT ![t]["identity"] = c]
                           /\ c.args = role /\ c.answer = None /\ c.stage # "answered"
    BY <1>1 DEF Posed
  <1>3. Vouched(c)
    BY <1>2 DEF Vouched
  <1>4. CallOnly(t)
    BY DEF Login, Request, Move, CallOnly, backendVars, DeskInv, Types, ClientTypes,
           BackendTypes, TabTypes
  <1> QED
    BY <1>2, <1>3, <1>4, CallOnlySigns

(* A logout is sent.                                                       *)
LEMMA LogoutSigns ==
  ASSUME DeskInv, NEW t \in Tabs, Logout(t)
  PROVE  SignEffect(t)
  <1>1. Posed(t, "logout", "logout", <<>>)
    BY RequestPoses DEF Logout, DeskInv, Types, Slots, Ops
  <1>2. PICK c \in Calls : calls' = [calls EXCEPT ![t]["logout"] = c]
    BY <1>1 DEF Posed
  <1>3. CallOnly(t)
    BY DEF Logout, Request, Move, CallOnly, backendVars, DeskInv, Types, ClientTypes,
           BackendTypes, TabTypes
  <1> QED
    BY <1>2, <1>3, CallOnlySigns

(* A login that fails leaves the tab as it was.                            *)
LEMMA LoginFailsSigns ==
  ASSUME DeskInv, NEW t \in Tabs, LoginFails(t)
  PROVE  SignEffect(t)
  <1>1. calls' = [calls EXCEPT ![t]["identity"] = None]
    BY DEF LoginFails, Done
  <1>2. CallOnly(t)
    BY DEF LoginFails, Done, CallOnly, backendVars, DeskInv, Types, ClientTypes,
           BackendTypes, TabTypes
  <1> QED
    BY <1>1, <1>2, CallOnlySigns

(* A session that expires is no news to the tab.                           *)
LEMMA SessionExpiresSigns ==
  ASSUME DeskInv, NEW t \in Tabs, SessionExpires(t)
  PROVE  SignEffect(t)
  <1>1. calls' = calls
    BY DEF SessionExpires
  <1>2. calls' = [calls EXCEPT ![t]["logout"] = calls[t]["logout"]]
        /\ calls[t]["logout"] \in Calls \cup {None}
    BY <1>1 DEF DeskInv, Types, ClientTypes, Slots
  <1>3. CallOnly(t)
    BY DEF SessionExpires, CallOnly, DeskInv, Types, ClientTypes, BackendTypes, TabTypes
  <1> QED
    BY <1>2, <1>3, CallOnlySigns

(* What a tab knows of its user after a call ends.                         *)
LEMMA AuthSigns ==
  ASSUME DeskInv, NEW t \in Tabs, NEW a \in Auth, Fitting(a),
         auth' = [auth EXCEPT ![t] = a], Done(t, "identity"),
         UNCHANGED <<up, faults, trusted, backendVars, page, mock, told, moves>>
  PROVE  SignEffect(t)
  <1>1. calls' = [calls EXCEPT ![t]["identity"] = None] /\ UNCHANGED <<probes, cached>>
    BY DEF Done
  <1>2. /\ auth' \in [Tabs -> Auth] /\ Fitting(auth'[t])
        /\ \A u \in Tabs : u # t => auth'[u] = auth[u]
    BY DEF DeskInv, Types, TabTypes
  <1>3. Trust'
    BY <1>1 DEF DeskInv, Trust
  <1>4. UNCHANGED <<status, said, posted, threads, session>>
    BY DEF backendVars
  <1> QED
    BY <1>1, <1>2, <1>3, <1>4, SignSlot
       DEF SignEffect, DeskInv, Types, ClientTypes, BackendTypes, TabTypes

(* The session check ends with a user, or drops the expiry.                *)
LEMMA MountSigns ==
  ASSUME DeskInv, NEW t \in Tabs, Mount(t)
  PROVE  SignEffect(t)
  <1> DEFINE c == calls[t]["identity"]
             a == Mounted(t, c.answer)
  <1>1. c # None /\ auth[t] \in Auth
    BY DEF Mount, At, DeskInv, Types, TabTypes
  <1>2. c.answer \in Roles \cup {None} /\ Fitting(auth[t])
    BY <1>1 DEF DeskInv, Identity, Vouched
  <1>3. a \in Auth /\ Fitting(a)
    <2>1. CASE c.answer = None
      BY <1>1, <2>1 DEF Mounted, Auth, Fitting
    <2>2. CASE c.answer # None
      BY <1>1, <1>2, <2>2 DEF Mounted, Auth, Fitting
    <2> QED
      BY <2>1, <2>2
  <1>4. auth' = [auth EXCEPT ![t] = a]
    BY DEF Mount
  <1> HIDE DEF a
  <1> QED
    BY <1>3, <1>4, AuthSigns DEF Mount

(* The capabilities of a user do not concern the expiry.                   *)
LEMMA FollowSigns ==
  ASSUME DeskInv, NEW t \in Tabs, Follow(t)
  PROVE  SignEffect(t)
  <1> DEFINE who == calls[t]["identity"].answer
             known == IF who = None THEN auth[t].capabilities ELSE who
             a == [auth[t] EXCEPT !.capabilities = known]
  <1>1. calls[t]["identity"] # None /\ auth[t] \in Auth
    BY DEF Follow, Failed, At, DeskInv, Types, TabTypes
  <1>2. who \in Roles \cup {None} /\ Fitting(auth[t])
    BY <1>1 DEF DeskInv, Identity, Vouched
  <1>3. a \in Auth /\ Fitting(a)
    BY <1>1, <1>2 DEF Auth, Fitting
  <1>4. auth' = [auth EXCEPT ![t] = a]
    BY DEF Follow, DeskInv, Types, TabTypes
  <1> HIDE DEF a
  <1> QED
    BY <1>3, <1>4, AuthSigns DEF Follow

(* A tab that signs in sends a probe of its own, and trusts what is up.    *)
LEMMA SignedInSigns ==
  ASSUME DeskInv, NEW t \in Tabs, SignedIn(t)
  PROVE  SignEffect(t)
  <1> DEFINE role == calls[t]["identity"].answer
             a == [auth[t] EXCEPT !.user = role, !.expires = TRUE, !.stored = TRUE]
             i == Len(probes[t]) + 1
  <1>1. /\ calls[t]["identity"] # None /\ calls[t]["identity"].stage = "answered"
        /\ auth[t] \in Auth
    BY DEF SignedIn, At, DeskInv, Types, TabTypes
  <1>2. role \in Roles /\ role # None /\ Fitting(auth[t])
    BY <1>1, NoneAssumption DEF DeskInv, Identity, Vouched
  <1>3. a \in Auth /\ Fitting(a)
    BY <1>1, <1>2 DEF Auth, Fitting
  <1>4. /\ auth' = [auth EXCEPT ![t] = a]
        /\ session' = [session EXCEPT ![t] = role]
        /\ trusted' = IF up THEN trusted \cup {t} ELSE trusted
        /\ UNCHANGED <<up, faults, status, said, posted, threads, page, mock, told, moves>>
    BY DEF SignedIn, DeskInv, Types, TabTypes
  <1>5. AskAfresh(t, "identity", "follow", <<>>)
    BY DEF SignedIn, Follows
  <1>6. PICK c \in Calls :
          /\ calls' = [calls EXCEPT ![t]["identity"] = c]
          /\ c.op = "follow" /\ c.answer = None /\ c.stage # "answered"
    BY <1>5, AskAfreshPoses DEF Posed, DeskInv, Types, Slots, Ops
  <1>7. /\ probes' \in [Tabs -> Seq(Verdicts)] /\ cached' \in [Tabs -> Nat]
        /\ \A u \in Tabs : cached'[u] <= Len(probes'[u]) /\ (Live(u) => Live(u)')
    BY <1>5, AskAfreshPoses DEF Posed, DeskInv, Types, Slots, Ops
  <1>8. Live(t)'
    BY <1>5 DEF AskAfresh, Live, DeskInv, Types, ClientTypes
  <1>9. Trust'
    BY <1>4, <1>7, <1>8 DEF Trust, Live, DeskInv, Types, ClientTypes
  <1>10. Vouched(c)
    BY <1>6 DEF Vouched
  <1> HIDE DEF a, role
  <1>11. /\ auth' \in [Tabs -> Auth] /\ Fitting(auth'[t])
         /\ \A u \in Tabs : u # t => auth'[u] = auth[u]
    BY <1>3, <1>4 DEF DeskInv, Types, TabTypes
  <1>12. session' \in [Tabs -> Roles \cup {None}] /\ trusted' \subseteq Tabs
    BY <1>2, <1>4 DEF DeskInv, Types, ClientTypes, BackendTypes
  <1> QED
    BY <1>4, <1>6, <1>7, <1>9, <1>10, <1>11, <1>12, SignSlot
       DEF SignEffect, DeskInv, Types, ClientTypes, TabTypes

(* Signing out leaves the page and forgets the user and the probe.         *)
LEMMA SignedOutKeeps ==
  ASSUME DeskInv, NEW t \in Tabs, SignedOut(t)
  PROVE  DeskInv'
  <1> USE DEF DeskInv, Types
  <1> DEFINE a == [user |-> None, capabilities |-> None, booting |-> FALSE,
                   expires |-> FALSE, stored |-> FALSE]
  <1>1. a \in Auth /\ Fitting(a)
    BY DEF Auth, Fitting
  <1>2. /\ auth' = [auth EXCEPT ![t] = a] /\ page' = [page EXCEPT ![t] = Blank]
        /\ cached' = [cached EXCEPT ![t] = 0]
        /\ UNCHANGED <<up, faults, trusted, probes, status, said, posted, threads, session,
                       mock, told, moves>>
    BY DEF SignedOut, backendVars
  <1> HIDE DEF a
  <1>3. /\ calls' \in [Tabs -> [Slots -> Calls \cup {None}]]
        /\ calls'[t]["load"] = None
        /\ \A u \in Tabs, slot \in Slots :
             u # t \/ slot \notin {"load", "logout"} => calls'[u][slot] = calls[u][slot]
    BY DEF SignedOut, ClientTypes, Slots
  <1>4. /\ "identity" \in Slots /\ "load" \in Slots /\ "status" \in Slots
        /\ "note" \in Slots
    BY DEF Slots
  <1>5. Types'
    <2>1. ClientTypes'
      <3>1. /\ cached' \in [Tabs -> Nat]
            /\ \A u \in Tabs : cached'[u] = cached[u] \/ cached'[u] = 0
        BY <1>2 DEF ClientTypes
      <3>2. \A u \in Tabs : Len(probes'[u]) \in Nat /\ cached[u] <= Len(probes'[u])
        BY <1>2 DEF ClientTypes
      <3>3. \A u \in Tabs : cached'[u] <= Len(probes'[u])
        BY <3>1, <3>2
      <3> QED
        BY <1>2, <1>3, <3>1, <3>3 DEF ClientTypes
    <2>2. BackendTypes'
      BY <1>2 DEF BackendTypes
    <2>3. TabTypes'
      BY <1>1, <1>2, BlankIsPage DEF TabTypes
    <2> QED
      BY <2>1, <2>2, <2>3
  <1>6. Trust'
    BY <1>2 DEF Trust, ClientTypes
  <1>7. Identity'
    BY <1>1, <1>2, <1>3, <1>4 DEF Identity, Vouched, TabTypes
  <1>8. Loads'
    BY <1>2, <1>3, <1>4, BlankIsPage DEF Loads, TabTypes
  <1>9. EditsFit'
    <2>1. ASSUME NEW u \in Tabs, u # t
          PROVE  /\ page'[u] = page[u] /\ calls'[u]["status"] = calls[u]["status"]
                 /\ calls'[u]["note"] = calls[u]["note"]
      BY <1>2, <1>3, <1>4, <2>1 DEF TabTypes
    <2>2. ~page'[t].updating /\ ~page'[t].submitting
      BY <1>2, BlankIsPage DEF TabTypes
    <2> QED
      BY <2>1, <2>2 DEF EditsFit
  <1>10. EditsMade'
    BY <1>2, <1>3, <1>4 DEF EditsMade, StatusMade, NoteMade
  <1>11. Checked' /\ EditsTold'
    BY <1>2 DEF Checked, EditsTold
  <1>12. PagesHonest'
    BY <1>2, BlankIsPage, NoneAssumption DEF PagesHonest, Honest, TabTypes
  <1> QED
    BY <1>5, <1>6, <1>7, <1>8, <1>9, <1>10, <1>11, <1>12

-----------------------------------------------------------------------------
(* Edits                                                                   *)

(* What a step does to a tab that begins, goes on with or ends an edit.    *)
EditEffect(t) ==
  /\ UNCHANGED <<up, trusted, status, said, posted, threads, session, auth>>
  /\ faults' \in Nat /\ moves' \in Nat
  /\ mock' \in [Tabs -> [DemoIncidents -> [status : Statuses, notes : SUBSET Nat]]]
  /\ probes' \in [Tabs -> Seq(Verdicts)] /\ cached' \in [Tabs -> Nat]
  /\ \A u \in Tabs : cached'[u] <= Len(probes'[u]) /\ (Live(u) => Live(u)')
  /\ EditsTold'

(* The page after it, when the slot of the edit holds c.                   *)
Turns(t, slot, q, c) ==
  /\ page' = [page EXCEPT ![t] = q] /\ calls' = [calls EXCEPT ![t][slot] = c]
  /\ q.kind = page[t].kind /\ q.incident = page[t].incident
  /\ q.run = page[t].run /\ q.loading = page[t].loading
  /\ Honest(q)
  /\ slot = "status" =>
       /\ q.submitting = page[t].submitting
       /\ c # None => StatusMade(c)
       /\ q.updating => c # None /\ c.args.incident = q.incident
  /\ slot = "note" =>
       /\ q.updating = page[t].updating
       /\ c # None => NoteMade(c)
       /\ q.submitting => c # None /\ c.args.incident = q.incident

(* A step of an edit keeps the invariant.                                  *)
LEMMA EditKeeps ==
  ASSUME DeskInv, NEW t \in Tabs, NEW slot \in {"status", "note"}, NEW q \in Page,
         NEW c \in Calls \cup {None}, EditEffect(t), Turns(t, slot, q, c)
  PROVE  DeskInv'
  <1> USE DEF DeskInv, Types
  <1>1. /\ UNCHANGED <<up, trusted, status, said, posted, threads, session, auth>>
        /\ \A u \in Tabs : cached'[u] <= Len(probes'[u]) /\ (Live(u) => Live(u)')
        /\ EditsTold'
    BY DEF EditEffect
  <1>2. /\ page' = [page EXCEPT ![t] = q] /\ calls' = [calls EXCEPT ![t][slot] = c]
        /\ q.kind = page[t].kind /\ q.incident = page[t].incident
        /\ q.run = page[t].run /\ q.loading = page[t].loading
    BY DEF Turns
  <1>3. slot \in Slots /\ {"identity", "load", "status", "note"} \subseteq Slots
    BY DEF Slots
  <1>4. Types'
    <2>1. ClientTypes'
      BY <1>1, <1>2, <1>3 DEF EditEffect, ClientTypes
    <2>2. BackendTypes'
      BY <1>1 DEF BackendTypes
    <2>3. TabTypes'
      BY <1>1, <1>2 DEF EditEffect, TabTypes
    <2> QED
      BY <2>1, <2>2, <2>3
  <1>5. Trust'
    BY <1>1 DEF Trust, Live, ClientTypes
  <1>6. \A u \in Tabs, s \in Slots :
          calls'[u][s] = IF u = t /\ s = slot THEN c ELSE calls[u][s]
    BY <1>2, <1>3 DEF ClientTypes
  <1>7. \A u \in Tabs : page'[u] = IF u = t THEN q ELSE page[u]
    BY <1>2 DEF TabTypes
  <1>8. Identity'
    BY <1>1, <1>3, <1>6 DEF Identity, Vouched, Fitting
  <1>9. Loads'
    BY <1>2, <1>3, <1>6, <1>7 DEF Loads
  <1>10. EditsFit'
    BY <1>3, <1>6, <1>7 DEF EditsFit, Turns
  <1>11. EditsMade'
    BY <1>1, <1>3, <1>6 DEF EditsMade, StatusMade, NoteMade, Turns
  <1>12. Checked'
    BY <1>1 DEF Checked
  <1>13. PagesHonest'
    BY <1>1, <1>7 DEF PagesHonest, Honest, Turns
  <1> QED
    BY <1>1, <1>4, <1>5, <1>8, <1>9, <1>10, <1>11, <1>12, <1>13

(* An edit that the page sends is one of its incident.                     *)
LEMMA PosesEdit ==
  ASSUME DeskInv, NEW t \in Tabs, Editing(t), NEW slot \in {"status", "note"},
         NEW to \in Statuses \cup {"text"}, Edit(t, slot, to)
  PROVE  /\ EditEffect(t)
         /\ \E c \in Calls :
              /\ calls' = [calls EXCEPT ![t][slot] = c]
              /\ c.op = slot /\ c.stage # "answered" /\ c.args \in Edits
              /\ c.args.incident = page[t].incident /\ c.args.to = to
  <1> DEFINE e == [incident |-> page[t].incident, to |-> to, id |-> moves + 1]
  <1>1. e \in Edits /\ e.incident = page[t].incident /\ e.to = to
    BY DEF Editing, Edits, DeskInv, Types, TabTypes, Loads, Incidents
  <1>2. /\ Ask(t, slot, slot, e) /\ moves' \in Nat
        /\ UNCHANGED <<up, faults, trusted, backendVars, auth, mock, told>>
    BY DEF Edit, Move, DeskInv, Types, TabTypes
  <1> HIDE DEF e
  <1>3. Posed(t, slot, slot, e)
    <2>1. slot \in Slots /\ slot \in Ops /\ e \in Edits \cup Roles \cup {<<>>}
      BY <1>1 DEF Slots, Ops
    <2> QED
      BY <1>2, <2>1, AskPoses DEF DeskInv, Types
  <1>4. EditEffect(t)
    <2>1. EditsTold'
      BY <1>2 DEF EditsTold, DeskInv, backendVars
    <2> QED
      BY <1>2, <1>3, <2>1
         DEF EditEffect, Posed, backendVars, DeskInv, Types, ClientTypes, TabTypes
  <1> QED
    BY <1>1, <1>3, <1>4 DEF Posed

(* A change of status is sent.                                             *)
LEMMA ChangeStatusKeeps ==
  ASSUME DeskInv, NEW t \in Tabs, NEW to \in Statuses, ChangeStatus(t, to)
  PROVE  DeskInv'
  <1> DEFINE p == page[t]
             q == [p EXCEPT !.updating = TRUE, !.error = FALSE]
  <1>1. p \in Page /\ Honest(p)
    BY DEF DeskInv, Types, TabTypes, PagesHonest, Honest
  <1>2. page' = [page EXCEPT ![t] = q]
    BY DEF ChangeStatus, DeskInv, Types, TabTypes
  <1>3. /\ q \in Page /\ q.kind = p.kind /\ q.incident = p.incident /\ q.run = p.run
        /\ q.loading = p.loading /\ q.submitting = p.submitting /\ Honest(q)
    BY <1>1 DEF Page, Honest
  <1> HIDE DEF q
  <1>4. EditEffect(t)
    BY PosesEdit DEF ChangeStatus
  <1>5. PICK c \in Calls :
          /\ calls' = [calls EXCEPT ![t]["status"] = c]
          /\ c.op = "status" /\ c.stage # "answered" /\ c.args \in Edits
          /\ c.args.incident = p.incident /\ c.args.to = to
    BY PosesEdit DEF ChangeStatus
  <1>6. Turns(t, "status", q, c)
    BY <1>2, <1>3, <1>5, NoneAssumption DEF Turns, StatusMade
  <1> QED
    BY <1>3, <1>4, <1>6, EditKeeps

(* A note is sent.                                                         *)
LEMMA SubmitNoteKeeps ==
  ASSUME DeskInv, NEW t \in Tabs, SubmitNote(t)
  PROVE  DeskInv'
  <1> DEFINE p == page[t]
             q == [p EXCEPT !.submitting = TRUE, !.error = FALSE]
  <1>1. p \in Page /\ Honest(p)
    BY DEF DeskInv, Types, TabTypes, PagesHonest, Honest
  <1>2. page' = [page EXCEPT ![t] = q]
    BY DEF SubmitNote, DeskInv, Types, TabTypes
  <1>3. /\ q \in Page /\ q.kind = p.kind /\ q.incident = p.incident /\ q.run = p.run
        /\ q.loading = p.loading /\ q.updating = p.updating /\ Honest(q)
    BY <1>1 DEF Page, Honest
  <1> HIDE DEF q
  <1>4. EditEffect(t)
    BY PosesEdit DEF SubmitNote
  <1>5. PICK c \in Calls :
          /\ calls' = [calls EXCEPT ![t]["note"] = c]
          /\ c.op = "note" /\ c.stage # "answered" /\ c.args \in Edits
          /\ c.args.incident = p.incident
    BY PosesEdit DEF SubmitNote
  <1>6. Turns(t, "note", q, c)
    BY <1>2, <1>3, <1>5, NoneAssumption DEF Turns, NoteMade
  <1> QED
    BY <1>3, <1>4, <1>6, EditKeeps

(* The demo copies stay what they are when a status is set, or a note is   *)
(* added.                                                                  *)
LEMMA MockStaysByStatus ==
  ASSUME TabTypes, NEW t \in Tabs, NEW i \in DemoIncidents, NEW to \in Statuses
  PROVE  [mock EXCEPT ![t][i].status = to]
           \in [Tabs -> [DemoIncidents -> [status : Statuses, notes : SUBSET Nat]]]
  <1> DEFINE Copy   == [status : Statuses, notes : SUBSET Nat]
             copy   == [mock[t][i] EXCEPT !.status = to]
             copies == [mock[t] EXCEPT ![i] = copy]
  <1>1. mock \in [Tabs -> [DemoIncidents -> Copy]]
    BY DEF TabTypes
  <1>2. copy \in Copy
    <2>1. mock[t][i] \in Copy
      BY <1>1
    <2> QED
      BY <2>1
  <1>3. [mock EXCEPT ![t][i].status = to] = [mock EXCEPT ![t] = copies]
    OBVIOUS
  <1> HIDE DEF Copy, copy
  <1>4. copies \in [DemoIncidents -> Copy]
    BY <1>1, <1>2
  <1> HIDE DEF copies
  <1>5. [mock EXCEPT ![t] = copies] \in [Tabs -> [DemoIncidents -> Copy]]
    BY <1>1, <1>4
  <1> QED
    BY <1>3, <1>5, Zenon DEF Copy

LEMMA MockStaysByNote ==
  ASSUME TabTypes, NEW t \in Tabs, NEW i \in DemoIncidents, NEW id \in Nat
  PROVE  [mock EXCEPT ![t][i].notes = @ \cup {id}]
           \in [Tabs -> [DemoIncidents -> [status : Statuses, notes : SUBSET Nat]]]
  <1> DEFINE Copy   == [status : Statuses, notes : SUBSET Nat]
             copy   == [mock[t][i] EXCEPT !.notes = @ \cup {id}]
             copies == [mock[t] EXCEPT ![i] = copy]
  <1>1. mock \in [Tabs -> [DemoIncidents -> Copy]]
    BY DEF TabTypes
  <1>2. copy \in Copy
    <2>1. mock[t][i] \in Copy
      BY <1>1
    <2> QED
      BY <2>1
  <1>3. [mock EXCEPT ![t][i].notes = @ \cup {id}] = [mock EXCEPT ![t] = copies]
    OBVIOUS
  <1> HIDE DEF Copy, copy
  <1>4. copies \in [DemoIncidents -> Copy]
    BY <1>1, <1>2
  <1> HIDE DEF copies
  <1>5. [mock EXCEPT ![t] = copies] \in [Tabs -> [DemoIncidents -> Copy]]
    BY <1>1, <1>4
  <1> QED
    BY <1>3, <1>5, Zenon DEF Copy

(* What comes back of a change of status was made, or is an error.         *)
LEMMA StatusBackKeeps ==
  ASSUME DeskInv, NEW t \in Tabs, StatusBack(t)
  PROVE  DeskInv'
  <1> DEFINE c == calls[t]["status"]
             p == page[t]
             ok == c.stage = "answered" \/ Mutates(c)
             q == IF p.updating THEN StatusShown(p, c, Mutates(c)) ELSE p
  <1>1. c # None /\ StatusMade(c) /\ c.stage \in {"answered", "failed"}
    BY DEF StatusBack, DeskInv, EditsMade
  <1>2. p \in Page /\ Honest(p)
    BY DEF DeskInv, Types, TabTypes, PagesHonest, Honest
  <1>3. /\ mock' = IF Mutates(c) THEN [mock EXCEPT ![t][c.args.incident].status = c.args.to]
                                 ELSE mock
        /\ page' = [page EXCEPT ![t] = q]
        /\ told' = IF p.updating
                     THEN [tab |-> t, op |-> c.op, edit |-> c.args, ok |-> ok] ELSE told
        /\ calls' = [calls EXCEPT ![t]["status"] = None] /\ UNCHANGED <<probes, cached>>
        /\ UNCHANGED <<up, faults, trusted, backendVars, auth, moves>>
    BY DEF StatusBack, Done, Tell, Mutates, DeskInv, Types, TabTypes
  <1>4. mock' \in [Tabs -> [DemoIncidents -> [status : Statuses, notes : SUBSET Nat]]]
    <2>1. TabTypes
      BY DEF DeskInv, Types
    <2>2. CASE Mutates(c)
      <3>1. c.args.incident \in DemoIncidents /\ c.args.to \in Statuses
        BY <1>1, <2>2 DEF Mutates, StatusMade, Edits
      <3> DEFINE copies == [mock EXCEPT ![t][c.args.incident].status = c.args.to]
      <3>2. copies \in [Tabs -> [DemoIncidents -> [status : Statuses, notes : SUBSET Nat]]]
        BY <2>1, <3>1, MockStaysByStatus
      <3>3. mock' = copies
        BY <1>3, <2>2
      <3> HIDE DEF copies
      <3> QED
        BY <3>2, <3>3, Zenon
    <2>3. CASE ~Mutates(c)
      BY <1>3, <2>1, <2>3 DEF TabTypes
    <2> QED
      BY <2>2, <2>3
  <1>5. ok /\ c.args.incident \in LiveIncidents => c.args.to \in said[c.args.incident]
    BY <1>1, DeskAssumption DEF Mutates, StatusMade
  <1>6. EditsTold'
    <2>1. UNCHANGED <<said, posted>>
      BY <1>3 DEF backendVars
    <2> HIDE DEF ok
    <2>2. CASE p.updating
      <3>1. told'.op = "status" /\ told'.edit = c.args /\ told'.ok = ok
        BY <1>1, <1>3, <2>2 DEF StatusMade
      <3> QED
        BY <1>5, <2>1, <3>1 DEF EditsTold
    <2>3. CASE ~p.updating
      BY <1>3, <2>1, <2>3 DEF EditsTold, DeskInv
    <2> QED
      BY <2>2, <2>3
  <1>7. EditEffect(t)
    BY <1>3, <1>4, <1>6
       DEF EditEffect, backendVars, Live, DeskInv, Types, ClientTypes, TabTypes
  <1>8. /\ q \in Page /\ q.kind = p.kind /\ q.incident = p.incident /\ q.run = p.run
        /\ q.loading = p.loading /\ q.submitting = p.submitting /\ ~q.updating /\ Honest(q)
    <2>1. CASE p.updating /\ c.stage = "answered"
      <3>1. /\ c.answer \in Statuses
            /\ p.incident \in LiveIncidents => c.answer \in said[p.incident]
        BY <1>1, <2>1 DEF StatusMade, DeskInv, EditsFit
      <3>2. q = [p EXCEPT !.updating = FALSE, !.status = c.answer]
        BY <2>1 DEF StatusShown
      <3> HIDE DEF q
      <3> QED
        BY <1>2, <3>1, <3>2 DEF Page, Honest
    <2>2. CASE p.updating /\ c.stage # "answered"
      <3> DEFINE wrong == IF Mutates(c) THEN p.error ELSE TRUE
      <3>1. q = [p EXCEPT !.updating = FALSE, !.error = wrong]
        BY <1>2, <2>2 DEF StatusShown, Page
      <3>2. wrong \in BOOLEAN
        BY <1>2 DEF Page
      <3> HIDE DEF q, wrong
      <3> QED
        BY <1>2, <3>1, <3>2 DEF Page, Honest
    <2>3. CASE ~p.updating
      BY <1>2, <2>3 DEF Page
    <2> QED
      BY <2>1, <2>2, <2>3
  <1> HIDE DEF q
  <1>9. Turns(t, "status", q, None)
    BY <1>3, <1>8 DEF Turns
  <1> QED
    BY <1>7, <1>8, <1>9, EditKeeps

(* A note that comes back was posted, or is an error.                      *)
LEMMA NoteBackKeeps ==
  ASSUME DeskInv, NEW t \in Tabs, NoteBack(t)
  PROVE  DeskInv'
  <1> DEFINE c == calls[t]["note"]
             p == page[t]
             ok == c.stage = "answered" \/ Mutates(c)
             wrong == [p EXCEPT !.submitting = FALSE, !.error = TRUE]
             q == IF ~ok /\ p.submitting THEN wrong ELSE p
  <1>1. c # None /\ NoteMade(c) /\ c.op = "note" /\ c.stage \in {"answered", "failed"}
    BY DEF NoteBack, DeskInv, EditsMade
  <1>2. p \in Page /\ Honest(p)
    BY DEF DeskInv, Types, TabTypes, PagesHonest, Honest
  <1>3. /\ mock' = IF Mutates(c)
                     THEN [mock EXCEPT ![t][c.args.incident].notes = @ \cup {c.args.id}]
                     ELSE mock
        /\ told' = IF p.submitting
                     THEN [tab |-> t, op |-> c.op, edit |-> c.args, ok |-> ok] ELSE told
        /\ UNCHANGED <<up, faults, trusted, backendVars, auth, moves>>
    BY DEF NoteBack, Tell, Mutates
  <1>4. page' = [page EXCEPT ![t] = q]
    BY DEF NoteBack, DeskInv, Types, TabTypes
  <1>5. PICK d \in Calls \cup {None} :
          /\ calls' = [calls EXCEPT ![t]["note"] = d]
          /\ IF ok THEN d # None /\ d.op = "notes" /\ d.args = c.args ELSE d = None
    <2>1. CASE ok
      <3>1. Ask(t, "note", "notes", c.args)
        BY <2>1 DEF NoteBack
      <3>2. Posed(t, "note", "notes", c.args)
        BY <1>1, <3>1, AskPoses DEF NoteMade, Slots, Ops, DeskInv, Types
      <3> QED
        BY <2>1, <3>2, NoneAssumption DEF Posed
    <2>2. CASE ~ok
      BY <2>2 DEF NoteBack, Done
    <2> QED
      BY <2>1, <2>2
  <1>6. /\ probes' \in [Tabs -> Seq(Verdicts)] /\ cached' \in [Tabs -> Nat]
        /\ \A u \in Tabs : cached'[u] <= Len(probes'[u]) /\ (Live(u) => Live(u)')
    <2>1. CASE ok
      <3>1. Ask(t, "note", "notes", c.args)
        BY <2>1 DEF NoteBack
      <3> QED
        BY <1>1, <3>1, AskPoses DEF NoteMade, Slots, Ops, DeskInv, Types, Posed
    <2>2. CASE ~ok
      BY <2>2 DEF NoteBack, Done, Live, DeskInv, Types, ClientTypes
    <2> QED
      BY <2>1, <2>2
  <1>7. mock' \in [Tabs -> [DemoIncidents -> [status : Statuses, notes : SUBSET Nat]]]
    <2>1. TabTypes
      BY DEF DeskInv, Types
    <2>2. CASE Mutates(c)
      <3>1. c.args.incident \in DemoIncidents /\ c.args.id \in Nat
        BY <1>1, <2>2 DEF Mutates, NoteMade, Edits
      <3> DEFINE copies == [mock EXCEPT ![t][c.args.incident].notes = @ \cup {c.args.id}]
      <3>2. copies \in [Tabs -> [DemoIncidents -> [status : Statuses, notes : SUBSET Nat]]]
        BY <2>1, <3>1, MockStaysByNote
      <3>3. mock' = copies
        BY <1>3, <2>2
      <3> HIDE DEF copies
      <3> QED
        BY <3>2, <3>3, Zenon
    <2>3. CASE ~Mutates(c)
      BY <1>3, <2>1, <2>3 DEF TabTypes
    <2> QED
      BY <2>2, <2>3
  <1>8. ok /\ c.args.incident \in LiveIncidents => c.args.id \in posted[c.args.incident]
    BY <1>1, DeskAssumption DEF Mutates, NoteMade
  <1>9. EditsTold'
    <2>1. UNCHANGED <<said, posted>>
      BY <1>3 DEF backendVars
    <2> HIDE DEF ok
    <2>2. CASE p.submitting
      <3>1. told'.op = "note" /\ told'.edit = c.args /\ told'.ok = ok
        BY <1>1, <1>3, <2>2
      <3> QED
        BY <1>8, <2>1, <3>1 DEF EditsTold
    <2>3. CASE ~p.submitting
      BY <1>3, <2>1, <2>3 DEF EditsTold, DeskInv
    <2> QED
      BY <2>2, <2>3
  <1>10. EditEffect(t)
    BY <1>3, <1>6, <1>7, <1>9
       DEF EditEffect, backendVars, DeskInv, Types, ClientTypes, TabTypes
  <1>11. /\ wrong \in Page /\ wrong.kind = p.kind /\ wrong.incident = p.incident
         /\ wrong.run = p.run /\ wrong.loading = p.loading /\ ~wrong.submitting
         /\ wrong.updating = p.updating /\ Honest(wrong)
    BY <1>2 DEF Page, Honest
  <1> HIDE DEF wrong, ok
  <1>12. /\ q \in Page /\ q.kind = p.kind /\ q.incident = p.incident /\ q.run = p.run
         /\ q.loading = p.loading /\ q.updating = p.updating /\ Honest(q)
         /\ q.submitting => ok /\ p.submitting
    BY <1>2, <1>11
  <1> HIDE DEF q
  <1>13. Turns(t, "note", q, d)
    <2>1. d # None => NoteMade(d)
      BY <1>1, <1>5 DEF NoteMade
    <2>2. q.submitting => d # None /\ d.args.incident = q.incident
      BY <1>1, <1>5, <1>12 DEF DeskInv, EditsFit
    <2> QED
      BY <1>4, <1>5, <1>12, <2>1, <2>2 DEF Turns
  <1> QED
    BY <1>10, <1>12, <1>13, EditKeeps

(* The notes that are read again are those of the page's incident.         *)
LEMMA NotesBackKeeps ==
  ASSUME DeskInv, NEW t \in Tabs, NotesBack(t)
  PROVE  DeskInv'
  <1> DEFINE ok == Answered(t, "note", "notes") /\ session[t] # None
             c == calls[t]["note"]
             p == page[t]
             notes == GetIncidentNotes(t, c.args.incident, ok)
             r == [p EXCEPT !.submitting = FALSE, !.notes = notes]
             q == IF p.submitting THEN r ELSE p
  <1>1. c # None /\ NoteMade(c)
    BY DEF NotesBack, Answered, Failed, At, DeskInv, EditsMade
  <1>2. p \in Page /\ Honest(p)
    BY DEF DeskInv, Types, TabTypes, PagesHonest, Honest
  <1>3. /\ calls' = [calls EXCEPT ![t]["note"] = None] /\ UNCHANGED <<probes, cached>>
        /\ UNCHANGED <<up, faults, trusted, backendVars, auth, mock, told, moves>>
        /\ page' = [page EXCEPT ![t] = q]
    BY DEF NotesBack, Done, DeskInv, Types, TabTypes
  <1>4. /\ notes \in SUBSET Nat
        /\ c.args.incident \in LiveIncidents => notes \subseteq posted[c.args.incident]
    BY <1>1, DeskAssumption
       DEF GetIncidentNotes, NoteMade, Edits, DeskInv, Types, BackendTypes, TabTypes
  <1>5. p.submitting => c.args.incident = p.incident
    BY DEF DeskInv, EditsFit
  <1> HIDE DEF notes
  <1>6. p.submitting =>
          /\ r \in Page /\ r.kind = p.kind /\ r.incident = p.incident /\ r.run = p.run
          /\ r.loading = p.loading /\ r.updating = p.updating /\ ~r.submitting /\ Honest(r)
    BY <1>2, <1>4, <1>5 DEF Page, Honest
  <1> HIDE DEF r
  <1>7. /\ q \in Page /\ q.kind = p.kind /\ q.incident = p.incident /\ q.run = p.run
        /\ q.loading = p.loading /\ q.updating = p.updating /\ ~q.submitting /\ Honest(q)
    BY <1>2, <1>6
  <1> HIDE DEF q
  <1>8. Turns(t, "note", q, None)
    BY <1>3, <1>7 DEF Turns
  <1>9. EditEffect(t)
    <2>1. EditsTold'
      BY <1>3 DEF EditsTold, backendVars, DeskInv
    <2> QED
      BY <1>3, <2>1 DEF EditEffect, backendVars, Live, DeskInv, Types, ClientTypes, TabTypes
  <1> QED
    BY <1>7, <1>8, <1>9, EditKeeps

-----------------------------------------------------------------------------
(* Requests at the backend                                                 *)

(* A request past its check asks for a move that was legal at the check.   *)
Sound(th) ==
  /\ th.slot = "status" => th.edit.to \in Statuses
  /\ th.slot = "status" /\ th.from # None =>
       th.edit.incident \in LiveIncidents /\ th.edit.to \in ValidTransitions[th.from]

(* What a step of the backend does: statuses and notes are only added to.  *)
BackendEffect ==
  /\ status' \in [LiveIncidents -> Statuses]
  /\ said' \in [LiveIncidents -> SUBSET Statuses]
  /\ posted' \in [LiveIncidents -> SUBSET Nat]
  /\ \A i \in LiveIncidents : /\ said[i] \subseteq said'[i] /\ status'[i] \in said'[i]
                              /\ posted[i] \subseteq posted'[i]

(* Calls are only answered, and what an answer says was made.              *)
CallsAnswered ==
  /\ calls' \in [Tabs -> [Slots -> Calls \cup {None}]]
  /\ \A u \in Tabs, s \in Slots :
       /\ calls'[u][s] = None <=> calls[u][s] = None
       /\ s \notin {"status", "note"} => calls'[u][s] = calls[u][s]
       /\ calls'[u][s] # None => calls'[u][s].args = calls[u][s].args
  /\ EditsMade'

(* Such a step keeps the invariant.                                        *)
LEMMA ThreadKeeps ==
  ASSUME DeskInv, BackendEffect, CallsAnswered,
         UNCHANGED <<up, probes, cached, trusted, session, auth, page, mock, told>>,
         faults' \in Nat, moves' \in Nat,
         threads' \subseteq Requests, \A th \in threads' : Sound(th)
  PROVE  DeskInv'
  <1> USE DEF DeskInv, Types
  <1>1. {"identity", "load", "status", "note"} \subseteq Slots
    BY DEF Slots
  <1>2. Types'
    BY DEF ClientTypes, BackendTypes, TabTypes, BackendEffect, CallsAnswered
  <1>3. Trust'
    BY DEF Trust
  <1>4. Identity'
    BY <1>1 DEF Identity, CallsAnswered, Vouched, Fitting
  <1>5. Loads'
    BY <1>1 DEF Loads, CallsAnswered
  <1>6. EditsFit'
    BY <1>1 DEF EditsFit, CallsAnswered
  <1>7. Checked'
    BY DEF Checked, BackendEffect, Sound
  <1>8. PagesHonest'
    BY DEF PagesHonest, Honest, BackendEffect
  <1>9. EditsTold'
    BY DEF EditsTold, BackendEffect
  <1> QED
    BY <1>2, <1>3, <1>4, <1>5, <1>6, <1>7, <1>8, <1>9 DEF CallsAnswered

(* A request that reaches the backend is that of its call.                 *)
LEMMA ArrivesKeeps ==
  ASSUME DeskInv, NEW t \in Tabs, NEW slot \in {"status", "note"}, Arrives(t, slot)
  PROVE  DeskInv'
  <1> USE DEF DeskInv, Types
  <1> DEFINE c == calls[t][slot]
             d == [c EXCEPT !.answer = "taken"]
             th == [tab |-> t, slot |-> slot, edit |-> c.args, from |-> None]
  <1>1. slot \in Slots
    BY DEF Slots
  <1>2. /\ c \in Calls /\ c # None /\ c.stage = "sent"
        /\ slot = "status" => StatusMade(c)
        /\ slot = "note" => NoteMade(c)
    BY <1>1, NoneAssumption DEF Arrives, Answered, At, EditsMade, ClientTypes
  <1>3. /\ d \in Calls /\ d.op = c.op /\ d.args = c.args /\ d.stage = c.stage /\ d # None
    BY <1>2, NoneAssumption DEF Calls
  <1>4. th \in Requests /\ Sound(th)
    BY <1>2 DEF Requests, Sound, StatusMade, NoteMade
  <1>5. /\ threads' = threads \cup {th} /\ calls' = [calls EXCEPT ![t][slot] = d]
        /\ UNCHANGED <<up, faults, probes, cached, trusted, status, said, posted,
                       session, auth, page, mock, told, moves>>
    BY <1>1 DEF Arrives, ClientTypes
  <1> HIDE DEF d, th
  <1>6. /\ calls' \in [Tabs -> [Slots -> Calls \cup {None}]]
        /\ \A u \in Tabs, s \in Slots :
             calls'[u][s] = IF u = t /\ s = slot THEN d ELSE calls[u][s]
    BY <1>1, <1>3, <1>5 DEF ClientTypes
  <1>7. EditsMade'
    BY <1>1, <1>2, <1>3, <1>5, <1>6 DEF EditsMade, StatusMade, NoteMade, Slots
  <1>8. CallsAnswered
    BY <1>2, <1>3, <1>6, <1>7 DEF CallsAnswered
  <1>9. BackendEffect
    BY <1>5 DEF BackendEffect, BackendTypes, Checked
  <1>10. threads' \subseteq Requests /\ \A r \in threads' : Sound(r)
    BY <1>4, <1>5 DEF BackendTypes, Checked, Sound
  <1> QED
    BY <1>5, <1>8, <1>9, <1>10, ThreadKeeps DEF ClientTypes, TabTypes

(* An answer of the backend finds the call it answers, or none.            *)
LEMMA ReplyAnswers ==
  ASSUME DeskInv, NEW th \in threads, NEW stage \in {"answered", "failed"},
         NEW answer \in Statuses \cup {"ok", None}, Reply(th, stage, answer), BackendEffect,
         stage = "answered" =>
           /\ th.edit.incident \in LiveIncidents
           /\ th.slot = "status" =>
                answer = th.edit.to /\ th.edit.to \in said'[th.edit.incident]
           /\ th.slot = "note" => th.edit.id \in posted'[th.edit.incident]
  PROVE  CallsAnswered
  <1> USE DEF DeskInv, Types
  <1>1. th \in Requests /\ {"status", "note"} \subseteq Slots
    BY DEF BackendTypes, Slots
  <1>2. \A u \in Tabs :
          /\ calls[u]["status"] # None =>
               (StatusMade(calls[u]["status"]))'
                 \/ calls'[u]["status"] # calls[u]["status"]
          /\ calls[u]["note"] # None =>
               (NoteMade(calls[u]["note"]))' \/ calls'[u]["note"] # calls[u]["note"]
    BY DEF EditsMade, StatusMade, NoteMade, BackendEffect
  <1>3. CASE ~Waits(th)
    <2>1. calls' = calls
      BY <1>3 DEF Reply
    <2> QED
      BY <1>1, <1>2, <2>1 DEF CallsAnswered, EditsMade, ClientTypes
  <1>4. CASE Waits(th)
    <2> DEFINE t == th.tab
               slot == th.slot
               c == calls[t][slot]
    <2>1. t \in Tabs /\ slot \in {"status", "note"} /\ slot \in Slots
      BY <1>1, <1>4 DEF Waits, Requests
    <2>2. c \in Calls /\ c # None /\ c.op = slot /\ c.args = th.edit
      BY <1>4, <2>1 DEF Waits, ClientTypes
    <2>3. PICK d \in Calls :
            /\ d.op = c.op /\ d.args = c.args /\ d.stage = stage /\ d.answer = answer
            /\ calls' = [calls EXCEPT ![t][slot] = d]
      <3> DEFINE e == [c EXCEPT !.stage = stage, !.answer = answer]
      <3>1. /\ e \in Calls /\ e.op = c.op /\ e.args = c.args /\ e.stage = stage
            /\ e.answer = answer
        BY <2>2 DEF Calls
      <3>2. calls' = [calls EXCEPT ![t][slot] = e]
        BY <1>4, <2>1 DEF Reply, ClientTypes
      <3> HIDE DEF e
      <3> QED
        BY <3>1, <3>2
    <2>4. d # None
      BY NoneAssumption
    <2>5. /\ calls' \in [Tabs -> [Slots -> Calls \cup {None}]]
          /\ \A u \in Tabs, s \in Slots :
               calls'[u][s] = IF u = t /\ s = slot THEN d ELSE calls[u][s]
      BY <2>1, <2>3 DEF ClientTypes
    <2>6. /\ slot = "status" => (StatusMade(d))'
          /\ slot = "note" => (NoteMade(d))'
      <3>1. /\ slot = "status" => StatusMade(c)
            /\ slot = "note" => NoteMade(c)
        BY <2>1, <2>2 DEF EditsMade
      <3> QED
        BY <2>2, <2>3, <3>1 DEF StatusMade, NoteMade
    <2>7. EditsMade'
      BY <1>1, <1>2, <2>1, <2>5, <2>6 DEF EditsMade
    <2> QED
      BY <2>1, <2>2, <2>3, <2>4, <2>5, <2>7 DEF CallsAnswered
  <1> QED
    BY <1>3, <1>4

(* What was made stays made.                                               *)
LEMMA CallsStayAnswered ==
  ASSUME DeskInv, UNCHANGED calls, BackendEffect
  PROVE  CallsAnswered
  <1>1. {"status", "note"} \subseteq Slots
    BY DEF Slots
  <1> QED
    BY <1>1 DEF CallsAnswered, EditsMade, StatusMade, NoteMade, BackendEffect, DeskInv,
                Types, ClientTypes

(* The check of a change of status, which lets it go on or refuses it.     *)
LEMMA CheckStatusKeeps ==
  ASSUME DeskInv, NEW th \in threads, CheckStatus(th)
  PROVE  DeskInv'
  <1> USE DEF DeskInv, Types
  <1> DEFINE i == th.edit.incident
             going == [th EXCEPT !.from = status[i]]
  <1>1. th \in Requests /\ Sound(th) /\ th.slot = "status" /\ th.from = None
    BY DEF CheckStatus, BackendTypes, Checked, Sound
  <1>2. UNCHANGED <<status, said, posted>>
    BY DEF CheckStatus
  <1>3. BackendEffect
    BY <1>2 DEF BackendEffect, BackendTypes, Checked
  <1>4. CASE Allows(th)
    <2>1. i \in LiveIncidents /\ th.edit.to \in ValidTransitions[status[i]]
      BY <1>4 DEF Allows, Known
    <2>2. going \in Requests /\ Sound(going)
      BY <1>1, <2>1 DEF Requests, Sound, BackendTypes
    <2>3. /\ threads' = (threads \ {th}) \cup {going}
          /\ UNCHANGED <<clientVars, session, auth, page, mock, told, moves>>
      BY <1>4 DEF CheckStatus
    <2> HIDE DEF going
    <2>4. threads' \subseteq Requests /\ \A r \in threads' : Sound(r)
      BY <2>2, <2>3 DEF BackendTypes, Checked, Sound
    <2> QED
      BY <1>3, <2>3, <2>4, CallsStayAnswered, ThreadKeeps
         DEF clientVars, ClientTypes, TabTypes
  <1>5. CASE ~Allows(th)
    <2>1. Reply(th, "failed", None)
      BY <1>5 DEF CheckStatus
    <2>2. CallsAnswered
      BY <1>3, <2>1, ReplyAnswers
    <2>3. threads' \subseteq Requests /\ \A r \in threads' : Sound(r)
      BY <2>1 DEF Reply, BackendTypes, Checked, Sound
    <2> QED
      BY <1>3, <2>1, <2>2, <2>3, ThreadKeeps DEF Reply, ClientTypes, TabTypes
  <1> QED
    BY <1>4, <1>5

(* The change itself.                                                      *)
LEMMA SetStatusKeeps ==
  ASSUME DeskInv, NEW th \in threads, SetStatus(th)
  PROVE  DeskInv'
  <1> USE DEF DeskInv, Types
  <1> DEFINE i == th.edit.incident
             to == th.edit.to
  <1>1. /\ th \in Requests /\ th.slot = "status" /\ i \in LiveIncidents
        /\ to \in Statuses
    BY DEF SetStatus, BackendTypes, Checked
  <1>2. /\ status' = [status EXCEPT ![i] = to]
        /\ said' = [said EXCEPT ![i] = @ \cup {to}] /\ posted' = posted
        /\ Reply(th, "answered", to)
    BY DEF SetStatus
  <1>3. BackendEffect
    BY <1>1, <1>2 DEF BackendEffect, BackendTypes, Checked
  <1>4. to \in said'[i]
    BY <1>1, <1>2 DEF BackendTypes
  <1>5. CallsAnswered
    BY <1>1, <1>2, <1>3, <1>4, ReplyAnswers
  <1>6. threads' \subseteq Requests /\ \A r \in threads' : Sound(r)
    BY <1>2 DEF Reply, BackendTypes, Checked, Sound
  <1> QED
    BY <1>2, <1>3, <1>5, <1>6, ThreadKeeps DEF Reply, ClientTypes, TabTypes

(* A note is added, or refused.                                            *)
LEMMA AddNoteKeeps ==
  ASSUME DeskInv, NEW th \in threads, AddNote(th)
  PROVE  DeskInv'
  <1> USE DEF DeskInv, Types
  <1> DEFINE i == th.edit.incident
             id == th.edit.id
  <1>1. th \in Requests /\ th.slot = "note" /\ id \in Nat
    BY DEF AddNote, BackendTypes, Requests, Edits
  <1>2. UNCHANGED <<status, said>>
    BY DEF AddNote
  <1>3. PICK stage \in {"answered", "failed"}, answer \in {"ok", None} :
          Reply(th, stage, answer) /\ (stage = "answered" <=> Known(th))
    BY DEF AddNote
  <1>4. posted' = IF Known(th) THEN [posted EXCEPT ![i] = @ \cup {id}] ELSE posted
    BY DEF AddNote
  <1>5. Known(th) => i \in LiveIncidents
    BY DEF Known
  <1>6. BackendEffect
    BY <1>1, <1>2, <1>4, <1>5 DEF BackendEffect, BackendTypes, Checked
  <1>7. Known(th) => id \in posted'[i]
    BY <1>1, <1>4, <1>5 DEF BackendTypes
  <1>8. CallsAnswered
    BY <1>1, <1>3, <1>5, <1>6, <1>7, ReplyAnswers
  <1>9. threads' \subseteq Requests /\ \A r \in threads' : Sound(r)
    BY <1>3 DEF Reply, BackendTypes, Checked, Sound
  <1> QED
    BY <1>3, <1>6, <1>8, <1>9, ThreadKeeps DEF Reply, ClientTypes, TabTypes

(* A colleague's request is one that is yet to be checked.                 *)
LEMMA ColleagueKeeps ==
  ASSUME DeskInv, NEW i \in LiveIncidents, NEW to \in Statuses, ColleagueChanges(i, to)
  PROVE  DeskInv'
  <1> USE DEF DeskInv, Types
  <1> DEFINE e == [incident |-> i, to |-> to, id |-> moves + 1]
             th == [tab |-> None, slot |-> "status", from |-> None, edit |-> e]
  <1>1. moves + 1 \in Nat
    BY DEF TabTypes
  <1>2. e \in Edits /\ e.to = to
    BY <1>1 DEF Edits
  <1>3. threads' = threads \cup {th} /\ moves' = moves + 1
        /\ UNCHANGED <<clientVars, status, said, posted, session, auth, page, mock, told>>
    BY DEF ColleagueChanges, Move
  <1> HIDE DEF e
  <1>4. th \in Requests /\ Sound(th)
    BY <1>2 DEF Requests, Sound
  <1> HIDE DEF th
  <1>5. BackendEffect
    BY <1>3 DEF BackendEffect, BackendTypes, Checked
  <1>6. threads' \subseteq Requests /\ \A r \in threads' : Sound(r)
    BY <1>3, <1>4 DEF BackendTypes, Checked, Sound
  <1>7. UNCHANGED <<up, faults, probes, cached, calls, trusted>>
    BY <1>3 DEF clientVars
  <1>8. faults' \in Nat /\ moves' \in Nat
    BY <1>1, <1>3, <1>7 DEF ClientTypes
  <1> QED
    BY <1>3, <1>5, <1>6, <1>7, <1>8, CallsStayAnswered, ThreadKeeps

-----------------------------------------------------------------------------
(* The invariant                                                           *)

(* The invariant holds at first.                                           *)
LEMMA InitHolds ==
  ASSUME Init
  PROVE  DeskInv
  <1> USE DEF Init
  <1> DEFINE boot == Call("boot", <<>>, 1, "probing")
  <1>1. boot \in Calls /\ boot.op = "boot" /\ boot.answer = None /\ boot.stage = "probing"
    BY DEF Call, Calls, Ops
  <1>2. \A t \in Tabs, slot \in Slots :
          calls[t][slot] = IF slot = "identity" THEN boot ELSE None
    OBVIOUS
  <1> HIDE DEF boot
  <1>3. ClientTypes
    <2>1. calls \in [Tabs -> [Slots -> Calls \cup {None}]]
      BY <1>1 DEF boot
    <2>2. /\ probes \in [Tabs -> Seq(Verdicts)]
          /\ \A t \in Tabs : Len(probes[t]) = 1
      BY DEF Verdicts
    <2>3. cached \in [Tabs -> Nat] /\ \A t \in Tabs : cached[t] = 1
      OBVIOUS
    <2> QED
      BY <2>1, <2>2, <2>3 DEF ClientTypes
  <1>4. BackendTypes
    BY DEF BackendTypes, Statuses
  <1>5. TabTypes
    <2>1. auth \in [Tabs -> Auth]
      BY DEF Auth
    <2>2. page \in [Tabs -> Page]
      BY BlankIsPage
    <2>3. mock \in [Tabs -> [DemoIncidents -> [status : Statuses, notes : SUBSET Nat]]]
      BY DEF Statuses
    <2> QED
      BY <2>1, <2>2, <2>3 DEF TabTypes
  <1>6. {"identity", "load", "status", "note"} \subseteq Slots
    BY DEF Slots
  <1>7. Trust
    BY DEF Trust
  <1>8. Identity
    <2>1. Vouched(boot)
      BY <1>1 DEF Vouched
    <2>2. \A t \in Tabs : Fitting(auth[t])
      <3>1. PICK stored \in [Tabs -> BOOLEAN] :
              auth = [t \in Tabs |->
                [user |-> None, capabilities |-> None, booting |-> TRUE,
                 expires |-> stored[t], stored |-> stored[t]]]
        OBVIOUS
      <3> QED
        BY <3>1 DEF Fitting
    <2> QED
      BY <1>2, <1>6, <2>1, <2>2 DEF Identity
  <1>9. Loads /\ EditsFit
    BY <1>2, <1>6, BlankIsPage DEF Loads, EditsFit
  <1>10. EditsMade
    BY <1>2, <1>6 DEF EditsMade
  <1>11. Checked /\ EditsTold
    BY DEF Checked, EditsTold
  <1>12. PagesHonest
    BY BlankIsPage, NoneAssumption DEF PagesHonest, Honest
  <1> QED
    BY <1>3, <1>4, <1>5, <1>7, <1>8, <1>9, <1>10, <1>11, <1>12 DEF DeskInv, Types

(* It holds when nothing happens.                                          *)
LEMMA StutterKeeps ==
  ASSUME DeskInv, UNCHANGED vars
  PROVE  DeskInv'
  <1>1. UNCHANGED <<up, faults, probes, cached, calls, trusted, status, said, posted,
                    threads, session, auth, page, mock, told, moves>>
    BY DEF vars, clientVars, backendVars
  <1> QED
    BY <1>1 DEF DeskInv, Types, ClientTypes, BackendTypes, TabTypes, Trust, Identity,
       Vouched, Fitting, Loads, EditsFit, EditsMade, StatusMade, NoteMade, Checked,
       PagesHonest, Honest, EditsTold

(* Every step keeps the invariant.                                         *)
LEMMA NextKeeps ==
  ASSUME DeskInv, [Next]_vars
  PROVE  DeskInv'
  <1>1. CASE UNCHANGED vars
    BY <1>1, StutterKeeps
  <1>2. CASE (GoesDown \/ ComesUp) /\ Rest
    BY <1>2, OutageKeeps
  <1>3. ASSUME NEW i \in LiveIncidents, NEW to \in Statuses, ColleagueChanges(i, to)
        PROVE  DeskInv'
    BY <1>3, ColleagueKeeps
  <1>4. ASSUME NEW th \in threads, Thread(th)
        PROVE  DeskInv'
    BY <1>4, CheckStatusKeeps, SetStatusKeeps, AddNoteKeeps DEF Thread
  <1>5. ASSUME NEW t \in Tabs, Load(t)
        PROVE  DeskInv'
    BY <1>5, LoadIncidentFills, LoadExtrasFills, LoadProfileFills, LoadAlertFills,
       LoadRelatedFills, LoadAlertIncidentFills, LoadListFills, LoadKeeps DEF Load
  <1>6. ASSUME NEW t \in Tabs, Identify(t)
        PROVE  DeskInv'
    BY <1>6, ServeMeSigns, MountSigns, ServeLoginSigns, SignedInSigns, LoginFailsSigns,
       FollowSigns, ServeLogoutSigns, SignedOutKeeps, SignKeeps DEF Identify
  <1>7. ASSUME NEW t \in Tabs, EditGoesOn(t)
        PROVE  DeskInv'
    BY <1>7, StatusBackKeeps, NoteBackKeeps, NotesBackKeeps, ArrivesKeeps DEF EditGoesOn
  <1>8. ASSUME NEW t \in Tabs, Logout(t) \/ SessionExpires(t) \/ SubmitNote(t)
        PROVE  DeskInv'
    BY <1>8, LogoutSigns, SessionExpiresSigns, SubmitNoteKeeps, SignKeeps
  <1>9. ASSUME NEW t \in Tabs, NEW role \in Roles, Login(t, role)
        PROVE  DeskInv'
    BY <1>9, LoginSigns, SignKeeps
  <1>10. ASSUME NEW t \in Tabs, NEW to \in Statuses, ChangeStatus(t, to)
         PROVE  DeskInv'
    BY <1>10, ChangeStatusKeeps
  <1>11. ASSUME NEW t \in Tabs, NEW kind \in {"incident", "alert"}, NEW run \in BOOLEAN,
                NEW i \in LiveIncidents \cup DemoIncidents, Open(t, kind, i, run)
         PROVE  DeskInv'
    BY <1>11, OpenKeeps DEF Incidents
  <1>12. ASSUME NEW t \in Tabs, Open(t, "list", None, FALSE)
         PROVE  DeskInv'
    BY <1>12, OpenKeeps
  <1>13. ASSUME NEW t \in Tabs, (ProbeAnswers(t) \/ ProbeTimesOut(t)) /\ Rest
         PROVE  DeskInv'
    BY <1>13, ProbeAnswersKeeps, ProbeTimesOutKeeps
  <1>14. ASSUME NEW t \in Tabs, NEW slot \in Slots, Loses(t, slot) /\ Rest
         PROVE  DeskInv'
    BY <1>14, LosesKeeps
  <1> QED
    BY <1>1, <1>2, <1>3, <1>4, <1>5, <1>6, <1>7, <1>8, <1>9, <1>10, <1>11, <1>12, <1>13,
       <1>14 DEF Next

(* The inductive invariant holds in every state of the system.             *)
THEOREM DeskInvariant == Spec => []DeskInv
  <1>1. Init => DeskInv
    BY InitHolds
  <1>2. DeskInv /\ [Next]_vars => DeskInv'
    BY NextKeeps
  <1> QED
    BY <1>1, <1>2, PTL DEF Spec

-----------------------------------------------------------------------------
(* The theorems                                                            *)

(* The tabs, the sessions and the incidents have their types, and a page   *)
(* is loading exactly while its load has a call under way.                 *)
THEOREM TypeCorrect == Spec => []TypeOK
  <1>1. DeskInv => TypeOK
    BY NoneAssumption
       DEF DeskInv, Types, ClientTypes, BackendTypes, TabTypes, TypeOK, Loads, Auth, Page,
           Shown, PagesHonest, Honest
  <1> QED
    BY <1>1, DeskInvariant, PTL

(* A tab that signed in while the backend answers has no cached verdict    *)
(* that the backend is down, however late an earlier probe comes back.     *)
THEOREM SignedInStaysLive == Spec => []SignedInIsLive
  <1>1. DeskInv => SignedInIsLive
    BY DEF DeskInv, Trust, SignedInIsLive
  <1> QED
    BY <1>1, DeskInvariant, PTL

(* Behind AuthGuard an expiry is shown with a user and stored as shown.    *)
THEOREM ExpiryHasUser == Spec => []ExpiryFollowsUser
  <1>1. DeskInv => ExpiryFollowsUser
    BY DEF DeskInv, Identity, Fitting, ExpiryFollowsUser
  <1> QED
    BY <1>1, DeskInvariant, PTL

(* A page of a live incident never shows the demo's data.                  *)
THEOREM LiveIsHonest == Spec => []LiveNeverFaked
  <1>1. DeskInv => LiveNeverFaked
    BY DEF DeskInv, PagesHonest, Honest, LiveNeverFaked
  <1> QED
    BY <1>1, DeskInvariant, PTL

(* An edit of a live incident that ends well is with the backend.          *)
THEOREM EditsReachBackend == Spec => []EditsTold
  <1>1. DeskInv => EditsTold
    BY DEF DeskInv
  <1> QED
    BY <1>1, DeskInvariant, PTL

(* Only a request that was checked against another status makes a move     *)
(* that the graph does not have.                                           *)
THEOREM MovesAreLegal == Spec => LegalUnlessOvertaken
  <1> DEFINE Legal ==
        \A i \in LiveIncidents :
          status'[i] # status[i] =>
            \/ status'[i] \in ValidTransitions[status[i]]
            \/ \E th \in threads : th.edit.incident = i /\ th.from \notin {None, status[i]}
  <1>1. DeskInv /\ [Next]_vars => [Legal]_vars
    <2> SUFFICES ASSUME DeskInv, Next
                 PROVE  Legal
      OBVIOUS
    <2>1. ASSUME status' = status
          PROVE  Legal
      BY <2>1
    <2>2. ASSUME NEW th \in threads, SetStatus(th)
          PROVE  Legal
      <3> DEFINE to == th.edit.to
      <3>1. /\ status' = [status EXCEPT ![th.edit.incident] = to]
            /\ th.slot = "status" /\ th.from # None
        BY <2>2 DEF SetStatus
      <3>2. to \in ValidTransitions[th.from] /\ th.edit.incident \in LiveIncidents
        BY <3>1 DEF DeskInv, Checked
      <3> HIDE DEF to
      <3> QED
        BY <3>1, <3>2 DEF DeskInv, Types, BackendTypes
    <2>3. ASSUME NEW t \in Tabs
          PROVE  /\ Load(t) => status' = status
                 /\ Identify(t) => status' = status
                 /\ EditGoesOn(t) => status' = status
                 /\ Logout(t) \/ SessionExpires(t) \/ SubmitNote(t) => status' = status
                 /\ \A role \in Roles : Login(t, role) => status' = status
                 /\ \A to \in Statuses : ChangeStatus(t, to) => status' = status
                 /\ \A kind, i, run : Open(t, kind, i, run) => status' = status
      <3>1. Load(t) => status' = status
        BY DEF Load, LoadIncident, LoadExtras, LoadProfile, LoadAlert, LoadRelated,
               LoadAlertIncident, LoadList, LoadStep, backendVars
      <3>2. Identify(t) => status' = status
        BY DEF Identify, ServeMe, Mount, ServeLogin, SignedIn, LoginFails, Follow,
               ServeLogout, SignedOut, backendVars
      <3>3. EditGoesOn(t) => status' = status
        BY DEF EditGoesOn, StatusBack, NoteBack, NotesBack, Arrives, backendVars
      <3>4. Logout(t) \/ SessionExpires(t) \/ SubmitNote(t) => status' = status
        BY DEF Logout, SessionExpires, SubmitNote, Edit, backendVars
      <3>5. /\ \A role \in Roles : Login(t, role) => status' = status
            /\ \A to \in Statuses : ChangeStatus(t, to) => status' = status
            /\ \A kind, i, run : Open(t, kind, i, run) => status' = status
        BY DEF Login, ChangeStatus, Edit, Open, backendVars
      <3> QED
        BY <3>1, <3>2, <3>3, <3>4, <3>5
    <2>4. Rest => status' = status
      BY DEF Rest, backendVars
    <2>5. ASSUME NEW i \in LiveIncidents, NEW to \in Statuses, ColleagueChanges(i, to)
          PROVE  status' = status
      BY <2>5 DEF ColleagueChanges
    <2>6. ASSUME NEW th \in threads, CheckStatus(th) \/ AddNote(th)
          PROVE  status' = status
      BY <2>6 DEF CheckStatus, AddNote
    <2> HIDE DEF Legal
    <2> QED
      BY <2>1, <2>2, <2>3, <2>4, <2>5, <2>6 DEF Next, Thread
  <1> QED
    BY <1>1, DeskInvariant, PTL DEF Spec, LegalUnlessOvertaken

=============================================================================
