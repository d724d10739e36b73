--------------------------- MODULE IncidentDesk ---------------------------
(***************************************************************************)
(* Analysts at work in their browsers: who is signed in (AuthProvider),    *)
(* the incident and alert pages and the list of incidents, the edits they  *)
(* send, and the incident routes of the backend.  Each tab is a browser of *)
(* its own.  An incident is live, known to the backend, or one of the demo *)
(* incidents compiled into the page; a tab edits a copy of the latter.     *)
(***************************************************************************)
EXTENDS ApiClient, FiniteSets

CONSTANTS
  LiveIncidents, DemoIncidents,   \* correlation ids
  Roles,                          \* analyst, who may edit, and others
  MaxMoves                        \* bound on what the analysts do

ASSUME DeskAssumption ==
  /\ LiveIncidents \cap DemoIncidents = {}
  /\ MaxMoves \in Nat

VARIABLES
  \* the backend
  status, said,   \* of each live incident, and every status it ever had
  posted,         \* the notes of each live incident
  threads,        \* PATCH and POST requests that reached the backend
  session,        \* the role of each tab's cookie, or None
  \* the tabs
  auth,           \* the state of AuthProvider, and sessionStorage
  page, mock,     \* the page, and mockIncidentsState
  told,           \* the last edit whose outcome the page was told
  moves           \* what the analysts have done so far

backendVars == <<status, said, posted, threads, session>>
vars        == <<clientVars, backendVars, auth, page, mock, told, moves>>

Statuses == {"open", "investigating", "contained", "resolved", "closed"}

(* The edits the tabs send, and the calls of their slots.                  *)
Edits == [incident : LiveIncidents \cup DemoIncidents,
          to : Statuses \cup {"text"}, id : Nat]
Ops   == {"boot", "login", "follow", "logout", "incident", "missionIncident",
          "extras", "profile", "alerts", "related", "list", "status", "note",
          "notes"}
Calls == [op : Ops, args : Edits \cup Roles \cup {<<>>}, probe : Nat,
          stage : {"probing", "sent", "answered", "failed"},
          answer : Roles \cup Statuses \cup {"ok", "taken", None}]

(* None is nothing else.                                                   *)
ASSUME NoneAssumption ==
  /\ None \notin Roles \cup Statuses \cup LiveIncidents \cup DemoIncidents
  /\ None \notin Calls /\ None \notin {"ok", "taken"}

(* The moves a page offers, and those the backend accepts.                 *)
INCIDENT_STATUS_TRANSITIONS ==
  [s \in Statuses |->
     CASE s = "open"          -> {"investigating", "contained", "resolved"}
       [] s = "investigating" -> {"contained", "resolved"}
       [] s = "contained"     -> {"resolved"}
       [] s = "resolved"      -> {"closed"}
       [] s = "closed"        -> {}]
ValidTransitions ==
  [s \in Statuses |->
     CASE s = "open"          -> {"investigating", "contained", "resolved"}
       [] s = "investigating" -> {"contained", "resolved"}
       [] s = "contained"     -> {"resolved"}
       [] s = "resolved"      -> {"closed"}
       [] OTHER               -> {}]

-----------------------------------------------------------------------------
(* What is shown                                                           *)
Parts   == {"alerts", "events", "responses", "profile"}
NoParts == [part \in Parts |-> "none"]
Blank   == [kind |-> "none", incident |-> None, run |-> FALSE, shown |-> "none",
            status |-> None, parts |-> NoParts, notes |-> {}, loading |-> FALSE,
            updating |-> FALSE, submitting |-> FALSE, error |-> FALSE]

MaxPageSize == 200   \* of the backend's alerts and events
Routes      == {"alerts", "events", "profile"}   \* none for responses

(* The rows of one part that the fallback leaves, filtered by correlation. *)
Fallback(i) == IF i \in DemoIncidents THEN "demo" ELSE "none"

(* A list of rows: what the backend answers, unless it refuses the page    *)
(* size, has no such route or no such rows.  Demo actors are not actors of *)
(* the backend.                                                            *)
Rows(part, i, limit, ok) ==
  IF ok /\ part \in Routes /\ limit <= MaxPageSize /\ i \in LiveIncidents
    THEN "live" ELSE Fallback(i)

(* Slip: the alerts of the fallback are not filtered by correlation.       *)
ExtrasUnfiltered(i, got) ==
  [alerts    |-> LET a == Rows("alerts", i, 1000, "alerts" \in got)
                 IN  IF a = "none" THEN "demo" ELSE a,
   events    |-> Rows("events", i, 200, "events" \in got),
   responses |-> Rows("responses", i, 0, "responses" \in got),
   profile   |-> "none"]
(* The secondary calls of the incident page; got names those that were     *)
(* answered.                                                               *)
Extras(i, got) ==
  [alerts    |-> Rows("alerts", i, 1000, "alerts" \in got),
   events    |-> Rows("events", i, 200, "events" \in got),
   responses |-> Rows("responses", i, 0, "responses" \in got),
   profile   |-> "none"]

GetIncidentNotes(t, i, ok) ==
  IF ok /\ i \in LiveIncidents THEN posted[i]
  ELSE IF i \in DemoIncidents THEN mock[t][i].notes ELSE {}

(* A demo incident on a page is the tab's copy itself.                     *)
ShownStatus(t) ==
  IF page[t].shown = "demo" THEN mock[t][page[t].incident].status
                            ELSE page[t].status

Init ==
  /\ up \in BOOLEAN /\ faults = 0
  /\ status = [i \in LiveIncidents |-> "open"]
  /\ said = [i \in LiveIncidents |-> {"open"}]
  /\ posted = [i \in LiveIncidents |-> {}] /\ threads = {}
  /\ session \in [Tabs -> Roles \cup {None}]
  /\ \E stored \in [Tabs -> BOOLEAN] :
       auth = [t \in Tabs |->
         [user |-> None, capabilities |-> None, booting |-> TRUE,
          expires |-> stored[t], stored |-> stored[t]]]
  /\ probes = [t \in Tabs |-> <<"pending">>] /\ cached = [t \in Tabs |-> 1]
  /\ calls = [t \in Tabs |-> [slot \in Slots |->
       IF slot = "identity" THEN Call("boot", <<>>, 1, "probing") ELSE None]]
  /\ page = [t \in Tabs |-> Blank]
  /\ mock = [t \in Tabs |-> [i \in DemoIncidents |->
                               [status |-> "open", notes |-> {}]]]
  /\ trusted = {} /\ told = None
  /\ moves = 0

-----------------------------------------------------------------------------
(* Identity                                                                *)
Free(t, slot) == calls[t][slot] = None
Move          == moves < MaxMoves /\ moves' = moves + 1

Answers(t, slot, answer) ==
  /\ calls' = [calls EXCEPT ![t][slot].answer = answer,
                 ![t][slot].stage = IF answer = None THEN "failed" ELSE "answered"]
  /\ UNCHANGED <<up, faults, probes, cached, trusted>>

(* GET /auth/me, in answer to a cookie or with 401.                        *)
ServeMe(t) ==
  /\ Answered(t, "identity", "boot") \/ Answered(t, "identity", "follow")
  /\ Answers(t, "identity", session[t])
  /\ UNCHANGED <<backendVars, auth, page, mock, told, moves>>

(* Slip: the expiry in sessionStorage outlives the session.                *)
MountedKeepingExpiry(t, who) ==
  IF who = None THEN [auth[t] EXCEPT !.booting = FALSE]
  ELSE [auth[t] EXCEPT !.user = who, !.capabilities = who, !.booting = FALSE]
Mounted(t, who) ==
  IF who = None THEN [auth[t] EXCEPT !.booting = FALSE, !.expires = FALSE,
                                     !.stored = FALSE]
  ELSE [auth[t] EXCEPT !.user = who, !.capabilities = who, !.booting = FALSE]

(* The session check on mount; until then AuthGuard shows no page.         *)
Mount(t) ==
  /\ At(t, "identity", "boot", "answered") \/ At(t, "identity", "boot", "failed")
  /\ auth' = [auth EXCEPT ![t] = Mounted(t, calls[t].identity.answer)]
  /\ Done(t, "identity")
  /\ UNCHANGED <<up, faults, trusted, backendVars, page, mock, told, moves>>

Login(t, role) ==
  /\ ~auth[t].booting /\ auth[t].user = None /\ Free(t, "identity")
  /\ Move
  /\ Request(t, "identity", "login", role)
  /\ UNCHANGED <<up, faults, trusted, backendVars, auth, page, mock, told>>

(* A wrong password is refused.                                            *)
ServeLogin(t) ==
  /\ Answered(t, "identity", "login")
  /\ \E answer \in {None, calls[t].identity.args} : Answers(t, "identity", answer)
  /\ UNCHANGED <<backendVars, auth, page, mock, told, moves>>

(* Slip: the cached probe stays.                                           *)
FollowsCached(t) == Ask(t, "identity", "follow", <<>>)
Follows(t) == AskAfresh(t, "identity", "follow", <<>>)

SignedIn(t) ==
  LET role == calls[t].identity.answer
  IN  /\ At(t, "identity", "login", "answered")
      /\ session' = [session EXCEPT ![t] = role]
      /\ auth' = [auth EXCEPT ![t].user = role, ![t].expires = TRUE,
                              ![t].stored = TRUE]
      /\ trusted' = IF up THEN trusted \cup {t} ELSE trusted
      /\ Follows(t)
      /\ UNCHANGED <<up, faults, status, said, posted, threads, page, mock, told,
                     moves>>

LoginFails(t) ==
  /\ Failed(t, "identity", "login") /\ Done(t, "identity")
  /\ UNCHANGED <<up, faults, trusted, backendVars, auth, page, mock, told, moves>>

(* The rest of login(): capabilities, if /auth/me answers.                 *)
Follow(t) ==
  LET who == calls[t].identity.answer
  IN  /\ At(t, "identity", "follow", "answered") \/ Failed(t, "identity", "follow")
      /\ auth' = [auth EXCEPT ![t].capabilities = IF who = None THEN @ ELSE who]
      /\ Done(t, "identity")
      /\ UNCHANGED <<up, faults, trusted, backendVars, page, mock, told, moves>>

Logout(t) ==
  /\ auth[t].user # None /\ Free(t, "logout") /\ Move
  /\ Request(t, "logout", "logout", <<>>)
  /\ UNCHANGED <<up, faults, trusted, backendVars, auth, page, mock, told>>

ServeLogout(t) ==
  /\ Answered(t, "logout", "logout") /\ Answers(t, "logout", "ok")
  /\ session' = [session EXCEPT ![t] = None]
  /\ UNCHANGED <<status, said, posted, threads, auth, page, mock, told, moves>>

(* Whatever came of the request, the tab forgets who is signed in, and the *)
(* sidebar leaves the page for /login.                                     *)
SignedOut(t) ==
  /\ At(t, "logout", "logout", "answered") \/ Failed(t, "logout", "logout")
  /\ calls' = [calls EXCEPT ![t].logout = None, ![t].load = None]
  /\ page' = [page EXCEPT ![t] = Blank]
  /\ cached' = [cached EXCEPT ![t] = 0]
  /\ auth' = [auth EXCEPT ![t] = [user |-> None, capabilities |-> None,
                 booting |-> FALSE, expires |-> FALSE, stored |-> FALSE]]
  /\ UNCHANGED <<up, faults, trusted, probes, backendVars, mock, told, moves>>

SessionExpires(t) ==
  /\ session[t] # None /\ faults < MaxFaults
  /\ session' = [session EXCEPT ![t] = None] /\ faults' = faults + 1
  /\ UNCHANGED <<up, trusted, probes, cached, calls, status, said, posted, threads,
                 auth, page, mock, told, moves>>

-----------------------------------------------------------------------------
(* Pages.  Opening one leaves the one before: its load no longer matters,  *)
(* its edits go on without a page to tell; until they are answered no      *)
(* other edit of the kind is sent (a bound).                               *)
FirstCall(kind, run) ==
  CASE kind = "incident" -> IF run THEN "missionIncident" ELSE "incident"
    [] kind = "alert"    -> "alerts"
    [] kind = "list"     -> "list"

Loading(t, p) == page' = [page EXCEPT ![t] = p]

Open(t, kind, i, run) ==
  /\ ~auth[t].booting /\ Move
  /\ run => i \in LiveIncidents /\ kind = "incident"
  /\ Loading(t, [Blank EXCEPT !.kind = kind, !.incident = i, !.run = run,
                              !.loading = TRUE])
  /\ Ask(t, "load", FirstCall(kind, run), <<>>)
  /\ UNCHANGED <<up, faults, trusted, backendVars, auth, mock, told>>

(* A call of the load comes back: well, or (refused, lost, no backend) not.*)
Back(t, op) == Answered(t, "load", op) \/ Failed(t, "load", op)
Well(t, op) == Answered(t, "load", op) /\ session[t] # None
LoadStep    == UNCHANGED <<up, faults, trusted, backendVars, auth, mock, told, moves>>

(* getIncident, and getMissionIncident, which needs no session and has no  *)
(* fallback.                                                               *)
LoadIncident(t) ==
  LET p == page[t]
      op == FirstCall("incident", p.run)
      live == /\ p.incident \in LiveIncidents /\ Answered(t, "load", op)
              /\ session[t] # None \/ p.run
      shown == IF live THEN "live" ELSE IF p.run THEN "none" ELSE Fallback(p.incident)
  IN  /\ p.kind = "incident" /\ Back(t, op)
      /\ IF shown = "none"
           THEN /\ Loading(t, [p EXCEPT !.loading = FALSE, !.error = TRUE])
                /\ Done(t, "load")
           ELSE /\ Loading(t, [p EXCEPT !.shown = shown,
                     !.status = IF live THEN status[p.incident] ELSE None])
                /\ Ask(t, "load", "extras", <<>>)
      /\ LoadStep

(* Alerts, events, responses and notes, asked for together, each with its  *)
(* fallback; one of them may be lost.                                      *)
LoadExtras(t) ==
  LET all == Parts \cup {"notes"}
  IN  /\ Back(t, "extras")
      /\ \E got \in {all, {}, all \ {"notes"}, {"notes"}} :
           /\ Well(t, "extras") => got = all \/ faults < MaxFaults
           /\ ~Well(t, "extras") => got = {}
           /\ faults' = IF Well(t, "extras") /\ got # all THEN faults + 1 ELSE faults
           /\ Loading(t, [page[t] EXCEPT
                !.parts = Extras(page[t].incident, got),
                !.notes = GetIncidentNotes(t, page[t].incident, "notes" \in got)])
      /\ Ask(t, "load", "profile", <<>>)
      /\ UNCHANGED <<up, trusted, backendVars, auth, mock, told, moves>>

(* Slip: the load ends without setLoading(false).                          *)
LoadProfileUnfinished(t) ==
  /\ Back(t, "profile")
  /\ Loading(t, [page[t] EXCEPT
       !.parts.profile = Rows("profile", page[t].incident, 0, Well(t, "profile"))])
  /\ Done(t, "load") /\ LoadStep
LoadProfile(t) ==
  /\ Back(t, "profile")
  /\ Loading(t, [page[t] EXCEPT !.loading = FALSE,
       !.parts.profile = Rows("profile", page[t].incident, 0, Well(t, "profile"))])
  /\ Done(t, "load") /\ LoadStep

(* The alert page looks for its alert in a page of 500; without it the     *)
(* page says that there is none.                                           *)
LoadAlert(t) ==
  LET p == page[t]
      rows == Rows("alerts", p.incident, 500, Well(t, "alerts"))
  IN  /\ Back(t, "alerts")
      /\ Loading(t, [p EXCEPT !.parts.alerts = rows, !.loading = (rows # "none")])
      /\ IF rows = "none" THEN Done(t, "load")
                          ELSE Ask(t, "load", "related", <<>>)
      /\ LoadStep

LoadRelated(t) ==
  LET p == page[t]
  IN  /\ Back(t, "related")
      /\ Loading(t, [p EXCEPT
           !.parts.events = Rows("events", p.incident, 100, Well(t, "related")),
           !.parts.responses = Rows("responses", p.incident, 0, Well(t, "related"))])
      /\ Ask(t, "load", "incident", <<>>) /\ LoadStep

LoadAlertIncident(t) ==
  LET p == page[t]
      live == p.incident \in LiveIncidents /\ Well(t, "incident")
  IN  /\ p.kind = "alert" /\ Back(t, "incident")
      /\ Loading(t, [p EXCEPT !.loading = FALSE,
           !.shown = IF live THEN "live" ELSE Fallback(p.incident),
           !.status = IF live THEN status[p.incident] ELSE None])
      /\ Done(t, "load") /\ LoadStep

(* getIncidents: the backend's list, unless there is none or it is empty.  *)
LoadList(t) ==
  /\ Back(t, "list")
  /\ Loading(t, [page[t] EXCEPT !.loading = FALSE,
       !.shown = IF Well(t, "list") /\ LiveIncidents # {} THEN "live" ELSE "demo"])
  /\ Done(t, "load") /\ LoadStep

-----------------------------------------------------------------------------
(* Edits                                                                   *)
Editing(t) == page[t].kind = "incident" /\ page[t].shown # "none"
              /\ ~page[t].loading

Edit(t, slot, to) ==
  /\ Move
  /\ Ask(t, slot, slot, [incident |-> page[t].incident, to |-> to, id |-> moves + 1])
  /\ UNCHANGED <<up, faults, trusted, backendVars, auth, mock, told>>

ChangeStatus(t, to) ==
  /\ Editing(t) /\ ~page[t].updating /\ Free(t, "status")
  /\ to \in INCIDENT_STATUS_TRANSITIONS[ShownStatus(t)]
  /\ page' = [page EXCEPT ![t].updating = TRUE, ![t].error = FALSE]
  /\ Edit(t, "status", to)

SubmitNote(t) ==
  /\ Editing(t) /\ ~page[t].submitting /\ Free(t, "note")
  /\ page' = [page EXCEPT ![t].submitting = TRUE, ![t].error = FALSE]
  /\ Edit(t, "note", "text")

(* The backend's thread for a request: it lives on when the tab gives up.  *)
Arrives(t, slot) ==
  LET c == calls[t][slot]
  IN  /\ Answered(t, slot, slot) /\ c.answer = None
      /\ threads' = threads \cup
           {[tab |-> t, slot |-> slot, edit |-> c.args, from |-> None]}
      /\ calls' = [calls EXCEPT ![t][slot].answer = "taken"]
      /\ UNCHANGED <<up, faults, probes, cached, trusted, status, said, posted,
                     session, auth, page, mock, told, moves>>

(* An analyst elsewhere asks for a move, on a status the page there saw.   *)
ColleagueChanges(i, to) ==
  /\ \E seen \in said[i] : to \in INCIDENT_STATUS_TRANSITIONS[seen]
  /\ up /\ Move
  /\ threads' = threads \cup
       {[tab |-> None, slot |-> "status", from |-> None,
         edit |-> [incident |-> i, to |-> to, id |-> moves + 1]]}
  /\ UNCHANGED <<clientVars, status, said, posted, session, auth, page, mock, told>>

Waits(th) ==
  /\ th.tab # None
  /\ LET c == calls[th.tab][th.slot]
     IN  c # None /\ c.op = th.slot /\ c.args = th.edit /\ c.stage = "sent"

(* The answer finds the tab's call, or nobody.                             *)
Reply(th, stage, answer) ==
  /\ threads' = threads \ {th}
  /\ calls' = IF Waits(th) THEN [calls EXCEPT ![th.tab][th.slot].stage = stage,
                                              ![th.tab][th.slot].answer = answer]
                           ELSE calls
  /\ UNCHANGED <<up, faults, probes, cached, trusted, session, auth, page, mock, told,
                 moves>>

Known(th) ==
  /\ th.edit.incident \in LiveIncidents
  /\ th.tab # None => session[th.tab] = "analyst"

(* Slip: the move is not checked.                                          *)
AllowsAll(th) == Known(th)
Allows(th) ==
  Known(th) /\ th.edit.to \in ValidTransitions[status[th.edit.incident]]

(* update_incident_status checks the move against the status it reads ...  *)
CheckStatus(th) ==
  /\ th.slot = "status" /\ th.from = None
  /\ IF Allows(th)
       THEN /\ threads' = (threads \ {th}) \cup
                 {[th EXCEPT !.from = status[th.edit.incident]]}
            /\ UNCHANGED <<clientVars, status, said, posted, session, auth, page,
                           mock, told, moves>>
       ELSE Reply(th, "failed", None) /\ UNCHANGED <<status, said, posted>>

(* ... logs it, and makes it.                                              *)
SetStatus(th) ==
  LET i == th.edit.incident
  IN  /\ th.slot = "status" /\ th.from # None
      /\ status' = [status EXCEPT ![i] = th.edit.to]
      /\ said' = [said EXCEPT ![i] = @ \cup {th.edit.to}]
      /\ Reply(th, "answered", th.edit.to) /\ UNCHANGED posted

AddNote(th) ==
  /\ th.slot = "note"
  /\ IF Known(th)
       THEN /\ posted' = [posted EXCEPT ![th.edit.incident] = @ \cup {th.edit.id}]
            /\ Reply(th, "answered", "ok")
       ELSE Reply(th, "failed", None) /\ UNCHANGED posted
  /\ UNCHANGED <<status, said>>

(* Slip: the buttons stay disabled after an error.                         *)
StatusStuck(p, c, demo) ==
  IF c.stage = "answered" THEN [p EXCEPT !.updating = FALSE, !.status = c.answer]
  ELSE IF demo THEN [p EXCEPT !.updating = FALSE] ELSE [p EXCEPT !.error = TRUE]
(* handleStatusChange: the incident as the backend answers it, or an error *)
(* if there is no demo copy to fall back on.                               *)
StatusShown(p, c, demo) ==
  IF c.stage = "answered" THEN [p EXCEPT !.updating = FALSE, !.status = c.answer]
  ELSE [p EXCEPT !.updating = FALSE, !.error = IF demo THEN @ ELSE TRUE]

(* Slip: a failed edit of any incident counts as made in the demo.         *)
MutatesAny(c) == c.stage = "failed"
(* Any failure falls through to the demo copy, which knows only the demo   *)
(* incidents.                                                              *)
Mutates(c) == c.stage = "failed" /\ c.args.incident \in DemoIncidents

Tell(t, c, ok) ==
  told' = [tab |-> t, op |-> c.op, edit |-> c.args, ok |-> ok]

(* updateIncidentStatus comes back; the page may have been left.           *)
StatusBack(t) ==
  LET c == calls[t].status
      i == c.args.incident
  IN  /\ c # None /\ c.stage \in {"answered", "failed"}
      /\ mock' = IF Mutates(c) /\ i \in DemoIncidents
                   THEN [mock EXCEPT ![t][i].status = c.args.to] ELSE mock
      /\ IF page[t].updating
           THEN /\ page' = [page EXCEPT ![t] = StatusShown(@, c, Mutates(c))]
                /\ Tell(t, c, c.stage = "answered" \/ Mutates(c))
           ELSE UNCHANGED <<page, told>>
      /\ Done(t, "status")
      /\ UNCHANGED <<up, faults, trusted, backendVars, auth, moves>>

(* addIncidentNote comes back: the notes are read again, or the error is   *)
(* shown.                                                                  *)
NoteBack(t) ==
  LET c == calls[t].note
      i == c.args.incident
      ok == c.stage = "answered" \/ Mutates(c)
  IN  /\ c # None /\ c.op = "note" /\ c.stage \in {"answered", "failed"}
      /\ mock' = IF Mutates(c) /\ i \in DemoIncidents
                   THEN [mock EXCEPT ![t][i].notes = @ \cup {c.args.id}] ELSE mock
      /\ IF page[t].submitting THEN Tell(t, c, ok) ELSE UNCHANGED told
      /\ IF ok THEN Ask(t, "note", "notes", c.args) /\ UNCHANGED page
         ELSE /\ page' = IF page[t].submitting
                          THEN [page EXCEPT ![t].submitting = FALSE, ![t].error = TRUE]
                          ELSE page
              /\ Done(t, "note")
      /\ UNCHANGED <<up, faults, trusted, backendVars, auth, moves>>

NotesBack(t) ==
  LET ok == Answered(t, "note", "notes") /\ session[t] # None
      i  == calls[t].note.args.incident
  IN  /\ Answered(t, "note", "notes") \/ Failed(t, "note", "notes")
      /\ page' = IF page[t].submitting
                   THEN [page EXCEPT ![t].submitting = FALSE,
                                     ![t].notes = GetIncidentNotes(t, i, ok)]
                   ELSE page
      /\ Done(t, "note")
      /\ UNCHANGED <<up, faults, trusted, backendVars, auth, mock, told, moves>>

-----------------------------------------------------------------------------
Rest == UNCHANGED <<backendVars, auth, page, mock, told, moves>>

Load(t) == \/ LoadIncident(t) \/ LoadExtras(t) \/ LoadProfile(t) \/ LoadAlert(t)
           \/ LoadRelated(t) \/ LoadAlertIncident(t) \/ LoadList(t)
Identify(t) == \/ ServeMe(t) \/ Mount(t) \/ ServeLogin(t) \/ SignedIn(t)
               \/ LoginFails(t) \/ Follow(t) \/ ServeLogout(t) \/ SignedOut(t)
EditGoesOn(t) == \/ StatusBack(t) \/ NoteBack(t) \/ NotesBack(t)
                 \/ \E slot \in {"status", "note"} : Arrives(t, slot)
Thread(th) == CheckStatus(th) \/ SetStatus(th) \/ AddNote(th)

Next ==
  \/ \E t \in Tabs :
       \/ Load(t) \/ Identify(t) \/ EditGoesOn(t)
       \/ Logout(t) \/ SessionExpires(t) \/ SubmitNote(t)
       \/ \E role \in Roles : Login(t, role)
       \/ \E to \in Statuses : ChangeStatus(t, to)
       \/ \E kind \in {"incident", "alert"}, run \in BOOLEAN,
             i \in LiveIncidents \cup DemoIncidents : Open(t, kind, i, run)
       \/ Open(t, "list", None, FALSE)
       \/ ProbeAnswers(t) /\ Rest
       \/ ProbeTimesOut(t) /\ Rest
       \/ \E slot \in Slots : Loses(t, slot) /\ Rest
  \/ \E th \in threads : Thread(th)
  \/ \E i \in LiveIncidents, to \in Statuses : ColleagueChanges(i, to)
  \/ GoesDown /\ Rest
  \/ ComesUp /\ Rest

Spec == Init /\ [][Next]_vars

(* What the tab has under way goes on: a probe is answered or finds no     *)
(* backend, a request is answered or, without a backend, fails, an answer  *)
(* is processed; and the backend's threads run.  Nothing is asked of the   *)
(* analysts, and a backend that is down may stay down.                     *)
TabGoesOn(t) ==
  \/ Load(t) \/ Identify(t) \/ EditGoesOn(t)
  \/ ProbeAnswers(t) /\ Rest
  \/ ~up /\ (\E slot \in Slots : Loses(t, slot) /\ Rest)

Fairness == /\ \A t \in Tabs : WF_vars(TabGoesOn(t))
            /\ WF_vars(\E th \in threads : Thread(th))

FairSpec == Spec /\ Fairness

-----------------------------------------------------------------------------
(* Properties                                                              *)
TypeOK ==
  /\ status \in [LiveIncidents -> Statuses]
  /\ session \in [Tabs -> Roles \cup {None}]
  /\ \A t \in Tabs :
       /\ cached[t] \in 0 .. Len(probes[t])
       /\ auth[t].user \in Roles \cup {None}
       /\ page[t].shown \in {"none", "live", "demo"}
       /\ page[t].loading <=> calls[t].load # None
       /\ page[t].kind = "incident" /\ page[t].shown = "live"
            => page[t].status \in Statuses

(* A tab that signed in while the backend answers is not left in demo      *)
(* mode by what an earlier probe found: its verdict, however late, is not  *)
(* the one that is cached.                                                 *)
SignedInIsLive ==
  \A t \in trusted :
    auth[t].user # None => \/ cached[t] = 0
                           \/ probes[t][cached[t]] # "down"

(* Once AuthGuard shows a page, a session's expiry is only shown with a    *)
(* user, and what a reload would find in sessionStorage is what is shown.  *)
ExpiryFollowsUser ==
  \A t \in Tabs :
    ~auth[t].booting => /\ auth[t].expires => auth[t].user # None
                        /\ auth[t].stored = auth[t].expires

(* The demo never dresses up a live incident: its page shows a status the  *)
(* backend gave it, notes the backend has, and rows of the backend or      *)
(* none, through outages, refusals and edits that fail.                    *)
LiveNeverFaked ==
  \A t \in Tabs :
    LET p == page[t]
    IN  p.incident \in LiveIncidents =>
          /\ p.shown # "demo" /\ \A part \in Parts : p.parts[part] # "demo"
          /\ p.notes \subseteq posted[p.incident]
          /\ p.kind = "incident" /\ p.shown = "live" => p.status \in said[p.incident]

(* An edit of a live incident that ends without an error on the page is    *)
(* with the backend.                                                       *)
EditsTold ==
  told # None /\ told.ok /\ told.edit.incident \in LiveIncidents =>
    IF told.op = "status" THEN told.edit.to \in said[told.edit.incident]
                          ELSE told.edit.id \in posted[told.edit.incident]

(* Whatever moves the pages ask for on what they last saw, an incident     *)
(* only leaves the graph of moves when another request changed it between  *)
(* the check of one and its change.                                        *)
LegalUnlessOvertaken ==
  [][\A i \in LiveIncidents :
       status'[i] # status[i] =>
         \/ status'[i] \in ValidTransitions[status[i]]
         \/ \E th \in threads : th.edit.incident = i /\ th.from \notin {None, status[i]}
    ]_vars

(* No tab waits for ever: the session check ends, a page is loaded, the    *)
(* buttons of an edit come back, whatever becomes of the backend.          *)
Busy(t) == \/ auth[t].booting \/ page[t].loading
           \/ page[t].updating \/ page[t].submitting
TabsSettle == \A t \in Tabs : Busy(t) ~> ~Busy(t)

(* What the client says of a full live backend, "real data everywhere": as *)
(* long as nothing fails, a page that got the live events of an incident   *)
(* has its live alerts too.                                                *)
RealDataEverywhere ==
  \A t \in Tabs :
    faults = 0 /\ up /\ page[t].kind = "incident" /\ ~page[t].loading
      /\ page[t].parts["events"] = "live" => page[t].parts["alerts"] = "live"
=============================================================================
