--------------------------- MODULE EventPipeline ---------------------------
(***************************************************************************)
(* EventPipelineService.process on the in-memory store and its SQLite      *)
(* copy.  Worker threads run calls concurrently; a call is cut into the    *)
(* steps between two SQLite calls, the points at which the interpreter     *)
(* lets another thread run.  All workers share the one _txn_conn of the    *)
(* persistence layer, and sqlite3 refuses a connection to every thread but *)
(* the one that opened it.  The process may stop at any point and start    *)
(* again from the database.                                                *)
(*                                                                         *)
(* Every record of the store is a row: of the event table (the source      *)
(* event, a detection event, a response event), of the alert table, of the *)
(* response table, or one entry of an incident.  Which of the rules that   *)
(* read an event type match is left open here.                             *)
(***************************************************************************)
EXTENDS Naturals, FiniteSets

CONSTANTS
  Workers,       \* the threads that run process(): thread pool and event loop
  EventIds,      \* identities of submitted events; bounds the calls of a run
  Actors,
  Correlations,
  SourceTypes,   \* the event types submitted, see EmittedTypes
  MaxFaults,     \* bound on SQLite errors
  Null           \* no worker, no call, no alert, no rule

ASSUME PipelineAssumption ==
  /\ MaxFaults \in Nat
  /\ Null \notin Workers

-----------------------------------------------------------------------------
(* Rules, by the event type each one reads, in registry order.             *)

RuleOrder ==
  [r \in {"DET-AUTH-001", "DET-AUTH-002", "DET-SESSION-003", "DET-DOC-004",
          "DET-DOC-005", "DET-DOC-006", "DET-SVC-007", "DET-ART-008",
          "DET-POL-009", "DET-CORR-010", "DET-GEO-011", "DET-EXFIL-012",
          "DET-HOUR-013"} |->
     CASE r = "DET-AUTH-001"    -> 1  [] r = "DET-AUTH-002"  -> 2
       [] r = "DET-SESSION-003" -> 3  [] r = "DET-DOC-004"   -> 4
       [] r = "DET-DOC-005"     -> 5  [] r = "DET-DOC-006"   -> 6
       [] r = "DET-SVC-007"     -> 7  [] r = "DET-ART-008"   -> 8
       [] r = "DET-POL-009"     -> 9  [] r = "DET-CORR-010"  -> 10
       [] r = "DET-GEO-011"     -> 11 [] r = "DET-EXFIL-012" -> 12
       [] OTHER                 -> 13]

Rules == DOMAIN RuleOrder

Reads ==
  [r \in Rules |->
     CASE r = "DET-AUTH-001"    -> {"authentication.login.failure"}
       [] r \in {"DET-AUTH-002", "DET-GEO-011"}
                                -> {"authentication.login.success"}
       [] r = "DET-SESSION-003" -> {"authorization.check.success",
                                    "authorization.check.failure"}
       [] r = "DET-DOC-004"     -> {"document.read.failure"}
       [] r = "DET-DOC-005"     -> {"document.read.success"}
       [] r \in {"DET-DOC-006", "DET-EXFIL-012"}
                                -> {"document.download.success"}
       [] r = "DET-SVC-007"     -> {"authorization.failure"}
       [] r = "DET-ART-008"     -> {"artifact.validation.failed"}
       [] r = "DET-POL-009"     -> {"policy.change.executed"}
       [] r = "DET-CORR-010"    -> {"detection.rule.triggered"}
       [] OTHER                 -> {"policy.change.executed",
                                    "admin.configuration.changed",
                                    "service.disabled"}]

(* The event types some caller of process() builds: the identity and       *)
(* document routes, the scenario engine and the adversary handlers.        *)
EmittedTypes ==
  {"authentication.login.failure", "authentication.login.success",
   "session.token.issued", "session.token.revoked",
   "authorization.check.success", "authorization.failure",
   "document.read.failure", "document.read.success",
   "document.download.success", "document.download.failure"}

ASSUME SourceTypesAssumption == SourceTypes \subseteq EmittedTypes

MatchableBy(type) == {r \in Rules : type \in Reads[r]}

(* severity HIGH or CRITICAL, or DET-AUTH-002 (which is HIGH too)          *)
OpensIncident(r) == r \notin {"DET-AUTH-001", "DET-ART-008", "DET-HOUR-013"}

HasPlaybook(r) == r \notin {"DET-GEO-011", "DET-EXFIL-012", "DET-HOUR-013"}

(* The containment a playbook applies; some only record a response.        *)
Measures(r) ==
  CASE r = "DET-AUTH-002"    -> {"step_up"}
    [] r = "DET-SESSION-003" -> {"revoke_session"}
    [] r \in {"DET-DOC-005", "DET-DOC-006"} -> {"restrict_downloads"}
    [] r = "DET-SVC-007"     -> {"disable_service", "block_routes"}
    [] r = "DET-ART-008"     -> {"quarantine"}
    [] r = "DET-POL-009"     -> {"restrict_policy", "step_up"}
    [] r = "DET-CORR-010"    -> {"step_up", "restrict_downloads"}
    [] OTHER                 -> {}

-----------------------------------------------------------------------------
EventKinds    == {"event", "detection", "reaction"}
IncidentKinds == {"opened", "seen", "flagged", "answered"}
Kinds         == EventKinds \cup IncidentKinds \cup {"alert", "response"}

Row  == [kind : Kinds, id : EventIds, rule : Rules \cup {Null},
         actor : Actors, corr : Correlations]
Call == [id : EventIds, type : SourceTypes, actor : Actors,
         corr : Correlations, origin : {"http", "beat"}]
Measure == {"step_up", "revoke_session", "restrict_downloads",
            "disable_service", "block_routes", "quarantine",
            "restrict_policy"}
PcValues == {"idle", "begin", "open", "emit", "register_event", "evaluate",
             "detection_event", "register_alert", "flag_alert",
             "update_risk", "execute", "response_event", "register_response", "commit", "rollback",
             "reply"}

RowOf(kind, c, r) ==
  [kind |-> kind, id |-> c.id, rule |-> r, actor |-> c.actor, corr |-> c.corr]
As(kind, a) == [a EXCEPT !.kind = kind]

(* Slip: the key built in another order.                                   *)
SwappedSig(a) == <<a.rule, a.corr, a.actor>>
Sig(a)           == <<a.rule, a.actor, a.corr>>
AlertsIn(S)      == {r \in S : r.kind = "alert"}
IncidentIn(S, c) == {r \in S : r.kind \in IncidentKinds /\ r.corr = c}

(* An incident exists once it is opened; the actor of the alert that opened *)
(* it is its primary actor.                                                 *)
IncidentsOf(S, a) ==
  UNION {IncidentIn(S, o.corr) :
           o \in {r \in S : r.kind = "opened" /\ r.actor = a}}
Exists(S, c) == \E o \in S : o.kind = "opened" /\ o.corr = c

VARIABLES
  mem,            \* rows of the in-memory store
  sigs,           \* alert_signatures
  contained,      \* containment sets, as <<measure, actor>>
  scored,         \* the alerts counted in the actors' risk profiles
  txn,            \* the worker that opened _txn_conn, or Null
  pending,        \* rows written on _txn_conn and not committed
  disk,           \* committed rows
  savedContained, \* the operational-state snapshot in SQLite
  savedScored,
  pc,             \* where each worker is in process()
  call,           \* the event it processes
  todo,           \* novel alerts its loop has not reached
  alert,          \* the alert of the current iteration
  attached,       \* register_alert returned an incident of the store
  issued,         \* event identities already used
  faults

memory == <<mem, sigs, contained, scored>>
saved  == <<savedContained, savedScored>>
frame  == <<call, todo, alert, attached>>
vars == <<memory, txn, pending, disk, saved, pc, frame, issued, faults>>

TypeOK ==
  /\ mem \subseteq Row /\ pending \subseteq Row /\ disk \subseteq Row
  /\ sigs \subseteq (Rules \X Actors \X Correlations)
  /\ contained \subseteq (Measure \X Actors)
  /\ savedContained \subseteq (Measure \X Actors)
  /\ scored \subseteq Row /\ savedScored \subseteq Row
  /\ txn \in Workers \cup {Null}
  /\ pc \in [Workers -> PcValues]
  /\ call \in [Workers -> Call \cup {Null}]
  /\ todo \in [Workers -> SUBSET Row]
  /\ alert \in [Workers -> Row \cup {Null}]
  /\ attached \in [Workers -> BOOLEAN]
  /\ issued \subseteq EventIds
  /\ faults \in 0..MaxFaults

Init ==
  /\ mem = {} /\ sigs = {} /\ contained = {} /\ scored = {}
  /\ txn = Null /\ pending = {} /\ disk = {}
  /\ savedContained = {} /\ savedScored = {}
  /\ pc = [w \in Workers |-> "idle"]
  /\ call = [w \in Workers |-> Null]
  /\ todo = [w \in Workers |-> {}]
  /\ alert = [w \in Workers |-> Null]
  /\ attached = [w \in Workers |-> FALSE]
  /\ issued = {}
  /\ faults = 0

-----------------------------------------------------------------------------
Goto(w, label) == pc' = [pc EXCEPT ![w] = label]

(* Slips: a persist_* call that does not look for the shared connection;   *)
(* one that does not look for another worker's.                            *)
WrittenAtOnce(w, rows) ==
  txn \in {w, Null} /\ disk' = disk \cup rows /\ UNCHANGED pending
WrittenBeside(w, rows) ==
  \/ txn = w /\ pending' = pending \cup rows /\ UNCHANGED disk
  \/ txn # w /\ disk' = disk \cup rows /\ UNCHANGED pending

(* A persist_* call that returns: on the shared connection if this thread  *)
(* opened it, else on a connection of its own that commits at once.        *)
Written(w, rows) ==
  \/ txn = w    /\ pending' = pending \cup rows /\ UNCHANGED disk
  \/ txn = Null /\ disk' = disk \cup rows /\ UNCHANGED pending

(* A persist_* call that raises: _txn_conn belongs to another thread, or   *)
(* SQLite fails.                                                           *)
Raises(w) ==
  /\ \/ txn \notin {w, Null} /\ UNCHANGED faults
     \/ faults < MaxFaults /\ faults' = faults + 1
  /\ Goto(w, "rollback")
  /\ UNCHANGED <<pending, disk>>

Persist(w, rows, next) ==
  \/ Written(w, rows) /\ Goto(w, next) /\ UNCHANGED faults
  \/ Raises(w)

Skip(w, next) == Goto(w, next) /\ UNCHANGED <<pending, disk, faults>>

(* A request or a mission beat starts a call.  A scenario runs several     *)
(* calls in one request, so the next may start before the reply is sent.   *)
Submit(w) ==
  /\ pc[w] \in {"idle", "reply"}
  /\ \E c \in Call :
       /\ c.id \notin issued
       /\ pc[w] = "reply" => c.origin = call[w].origin
       /\ call' = [call EXCEPT ![w] = c]
       /\ issued' = issued \cup {c.id}
  /\ Goto(w, "begin")
  /\ UNCHANGED <<memory, txn, pending, disk, saved, todo, alert, attached, faults>>

(* begin_transaction looks at _txn_conn ...                                *)
Begin(w) ==
  /\ pc[w] = "begin"
  /\ Goto(w, IF txn = Null THEN "open" ELSE "emit")
  /\ UNCHANGED <<memory, txn, pending, disk, saved, frame, issued, faults>>

(* ... and assigns it after connecting.  A connection it replaces is       *)
(* closed, which rolls back.  If BEGIN fails, the exception leaves before  *)
(* the try of transaction(), with _txn_conn set.                           *)
Open(w) ==
  /\ pc[w] = "open"
  /\ txn' = w
  /\ pending' = {}
  /\ \/ Goto(w, "emit") /\ UNCHANGED <<faults, frame>>
     \/ /\ faults < MaxFaults
        /\ faults' = faults + 1
        /\ Goto(w, "idle")
        /\ call' = [call EXCEPT ![w] = Null]
        /\ UNCHANGED <<todo, alert, attached>>
  /\ UNCHANGED <<memory, disk, saved, issued>>

(* telemetry.emit of the source event                                      *)
Emit(w) ==
  /\ pc[w] = "emit"
  /\ LET row == RowOf("event", call[w], Null) IN
       /\ mem' = mem \cup {row}
       /\ Persist(w, {row}, "register_event")
  /\ UNCHANGED <<sigs, contained, scored, txn, saved, frame, issued>>

(* incidents.register_event: only an incident that exists is updated       *)
RegisterEvent(w) ==
  /\ pc[w] = "register_event"
  /\ LET c == call[w].corr
         m == mem \cup {RowOf("seen", call[w], Null)} IN
       IF Exists(mem, c)
         THEN mem' = m /\ Persist(w, IncidentIn(m, c), "evaluate")
         ELSE UNCHANGED mem /\ Skip(w, "evaluate")
  /\ UNCHANGED <<sigs, contained, scored, txn, saved, frame, issued>>

(* Slip: matches not held against the signatures.                          *)
UnseenUnfiltered(raised) == raised
Unseen(raised) == {a \in raised : Sig(a) \notin sigs}

(* detection.evaluate, the signature filter and extend_alerts              *)
Evaluate(w) ==
  /\ pc[w] = "evaluate"
  /\ \E matched \in SUBSET MatchableBy(call[w].type) :
       LET raised == {RowOf("alert", call[w], r) : r \in matched}
           novel  == Unseen(raised) IN
         /\ sigs' = sigs \cup {Sig(a) : a \in raised}
         /\ mem' = mem \cup novel
         /\ todo' = [todo EXCEPT ![w] = novel]
         /\ IF novel = {} THEN Skip(w, "commit")
                          ELSE Persist(w, novel, "detection_event")
  /\ UNCHANGED <<contained, scored, txn, saved, call, alert, attached, issued>>

(* The loop takes the next novel alert and emits its detection event, which *)
(* no rule and no incident sees.                                            *)
EmitDetection(w) ==
  /\ pc[w] = "detection_event"
  /\ \E a \in todo[w] :
       /\ \A b \in todo[w] : RuleOrder[a.rule] <= RuleOrder[b.rule]
       /\ alert' = [alert EXCEPT ![w] = a]
       /\ todo' = [todo EXCEPT ![w] = @ \ {a}]
       /\ mem' = mem \cup {As("detection", a)}
       /\ Persist(w, {As("detection", a)}, "register_alert")
  /\ UNCHANGED <<sigs, contained, scored, txn, saved, call, attached, issued>>

(* The alert is entered into the incident of its correlation.              *)
Flag(w) ==
  LET m == mem \cup {As("flagged", alert[w])} IN
    mem' = m /\ Persist(w, IncidentIn(m, alert[w].corr), "update_risk")

(* incidents.register_alert: the incident of the correlation; or one opened *)
(* and written before the alert is entered, if the rule warrants it; or a  *)
(* detached "not_created" one                                              *)
RegisterAlert(w) ==
  /\ pc[w] = "register_alert"
  /\ LET a == alert[w]
         opens == ~Exists(mem, a.corr) /\ OpensIncident(a.rule) IN
       /\ attached' = [attached EXCEPT ![w] = opens \/ Exists(mem, a.corr)]
       /\ \/ Exists(mem, a.corr) /\ Flag(w)
          \/ /\ opens
             /\ mem' = mem \cup {As("opened", a)}
             /\ Persist(w, {As("opened", a)}, "flag_alert")
          \/ ~Exists(mem, a.corr) /\ ~opens /\ UNCHANGED mem /\ Skip(w, "update_risk")
  /\ UNCHANGED <<sigs, contained, scored, txn, saved, call, todo, alert, issued>>

FlagAlert(w) ==
  /\ pc[w] = "flag_alert"
  /\ Flag(w)
  /\ UNCHANGED <<sigs, contained, scored, txn, saved, frame, issued>>

(* risk.update_risk: the profile, then every incident of the actor         *)
UpdateRisk(w) ==
  /\ pc[w] = "update_risk"
  /\ scored' = scored \cup {alert[w]}
  /\ LET rows == IncidentsOf(mem, alert[w].actor) IN
       IF rows = {} THEN Skip(w, "execute") ELSE Persist(w, rows, "execute")
  /\ UNCHANGED <<mem, sigs, contained, txn, saved, frame, issued>>

AfterAlert(w) == IF todo[w] = {} THEN "commit" ELSE "detection_event"

(* response.execute: containment in memory, then the response row          *)
Execute(w) ==
  /\ pc[w] = "execute"
  /\ LET a == alert[w] IN
       IF HasPlaybook(a.rule)
         THEN /\ contained' = contained \cup (Measures(a.rule) \X {a.actor})
              /\ mem' = mem \cup {As("response", a)}
              /\ Persist(w, {As("response", a)}, "response_event")
         ELSE UNCHANGED <<contained, mem>> /\ Skip(w, AfterAlert(w))
  /\ UNCHANGED <<sigs, scored, txn, saved, frame, issued>>

EmitResponse(w) ==
  /\ pc[w] = "response_event"
  /\ mem' = mem \cup {As("reaction", alert[w])}
  /\ Persist(w, {As("reaction", alert[w])}, "register_response")
  /\ UNCHANGED <<sigs, contained, scored, txn, saved, frame, issued>>

(* incidents.register_response, on the incident register_alert returned    *)
RegisterResponse(w) ==
  /\ pc[w] = "register_response"
  /\ LET a == alert[w]
         m == mem \cup {As("answered", a)} IN
       IF attached[w]
         THEN mem' = m /\ Persist(w, IncidentIn(m, a.corr), AfterAlert(w))
         ELSE UNCHANGED mem /\ Skip(w, AfterAlert(w))
  /\ UNCHANGED <<sigs, contained, scored, txn, saved, frame, issued>>

(* Slip: the connection closed without COMMIT.                             *)
ClosedUncommitted == pending' = {} /\ txn' = Null /\ UNCHANGED disk
CommitShared      == disk' = disk \cup pending /\ pending' = {} /\ txn' = Null

(* commit_transaction commits whatever is shared, and does nothing once    *)
(* another worker has closed it                                            *)
Commit(w) ==
  /\ pc[w] = "commit"
  /\ \/ txn = w /\ CommitShared /\ Goto(w, "reply") /\ UNCHANGED faults
     \/ txn = Null /\ Skip(w, "reply") /\ UNCHANGED txn
     \/ Raises(w) /\ UNCHANGED txn
  /\ UNCHANGED <<memory, saved, frame, issued>>

Return(w) ==
  /\ Goto(w, "idle")
  /\ call' = [call EXCEPT ![w] = Null]
  /\ todo' = [todo EXCEPT ![w] = {}]
  /\ alert' = [alert EXCEPT ![w] = Null]
  /\ attached' = [attached EXCEPT ![w] = FALSE]

(* rollback_transaction undoes the rows, never the memory; on another      *)
(* thread's connection it raises in turn.  The request fails: no save().   *)
Rollback(w) ==
  /\ pc[w] = "rollback"
  /\ IF txn = w THEN pending' = {} /\ txn' = Null
                ELSE UNCHANGED <<pending, txn>>
  /\ Return(w)
  /\ UNCHANGED <<memory, disk, saved, issued, faults>>

LockHeld == txn # Null /\ pc[txn] # "idle"

(* The middleware's save() after a successful mutating request: a snapshot *)
(* of the operational state, on a connection of its own that waits for the *)
(* write lock.                                                             *)
Save(w) ==
  /\ pc[w] = "reply" /\ call[w].origin = "http"
  /\ ~LockHeld
  /\ savedContained' = contained
  /\ savedScored' = scored
  /\ Return(w)
  /\ UNCHANGED <<memory, txn, pending, disk, issued, faults>>

(* A mission beat has no request around it, so nothing saves.              *)
EndBeat(w) ==
  /\ pc[w] = "reply" /\ call[w].origin = "beat"
  /\ Return(w)
  /\ UNCHANGED <<memory, txn, pending, disk, saved, issued, faults>>

(* Slips: load() forgets the incidents; the signatures are not rebuilt.    *)
LoadedWithoutIncidents == {r \in disk : r.kind \notin IncidentKinds}
Loaded == disk
NothingRebuilt == {}
RebuiltSignatures == {Sig(a) : a \in AlertsIn(disk)}

(* The process stops and starts again: load() takes the rows and the       *)
(* snapshot, and rebuilds the signatures from the alerts.                  *)
Restart ==
  /\ mem' = Loaded
  /\ sigs' = RebuiltSignatures
  /\ contained' = savedContained
  /\ scored' = savedScored
  /\ txn' = Null
  /\ pending' = {}
  /\ pc' = [w \in Workers |-> "idle"]
  /\ call' = [w \in Workers |-> Null]
  /\ todo' = [w \in Workers |-> {}]
  /\ alert' = [w \in Workers |-> Null]
  /\ attached' = [w \in Workers |-> FALSE]
  /\ UNCHANGED <<disk, saved, issued, faults>>

Step(w) ==
  \/ Begin(w) \/ Open(w) \/ Emit(w) \/ RegisterEvent(w) \/ Evaluate(w)
  \/ EmitDetection(w) \/ RegisterAlert(w) \/ FlagAlert(w) \/ UpdateRisk(w)
  \/ Execute(w) \/ EmitResponse(w) \/ RegisterResponse(w) \/ Commit(w)
  \/ Rollback(w) \/ Save(w) \/ EndBeat(w)

Next == (\E w \in Workers : Submit(w) \/ Step(w)) \/ Restart

Spec == Init /\ [][Next]_vars

-----------------------------------------------------------------------------
(* Properties.                                                             *)

(* However calls interleave, fail and are repeated after a restart, the    *)
(* store holds one alert per (rule, actor, correlation) signature.         *)
AlertOncePerSignature ==
  \A a, b \in AlertsIn(mem) : Sig(a) = Sig(b) => a = b

(* What is durable, or about to be, is known to the running process: a     *)
(* restart can only lose rows, never bring up rows the process had not     *)
(* shown.                                                                  *)
DurableIsKnown == disk \cup pending \subseteq mem

(* As long as SQLite itself does not fail, the transaction connection is   *)
(* that of a call in flight: every way out of process() gives it back,     *)
(* whoever else used it.                                                   *)
NoLeakedTransaction == (faults = 0 /\ txn # Null) => pc[txn] # "idle"

(* begin_transaction() failed for a worker that left _txn_conn set, and no *)
(* other worker is about to replace the connection.                        *)
Leaked == /\ txn # Null /\ pc[txn] = "idle"
          /\ \A w \in Workers : pc[w] # "open"

(* Only an SQLite error leaves the connection over.  Then nothing becomes  *)
(* durable and no call returns, until the worker that left it serves       *)
(* another call or the process starts again.                               *)
LeaksOnlyBlock ==
  [][/\ NoLeakedTransaction'
     /\ Leaked => /\ disk' = disk
                  /\ \A w \in Workers : pc[w] # "reply" => pc'[w] # "reply"
                  /\ Leaked' \/ pc'[txn] = "begin" \/ txn' = Null]_vars

(* What a call writes for one of its alerts, whatever came before: an      *)
(* alert that opens no incident joins one only if there is one.            *)
Consequences(a) ==
  {[As("event", a) EXCEPT !.rule = Null], As("detection", a)}
  \cup (IF OpensIncident(a.rule) THEN {As("flagged", a)} ELSE {})
  \cup (IF HasPlaybook(a.rule)
          THEN {As("response", a), As("reaction", a)} ELSE {})
  \cup (IF HasPlaybook(a.rule) /\ OpensIncident(a.rule)
          THEN {As("answered", a)} ELSE {})

WholeAlerts == \A a \in AlertsIn(disk) : Consequences(a) \subseteq disk

(* The row that a row was written because of.                              *)
Cause(r) == As(IF r.kind = "seen" THEN "event" ELSE "alert", r)
Caused   == {r \in disk : r.kind \notin {"event", "alert"}}

(* "A crash cannot leave partial entity state on disk": a durable alert    *)
(* has all its consequences durable, and every durable consequence, the    *)
(* entries of the incidents included, has its alert or its event.          *)
DurableCallsComplete == WholeAlerts /\ \A r \in Caused : Cause(r) \in disk

(* An entry that the memory kept of a call that was rolled back: all that  *)
(* is ever durable of the call is in the incident.                         *)
LeftOver(r) == /\ faults # 0 /\ r.kind \in IncidentKinds
               /\ \A s \in disk : s.id = r.id => s.kind \in IncidentKinds

(* What is left of that promise while calls do not overlap.  A rollback    *)
(* does not reach the memory, and the next call of the correlation writes  *)
(* the whole incident: its entries are then durable without their cause,   *)
(* and they are the only rows that ever are, and only of such a call.      *)
SeparateCallsComplete ==
  WholeAlerts /\ \A r \in Caused : Cause(r) \in disk \/ LeftOver(r)

(* As long as SQLite itself does not fail, the snapshot never runs ahead   *)
(* of the rows: each contained actor has a durable response that applied   *)
(* the measure, each counted alert is durable.                             *)
SnapshotJustified ==
  faults = 0 =>
  /\ \A m \in savedContained :
       \E r \in disk : /\ r.kind = "response"
                       /\ m \in Measures(r.rule) \X {r.actor}
  /\ savedScored \subseteq disk

(* The durable ledger of alerts, refined by the alert table.               *)
Ledger == INSTANCE AlertLedger WITH
            Alert <- AlertsIn(Row), ledger <- AlertsIn(disk), Sig <- Sig
LedgerSpec == Ledger!Spec

=============================================================================
