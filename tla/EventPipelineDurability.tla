----------------------- MODULE EventPipelineDurability -----------------------
(***************************************************************************)
(* What EventPipeline makes durable, for any number of workers, calls,     *)
(* actors and SQLite errors: who holds the shared connection, and, while   *)
(* calls do not overlap, what a crash or a snapshot can not separate.      *)
(* Calls that do overlap can be separated: run partial_commit.             *)
(***************************************************************************)
EXTENDS EventPipelineProofs

(* Where a worker is between two calls, or before it has a connection.     *)
Outside == {"idle", "begin", "open", "reply"}

(* As long as SQLite itself does not fail, the connection belongs to a     *)
(* worker inside its transaction.                                          *)
HeldInside == faults = 0 /\ txn # Null => pc[txn] \notin Outside

(* Calls do not overlap: a worker starts one when no other has one in      *)
(* progress, replies apart.                                                *)
OneCallAtATime ==
  \A v, w \in Workers :
    pc[v] \notin {"idle", "reply"} /\ pc[w] \notin {"idle", "reply"} => v = w

(* A worker inside its transaction holds the connection, or finds at once  *)
(* that another worker has kept it after a failed BEGIN; and when none is  *)
(* inside nothing is written that is not committed.                        *)
LockedOut(w) == /\ txn # Null /\ faults # 0 /\ pending = {}
                /\ pc[w] \in {"emit", "rollback"}
InsideHolds ==
  /\ \A w \in Workers : pc[w] \notin Outside => txn = w \/ LockedOut(w)
  /\ (\A w \in Workers : pc[w] \in Outside) => pending = {}

(* The memory, as long as SQLite does not fail: every row is written, every *)
(* measure was applied by a response and every counted alert is a row.     *)
Justified(measures, rows) ==
  \A m \in measures : \E r \in rows : /\ r.kind = "response"
                                      /\ m \in Measures(r.rule) \X {r.actor}
MemoryIsWritten ==
  faults = 0 =>
    /\ mem \subseteq disk \cup pending
    /\ Justified(contained, mem) /\ scored \subseteq mem
    /\ \A w \in Workers : /\ pc[w] # "rollback"
                          /\ todo[w] \subseteq mem
                          /\ pc[w] \in InAlertLoop => alert[w] \in mem

(* What a call has written for the alert of its loop when it is at a label. *)
Flagged  == {"update_risk", "execute", "response_event", "register_response"}
EventOf(a) == [As("event", a) EXCEPT !.rule = Null]
WrittenFor(w, a) ==
  /\ EventOf(a) \in pending
  /\ As("detection", a) \in pending
  /\ pc[w] \in Flagged /\ OpensIncident(a.rule) => As("flagged", a) \in pending
  /\ pc[w] \in Flagged \cup {"flag_alert"} /\ OpensIncident(a.rule) => attached[w]
  /\ pc[w] \in {"response_event", "register_response"} =>
       HasPlaybook(a.rule) /\ As("response", a) \in pending
  /\ pc[w] = "register_response" => As("reaction", a) \in pending

(* An alert a call has written waits for its turn, has it or has had it.   *)
Opening == {"register_event", "evaluate"}
Pending(w) ==
  /\ pc[w] = "emit" => pending = {}
  /\ pc[w] \in Opening => RowOf("event", call[w], Null) \in pending
  /\ pc[w] \in Opening => 
       \A r \in pending : r.kind \notin {"alert", "detection", "response", "reaction"}
  /\ pc[w] \in InAlertLoop =>
       /\ alert[w] \in AlertsIn(pending)
       /\ WrittenFor(w, alert[w])
  /\ pc[w] \in InAlertLoop \cup {"detection_event", "commit"} =>
       \A a \in AlertsIn(pending) :
         \/ pc[w] # "commit" /\ a \in todo[w] /\ EventOf(a) \in pending
         \/ pc[w] \in InAlertLoop /\ a = alert[w]
         \/ Consequences(a) \subseteq pending
  /\ pc[w] # "rollback" =>
       /\ todo[w] \subseteq AlertsIn(pending)
       /\ pc[w] = "detection_event" => todo[w] # {}
       /\ pc[w] = "commit" => todo[w] = {}
       /\ \A r \in pending : r.kind \in {"detection", "response", "reaction"} =>
            As("alert", r) \in pending
CallsInProgress ==
  \A w \in Workers : IF pc[w] \in Outside THEN todo[w] = {} ELSE Pending(w)


-----------------------------------------------------------------------------
(* Who holds the connection                                                *)

(* Nobody else moves.                                                      *)
OthersWait(w) == \A v \in Workers \ {w} : pc'[v] = pc[v]

(* A persist_* call moves the worker that makes it, and nobody else.       *)
LEMMA PersistMoves ==
  ASSUME TypeOK, NEW w \in Workers, NEW rows, NEW next, next \notin Outside,
         Persist(w, rows, next) \/ Skip(w, next)
  PROVE  OthersWait(w) /\ pc'[w] \notin Outside /\ faults \in Nat /\ (faults' = 0 => faults = 0)
  BY PipelineAssumption DEF TypeOK, Persist, Skip, Raises, Written, Goto, OthersWait, Outside

(* A step inside the transaction leaves the connection where it is.        *)
Inside(w) == /\ pc[w] \notin Outside /\ pc'[w] \notin Outside
             /\ OthersWait(w) /\ txn' = txn /\ (faults' = 0 => faults = 0)

(* The steps between the start of the transaction and its end stay inside. *)
LEMMA StepsInside ==
  ASSUME TypeOK, NEW w \in Workers,
         \/ Emit(w) \/ RegisterEvent(w) \/ Evaluate(w) \/ EmitDetection(w)
         \/ RegisterAlert(w) \/ FlagAlert(w) \/ UpdateRisk(w) \/ Execute(w)
         \/ EmitResponse(w) \/ RegisterResponse(w)
  PROVE  Inside(w)
  <1> DEFINE next == {"register_event", "evaluate", "commit", "detection_event",
                      "register_alert", "update_risk", "flag_alert", "execute",
                      "response_event", "register_response"}
  <1>1. \A n \in next : n \notin Outside
    BY DEF Outside
  <1>2. AfterAlert(w) \in next
    BY DEF AfterAlert
  <1>3. \E n \in next : \E rows : Persist(w, rows, n) \/ Skip(w, n)
    <2>1. CASE Emit(w)
      BY <2>1 DEF Emit
    <2>2. CASE RegisterEvent(w)
      BY <2>2 DEF RegisterEvent
    <2>3. CASE Evaluate(w)
      BY <2>3 DEF Evaluate
    <2>4. CASE EmitDetection(w)
      BY <2>4 DEF EmitDetection
    <2>5. CASE RegisterAlert(w)
      BY <2>5 DEF RegisterAlert, Flag
    <2>6. CASE FlagAlert(w)
      BY <2>6 DEF FlagAlert, Flag
    <2>7. CASE UpdateRisk(w)
      BY <2>7 DEF UpdateRisk
    <2>8. CASE Execute(w)
      BY <2>8, <1>2 DEF Execute
    <2>9. CASE EmitResponse(w)
      BY <2>9 DEF EmitResponse
    <2>10. CASE RegisterResponse(w)
      BY <2>10, <1>2 DEF RegisterResponse
    <2> QED
      BY <2>1, <2>2, <2>3, <2>4, <2>5, <2>6, <2>7, <2>8, <2>9, <2>10
  <1>4. /\ pc[w] \notin Outside /\ txn' = txn
    BY DEF Emit, RegisterEvent, Evaluate, EmitDetection, RegisterAlert, FlagAlert,
           UpdateRisk, Execute, EmitResponse, RegisterResponse, Outside
  <1> QED
    BY <1>1, <1>3, <1>4, PersistMoves DEF Inside

(* Whoever holds the connection keeps it until it leaves the transaction.  *)
LEMMA HeldInsideStep == TypeOK /\ HeldInside /\ [Next]_vars => HeldInside'
  <1> SUFFICES ASSUME TypeOK, HeldInside, [Next]_vars PROVE HeldInside'
    OBVIOUS
  <1>1. ASSUME NEW w \in Workers, Inside(w) PROVE HeldInside'
    BY <1>1 DEF Inside, HeldInside, OthersWait, TypeOK
  <1>2. ASSUME NEW w \in Workers, Submit(w) \/ Begin(w) PROVE HeldInside'
    BY <1>2 DEF Submit, Begin, Goto, HeldInside, Outside, TypeOK
  <1>3. ASSUME NEW w \in Workers, Open(w) PROVE HeldInside'
    BY <1>3, PipelineAssumption DEF Open, Goto, HeldInside, Outside, TypeOK
  <1>4. ASSUME NEW w \in Workers, Commit(w) PROVE HeldInside'
    BY <1>4, PipelineAssumption
    DEF Commit, CommitShared, Skip, Raises, Goto, HeldInside, Outside, TypeOK
  <1>5. ASSUME NEW w \in Workers, Rollback(w) PROVE HeldInside'
    BY <1>5 DEF Rollback, Return, Goto, HeldInside, Outside, TypeOK
  <1>6. ASSUME NEW w \in Workers, Save(w) \/ EndBeat(w) PROVE HeldInside'
    BY <1>6 DEF Save, EndBeat, Return, Goto, HeldInside, Outside, TypeOK
  <1>7. CASE Restart
    BY <1>7 DEF Restart, HeldInside
  <1>8. CASE UNCHANGED vars
    BY <1>8 DEF vars, HeldInside
  <1> QED
    BY <1>1, <1>2, <1>3, <1>4, <1>5, <1>6, <1>7, <1>8, StepsInside DEF Next, Step

(* However many workers share it, while SQLite does not fail the transaction *)
(* connection belongs to a call in flight.                                 *)
THEOREM ConnectionNeverLeaks == Spec => []NoLeakedTransaction
  <1>1. Init => HeldInside
    BY DEF Init, HeldInside
  <1>2. HeldInside => NoLeakedTransaction
    BY DEF HeldInside, NoLeakedTransaction, Outside
  <1> QED
    BY <1>1, <1>2, HeldInsideStep, TypeCorrect, PTL DEF Spec

-----------------------------------------------------------------------------
(* One call at a time                                                      *)

(* What is durable of the calls, the entries of the incidents apart.       *)
RowsComplete ==
  /\ \A a \in AlertsIn(disk) : Consequences(a) \subseteq disk
  /\ \A r \in disk :
       r.kind \in {"detection", "response", "reaction"} => As("alert", r) \in disk

DurInv == /\ Inv /\ HeldInside /\ InsideHolds /\ MemoryIsWritten
          /\ CallsInProgress /\ RowsComplete /\ SnapshotJustified

(* A persist_* call inside the transaction fails, which sends the worker    *)
(* to the rollback, or puts its rows on the connection.                    *)
Failed(w) == /\ faults' # 0 /\ Goto(w, "rollback")
             /\ UNCHANGED <<txn, pending, disk, saved>>
Put(w, rows, next) == /\ txn = w
                      /\ pending' = pending \cup rows /\ Goto(w, next)
                      /\ UNCHANGED <<txn, disk, saved, faults>>

(* A persist_* call inside the transaction does one or the other.          *)
LEMMA PersistPuts ==
  ASSUME DurInv, NEW w \in Workers, pc[w] \notin Outside, UNCHANGED <<txn, saved>>,
         NEW rows, NEW next, Persist(w, rows, next)
  PROVE  Put(w, rows, next) \/ Failed(w)
  <1>1. faults \in Nat /\ w # Null /\ (txn = w \/ LockedOut(w))
    BY PipelineAssumption DEF DurInv, Inv, TypeOK, InsideHolds
  <1> QED
    BY <1>1 DEF Persist, Written, Raises, Put, Failed, LockedOut

(* A step that writes nothing puts no row.                                 *)
LEMMA SkipPuts ==
  ASSUME DurInv, NEW w \in Workers, pc[w] \notin Outside \cup {"emit", "rollback"},
         UNCHANGED <<txn, saved>>, NEW next, Skip(w, next)
  PROVE  Put(w, {}, next)
  BY DEF Skip, Put, DurInv, InsideHolds, LockedOut

(* No other worker has a call in progress, and none moves.                 *)
Alone(w) == \A v \in Workers \ {w} : /\ pc[v] \in {"idle", "reply"}
                                     /\ pc'[v] = pc[v] /\ todo'[v] = todo[v]

(* The others of a worker that is alone are outside and wait for nothing.  *)
LEMMA OthersOut ==
  ASSUME DurInv, NEW w \in Workers, Alone(w)
  PROVE  \A v \in Workers \ {w} : /\ pc[v] \in Outside /\ pc'[v] = pc[v]
                                  /\ todo[v] = {} /\ todo'[v] = {}
  BY DEF DurInv, CallsInProgress, Alone, Outside

(* A call that fails has nothing to answer for but its rollback.           *)
LEMMA FailedKeeps ==
  ASSUME DurInv, Inv', NEW w \in Workers, Alone(w), pc[w] \notin Outside, Failed(w)
  PROVE  DurInv'
  <1>1. /\ pc'[w] = "rollback" /\ pending' = pending /\ disk' = disk /\ txn' = txn
        /\ faults' # 0
    BY DEF Failed, Goto, DurInv, Inv, TypeOK
  <1>2. HeldInside' /\ MemoryIsWritten' /\ SnapshotJustified'
    BY <1>1 DEF HeldInside, MemoryIsWritten, SnapshotJustified
  <1>3. InsideHolds'
    BY <1>1, OthersOut DEF DurInv, InsideHolds, LockedOut, Outside
  <1>4. CallsInProgress'
    BY <1>1, OthersOut DEF CallsInProgress, Pending, Opening, InAlertLoop, Outside
  <1>5. RowsComplete'
    BY <1>1 DEF DurInv, RowsComplete
  <1> QED
    BY <1>2, <1>3, <1>4, <1>5 DEF DurInv

(* A call that puts rows on the connection, which is its own.              *)
LEMMA PutKeeps ==
  ASSUME DurInv, Inv', NEW w \in Workers, Alone(w), pc[w] \notin Outside,
         NEW rows, NEW next, next \notin Outside, Put(w, rows, next),
         Pending(w)', MemoryIsWritten'
  PROVE  DurInv'
  <1>1. /\ pc'[w] = next /\ pending' = pending \cup rows /\ disk' = disk
        /\ faults' = faults /\ txn = w /\ txn' = txn
        /\ savedContained' = savedContained /\ savedScored' = savedScored
    BY DEF Put, Goto, saved, DurInv, Inv, TypeOK
  <1>2. HeldInside' /\ SnapshotJustified'
    BY <1>1, PipelineAssumption DEF DurInv, Inv, TypeOK, HeldInside, SnapshotJustified
  <1>3. InsideHolds'
    BY <1>1, OthersOut DEF DurInv, InsideHolds, LockedOut, Outside
  <1>4. CallsInProgress'
    BY <1>1, OthersOut DEF CallsInProgress
  <1>5. RowsComplete'
    BY <1>1 DEF DurInv, RowsComplete
  <1> QED
    BY <1>2, <1>3, <1>4, <1>5 DEF DurInv

(* Memory stays written when what it gains is put on the connection.       *)
LEMMA MemoryKeeps ==
  ASSUME DurInv, NEW w \in Workers, Alone(w), NEW rows, NEW next,
         pc[w] \notin Outside, next # "rollback", Put(w, rows, next),
         mem \subseteq mem', mem' \subseteq mem \cup rows,
         faults = 0 => /\ Justified(contained', mem') /\ scored' \subseteq scored \cup mem
                       /\ todo'[w] \subseteq mem'
                       /\ next \in InAlertLoop => alert'[w] \in mem'
  PROVE  MemoryIsWritten'
  <1>1. /\ pc'[w] = next /\ pending' = pending \cup rows /\ disk' = disk
        /\ faults' = faults
    BY DEF Put, Goto, DurInv, Inv, TypeOK
  <1>2. \A v \in Workers \ {w} : /\ pc'[v] # "rollback" /\ pc'[v] \notin InAlertLoop
                                 /\ todo'[v] = {}
    BY OthersOut DEF Alone, InAlertLoop
  <1> QED
    BY <1>1, <1>2 DEF DurInv, MemoryIsWritten

(* A row is its fields.                                                    *)
LEMMA RowIsFields ==
  ASSUME NEW a \in Row, NEW b \in Row, a.kind = b.kind, a.id = b.id, a.rule = b.rule,
         a.actor = b.actor, a.corr = b.corr
  PROVE  a = b
  BY DEF Row

(* The rows of a call, and what leads from one to the other.               *)
LEMMA RowKinds ==
  ASSUME NEW c \in Call, NEW r \in Rules \cup {Null}, NEW kind \in Kinds
  PROVE  /\ RowOf(kind, c, r).kind = kind /\ RowOf(kind, c, r).corr = c.corr
         /\ EventOf(RowOf(kind, c, r)) = RowOf("event", c, Null)
         /\ As("alert", RowOf(kind, c, r)) = RowOf("alert", c, r)
  <1> DEFINE row == RowOf(kind, c, r)
  <1>1. /\ row \in Row /\ row.kind = kind /\ row.corr = c.corr
        /\ row.id = c.id /\ row.actor = c.actor /\ row.rule = r
    BY DEF RowOf, Row, Call
  <1>2. \A k \in Kinds : As(k, row) \in Row /\ EventOf(row) \in Row
    BY <1>1 DEF As, EventOf, Row, Kinds, EventKinds
  <1>3. RowOf("event", c, Null) \in Row /\ RowOf("alert", c, r) \in Row
    BY RowOfIsRow DEF Kinds, EventKinds
  <1>4. EventOf(row) = RowOf("event", c, Null)
    <2>1. /\ EventOf(row).kind = "event" /\ EventOf(row).rule = Null /\ EventOf(row).id = row.id
          /\ EventOf(row).actor = row.actor /\ EventOf(row).corr = row.corr
      BY <1>1 DEF EventOf, As, Row
    <2> QED
      BY <1>1, <1>2, <1>3, <2>1, RowIsFields DEF RowOf, Kinds
  <1>5. As("alert", row) = RowOf("alert", c, r)
    <2>1. /\ As("alert", row).kind = "alert" /\ As("alert", row).rule = row.rule
          /\ As("alert", row).id = row.id
          /\ As("alert", row).actor = row.actor /\ As("alert", row).corr = row.corr
      BY <1>1 DEF As, Row
    <2> QED
      BY <1>1, <1>2, <1>3, <2>1, RowIsFields DEF RowOf, Kinds
  <1> QED
    BY <1>1, <1>4, <1>5

(* What is derived from an alert has its kind, and leads back to the alert. *)
LEMMA Derived ==
  ASSUME NEW a \in Row, a.kind = "alert", NEW kind
  PROVE  /\ As(kind, a).kind = kind /\ As(kind, a).corr = a.corr
         /\ As(kind, a).rule = a.rule /\ As(kind, a).actor = a.actor
         /\ As("alert", As(kind, a)) = a
  BY DEF As, Row

(* What is said of the rows of a call, of the alert in its loop and of the  *)
(* others of its alerts.                                                   *)
OthersServed(w) ==
  \A a \in AlertsIn(pending) :
    \/ pc[w] # "commit" /\ a \in todo[w] /\ EventOf(a) \in pending
    \/ pc[w] \in InAlertLoop /\ a = alert[w]
    \/ Consequences(a) \subseteq pending
RowsLead(w) ==
  /\ todo[w] \subseteq AlertsIn(pending)
  /\ pc[w] = "detection_event" => todo[w] # {}
  /\ pc[w] = "commit" => todo[w] = {}
  /\ \A r \in pending : r.kind \in {"detection", "response", "reaction"} =>
       As("alert", r) \in pending

(* telemetry.emit of the source event.                                     *)
LEMMA EmitKeeps ==
  ASSUME DurInv, Inv', NEW w \in Workers, Alone(w), Emit(w)
  PROVE  DurInv'
  <1> DEFINE row == RowOf("event", call[w], Null)
  <1>1. /\ pc[w] = "emit" /\ pc[w] \notin Outside /\ call[w] \in Call /\ w \in Workers
        /\ mem' = mem \cup {row} /\ UNCHANGED <<contained, scored, txn, saved, call, todo, alert>>
        /\ Persist(w, {row}, "register_event")
    BY DEF Emit, Outside, frame, DurInv, Inv, FramesFilled
  <1>2. row.kind = "event"
    BY <1>1, RowKinds DEF Kinds, EventKinds
  <1> HIDE DEF row
  <1>3. CASE Failed(w)
    BY <1>1, <1>3, FailedKeeps
  <1>4. CASE Put(w, {row}, "register_event")
    <2>1. pending = {} /\ todo[w] \subseteq AlertsIn(pending)
      BY <1>1 DEF DurInv, CallsInProgress, Pending
    <2>2. /\ pc'[w] = "register_event" /\ pending' = {row} /\ todo'[w] = {}
          /\ RowOf("event", call[w], Null)' = row
      BY <1>1, <1>4, <2>1 DEF Put, Goto, DurInv, Inv, TypeOK, AlertsIn, row
    <2>3. Pending(w)'
      BY <1>2, <2>2 DEF Pending, Opening, InAlertLoop, AlertsIn
    <2>4. MemoryIsWritten'
      <3>1. faults = 0 => Justified(contained', mem')
        BY <1>1 DEF DurInv, MemoryIsWritten, Justified
      <3> QED
        BY <1>1, <1>4, <2>2, <3>1, MemoryKeeps DEF InAlertLoop
    <2> QED
      BY <1>1, <1>4, <2>3, <2>4, PutKeeps DEF Outside
  <1> QED
    BY <1>1, <1>3, <1>4, PersistPuts

(* incidents.register_event                                                *)
LEMMA RegisterEventKeeps ==
  ASSUME DurInv, Inv', NEW w \in Workers, Alone(w), RegisterEvent(w)
  PROVE  DurInv'
  <1> DEFINE row  == RowOf("seen", call[w], Null)
             rows == IF Exists(mem, call[w].corr)
                       THEN IncidentIn(mem \cup {row}, call[w].corr) ELSE {}
  <1>1. /\ pc[w] = "register_event" /\ pc[w] \notin Outside /\ call[w] \in Call
        /\ UNCHANGED <<contained, scored, txn, saved, call, todo, alert>>
    BY DEF RegisterEvent, Outside, frame, DurInv, Inv, FramesFilled
  <1>2. /\ mem \subseteq mem' /\ mem' \subseteq mem \cup rows
        /\ Persist(w, rows, "evaluate") \/ (Skip(w, "evaluate") /\ rows = {})
    <2>1. row.kind = "seen" /\ row.corr = call[w].corr
      BY <1>1, RowKinds DEF Kinds, IncidentKinds
    <2>2. CASE Exists(mem, call[w].corr)
      <3>1. mem' = mem \cup {row} /\ Persist(w, rows, "evaluate")
        BY <2>2 DEF RegisterEvent
      <3>2. row \in rows
        BY <2>1, <2>2 DEF IncidentIn, IncidentKinds
      <3> QED
        BY <3>1, <3>2
    <2>3. CASE ~Exists(mem, call[w].corr)
      BY <2>3 DEF RegisterEvent
    <2> QED
      BY <2>2, <2>3
  <1>3. \A r \in rows : r.kind \in IncidentKinds
    BY DEF IncidentIn
  <1> HIDE DEF row, rows
  <1>4. CASE Failed(w)
    BY <1>1, <1>4, FailedKeeps
  <1>5. CASE Put(w, rows, "evaluate")
    <2>1. /\ pc'[w] = "evaluate" /\ pending' = pending \cup rows /\ todo'[w] = todo[w]
          /\ RowOf("event", call[w], Null)' = RowOf("event", call[w], Null)
      BY <1>1, <1>5 DEF Put, Goto, DurInv, Inv, TypeOK
    <2>2. /\ todo[w] \subseteq AlertsIn(pending) /\ RowOf("event", call[w], Null) \in pending
          /\ \A r \in pending : r.kind \notin {"alert", "detection", "response", "reaction"}
      BY <1>1 DEF DurInv, CallsInProgress, Pending, Opening
    <2>3. Pending(w)'
      BY <1>3, <2>1, <2>2 DEF Pending, Opening, InAlertLoop, AlertsIn, IncidentKinds
    <2>4. MemoryIsWritten'
      <3>1. faults = 0 => Justified(contained', mem') /\ todo'[w] \subseteq mem'
        BY <1>1, <1>2, <2>1 DEF DurInv, MemoryIsWritten, Justified
      <3> QED
        BY <1>1, <1>2, <1>5, <3>1, MemoryKeeps DEF InAlertLoop
    <2> QED
      BY <1>1, <1>5, <2>3, <2>4, PutKeeps DEF Outside
  <1> QED
    BY <1>1, <1>2, <1>4, <1>5, PersistPuts, SkipPuts

(* detection.evaluate: what the call may have to answer for is its novel    *)
(* alerts, all of its own event.                                           *)
LEMMA EvaluateKeeps ==
  ASSUME DurInv, Inv', NEW w \in Workers, Alone(w), Evaluate(w)
  PROVE  DurInv'
  <1>1. /\ pc[w] = "evaluate" /\ pc[w] \notin Outside /\ call[w] \in Call
        /\ UNCHANGED <<contained, scored, txn, saved, call, alert>>
    BY DEF Evaluate, Outside, DurInv, Inv, FramesFilled
  <1>2. PICK matched \in SUBSET MatchableBy(call[w].type) :
          LET raised == {RowOf("alert", call[w], r) : r \in matched}
              novel  == Unseen(raised) IN
            /\ mem' = mem \cup novel
            /\ todo' = [todo EXCEPT ![w] = novel]
            /\ IF novel = {} THEN Skip(w, "commit")
                             ELSE Persist(w, novel, "detection_event")
    BY DEF Evaluate
  <1> DEFINE novel == Unseen({RowOf("alert", call[w], r) : r \in matched})
             next  == IF novel = {} THEN "commit" ELSE "detection_event"
  <1>3. \A a \in novel : a.kind = "alert" /\ EventOf(a) = RowOf("event", call[w], Null)
    <2>1. \A r \in matched : r \in Rules
      BY DEF MatchableBy
    <2>2. ASSUME NEW r \in Rules
          PROVE  LET a == RowOf("alert", call[w], r)
                 IN  a.kind = "alert" /\ EventOf(a) = RowOf("event", call[w], Null)
      BY <1>1, RowKinds DEF Kinds
    <2>3. \A a \in novel : \E r \in matched : a = RowOf("alert", call[w], r)
      BY DEF Unseen
    <2> HIDE DEF novel
    <2> QED
      BY <2>1, <2>2, <2>3
  <1>4. /\ mem' = mem \cup novel /\ todo' = [todo EXCEPT ![w] = novel]
        /\ Persist(w, novel, next) \/ (Skip(w, next) /\ novel = {})
    BY <1>2
  <1>5. next \in {"commit", "detection_event"} /\ (next = "detection_event" => novel # {})
    OBVIOUS
  <1> HIDE DEF novel, next
  <1>6. CASE Failed(w)
    BY <1>1, <1>6, FailedKeeps
  <1>7. CASE Put(w, novel, next)
    <2>1. /\ pc'[w] = next /\ pending' = pending \cup novel /\ todo'[w] = novel
      BY <1>1, <1>4, <1>7 DEF Put, Goto, DurInv, Inv, TypeOK
    <2>2. /\ RowOf("event", call[w], Null) \in pending
          /\ \A r \in pending : r.kind \notin {"alert", "detection", "response", "reaction"}
      BY <1>1 DEF DurInv, CallsInProgress, Pending, Opening
    <2>3. AlertsIn(pending') = novel
      BY <1>3, <2>1, <2>2 DEF AlertsIn
    <2>4. next = "commit" => novel = {}
      BY DEF next
    <2>5. OthersServed(w)'
      BY <1>3, <1>5, <2>1, <2>2, <2>3, <2>4 DEF OthersServed
    <2>6. RowsLead(w)'
      BY <1>3, <1>5, <2>1, <2>2, <2>3, <2>4 DEF RowsLead
    <2>7. Pending(w)'
      <3>1. pc'[w] \in {"detection_event", "commit"}
        BY <1>5, <2>1
      <3> QED
        BY <2>5, <2>6, <3>1 DEF Pending, InAlertLoop, Opening, OthersServed, RowsLead
    <2>8. MemoryIsWritten'
      <3>1. faults = 0 => Justified(contained', mem')
        BY <1>1, <1>4 DEF DurInv, MemoryIsWritten, Justified
      <3> QED
        BY <1>1, <1>4, <1>5, <1>7, <2>1, <3>1, MemoryKeeps DEF InAlertLoop
    <2> QED
      BY <1>1, <1>5, <1>7, <2>7, <2>8, PutKeeps DEF Outside
  <1>8. Persist(w, novel, next) => Put(w, novel, next) \/ Failed(w)
    BY <1>1, PersistPuts
  <1>9. Skip(w, next) /\ novel = {} => Put(w, novel, next)
    BY <1>1, SkipPuts DEF Outside
  <1> QED
    BY <1>4, <1>6, <1>7, <1>8, <1>9

(* The rows of the other alerts are still there when a call in its loop    *)
(* puts rows that lead to its own alert.                                   *)
After == {"detection_event", "commit"}
Follows(w, rows, next) ==
  /\ next \in InAlertLoop \cup After
  /\ next = "detection_event" => todo[w] # {}
  /\ next = "commit" => todo[w] = {}
  /\ \A r \in rows :
       /\ r.kind # "alert"
       /\ r.kind \in {"detection", "response", "reaction"} => As("alert", r) = alert[w]
  /\ mem \subseteq mem' /\ mem' \subseteq mem \cup rows
  /\ faults = 0 => Justified(contained', mem') /\ scored' \subseteq scored \cup mem
  /\ todo' = todo /\ alert' = alert

(* A step of the loop that follows keeps the invariant, if its alert in    *)
(* hand is served as far as the next label says.                           *)
LEMMA LoopGoesOn ==
  ASSUME DurInv, Inv', NEW w \in Workers, Alone(w), pc[w] \in InAlertLoop,
         NEW rows, NEW next, Follows(w, rows, next), Put(w, rows, next),
         IF next \in InAlertLoop THEN WrittenFor(w, alert[w])'
                                 ELSE Consequences(alert[w]) \subseteq pending'
  PROVE  DurInv'
  <1>1. /\ pc'[w] = next /\ pending' = pending \cup rows /\ todo'[w] = todo[w]
        /\ alert'[w] = alert[w] /\ pc[w] \notin Outside /\ next \notin Outside
        /\ next # "rollback"
    BY DEF Put, Goto, DurInv, Inv, TypeOK, Follows, InAlertLoop, Outside, After
  <1>2. /\ alert[w] \in AlertsIn(pending) /\ OthersServed(w) /\ RowsLead(w)
    BY <1>1 DEF DurInv, CallsInProgress, Pending, OthersServed, RowsLead, InAlertLoop
  <1>3. AlertsIn(pending') = AlertsIn(pending)
    BY <1>1 DEF AlertsIn, Follows
  <1>4. ASSUME NEW a \in AlertsIn(pending)
        PROVE  \/ pc'[w] # "commit" /\ a \in todo'[w] /\ EventOf(a) \in pending'
               \/ pc'[w] \in InAlertLoop /\ a = alert'[w]
               \/ Consequences(a) \subseteq pending'
    BY <1>1, <1>2 DEF OthersServed, Follows, After, InAlertLoop
  <1>5. OthersServed(w)'
    BY <1>3, <1>4 DEF OthersServed
  <1>6. RowsLead(w)'
    BY <1>1, <1>2, <1>3 DEF RowsLead, Follows, AlertsIn
  <1>7. Pending(w)'
    <2>1. CASE next \in InAlertLoop
      BY <1>1, <1>2, <1>3, <1>5, <1>6, <2>1
      DEF Pending, InAlertLoop, Opening, OthersServed, RowsLead
    <2>2. CASE next \in After
      BY <1>1, <1>5, <1>6, <2>2
      DEF Pending, InAlertLoop, Opening, OthersServed, RowsLead, After
    <2> QED
      BY <2>1, <2>2 DEF Follows
  <1>8. MemoryIsWritten'
    <2>1. faults = 0 => /\ Justified(contained', mem') /\ scored' \subseteq scored \cup mem
                        /\ todo'[w] \subseteq mem' /\ alert'[w] \in mem'
      BY <1>1 DEF DurInv, MemoryIsWritten, Follows
    <2>2. mem \subseteq mem' /\ mem' \subseteq mem \cup rows
      BY DEF Follows
    <2> QED
      BY <1>1, <2>1, <2>2, MemoryKeeps
  <1> QED
    BY <1>1, <1>7, <1>8, PutKeeps

(* An alert is what its call, in the loop, has in hand.                    *)
LEMMA InHand ==
  ASSUME DurInv, NEW w \in Workers, pc[w] \in InAlertLoop
  PROVE  /\ pc[w] \notin Outside /\ alert[w] \in Row /\ alert[w].rule \in Rules
         /\ alert[w].kind = "alert" /\ alert[w] \in pending /\ WrittenFor(w, alert[w])
         /\ todo[w] \subseteq AlertsIn(pending)
         /\ faults = 0 => Justified(contained, mem) /\ alert[w] \in mem
  BY DEF DurInv, Inv, FramesFilled, CallsInProgress, Pending, AlertsIn, InAlertLoop,
         Outside, MemoryIsWritten

(* A row of the alert in hand may follow.                                  *)
LEMMA DerivedFollows ==
  ASSUME NEW a \in Row, a.kind = "alert", NEW kind, kind # "alert"
  PROVE  \A r \in {As(kind, a)} :
           /\ r.kind # "alert"
           /\ r.kind \in {"detection", "response", "reaction"} => As("alert", r) = a
  BY Derived

(* Rows of an incident may follow.                                         *)
LEMMA IncidentFollows ==
  ASSUME NEW S, NEW c
  PROVE  \A r \in IncidentIn(S, c) :
           r.kind \notin {"alert", "detection", "response", "reaction"}
  BY DEF IncidentIn, IncidentKinds

(* The detection event of the next alert.                                  *)
LEMMA EmitDetectionKeeps ==
  ASSUME DurInv, Inv', NEW w \in Workers, Alone(w), EmitDetection(w)
  PROVE  DurInv'
  <1>1. /\ pc[w] = "detection_event" /\ pc[w] \notin Outside
        /\ UNCHANGED <<contained, scored, txn, saved>>
    BY DEF EmitDetection, Outside
  <1>2. PICK a \in todo[w] :
          /\ alert' = [alert EXCEPT ![w] = a] /\ todo' = [todo EXCEPT ![w] = @ \ {a}]
          /\ mem' = mem \cup {As("detection", a)}
          /\ Persist(w, {As("detection", a)}, "register_alert")
    BY DEF EmitDetection
  <1> DEFINE row == As("detection", a)
  <1>3. OthersServed(w) /\ RowsLead(w)
    BY <1>1 DEF DurInv, CallsInProgress, Pending, OthersServed, RowsLead
  <1>4. a \in Row /\ a.kind = "alert" /\ a \in pending
    BY <1>3 DEF RowsLead, AlertsIn, DurInv, Inv, TypeOK
  <1>5. row.kind = "detection" /\ As("alert", row) = a
    BY <1>4, Derived
  <1> HIDE DEF row
  <1>6. CASE Failed(w)
    BY <1>1, <1>6, FailedKeeps
  <1>7. CASE Put(w, {row}, "register_alert")
    <2>1. /\ pc'[w] = "register_alert" /\ pending' = pending \cup {row}
          /\ todo'[w] = todo[w] \ {a} /\ alert'[w] = a
      BY <1>1, <1>2, <1>7 DEF Put, Goto, DurInv, Inv, TypeOK
    <2>2. AlertsIn(pending') = AlertsIn(pending)
      BY <1>5, <2>1 DEF AlertsIn
    <2>3. EventOf(a) \in pending
      <3>1. Consequences(a) \subseteq pending => EventOf(a) \in pending
        BY DEF Consequences, EventOf
      <3> QED
        BY <1>1, <1>3, <1>4, <3>1 DEF OthersServed, AlertsIn, InAlertLoop
    <2>4. WrittenFor(w, a)'
      BY <2>1, <2>3 DEF WrittenFor, Flagged, row
    <2>5. OthersServed(w)'
      <3>1. ASSUME NEW b \in AlertsIn(pending), b # a
            PROVE  \/ b \in todo'[w] /\ EventOf(b) \in pending'
                   \/ Consequences(b) \subseteq pending'
        BY <1>1, <1>3, <2>1, <3>1 DEF OthersServed, InAlertLoop
      <3> QED
        BY <2>1, <2>2, <3>1 DEF OthersServed, InAlertLoop
    <2>6. RowsLead(w)'
      BY <1>3, <1>4, <1>5, <2>1, <2>2 DEF RowsLead
    <2>7. Pending(w)'
      BY <1>4, <2>1, <2>2, <2>4, <2>5, <2>6
      DEF Pending, InAlertLoop, Opening, OthersServed, RowsLead, AlertsIn
    <2>8. MemoryIsWritten'
      <3>1. faults = 0 => /\ Justified(contained', mem') /\ todo'[w] \subseteq mem'
                          /\ alert'[w] \in mem'
        BY <1>1, <1>2, <2>1 DEF DurInv, MemoryIsWritten, Justified
      <3>2. mem \subseteq mem' /\ mem' \subseteq mem \cup {row}
        BY <1>2 DEF row
      <3> QED
        BY <1>1, <1>7, <3>1, <3>2, MemoryKeeps
    <2> QED
      BY <1>1, <1>7, <2>7, <2>8, PutKeeps DEF Outside
  <1>8. Persist(w, {row}, "register_alert")
    BY <1>2 DEF row
  <1> QED
    BY <1>1, <1>6, <1>7, <1>8, PersistPuts

(* Entering the alert in hand into its incident.                           *)
LEMMA FlagKeeps ==
  ASSUME DurInv, Inv', NEW w \in Workers, Alone(w),
         pc[w] \in {"register_alert", "flag_alert"}, Flag(w),
         UNCHANGED <<contained, scored, txn, saved, todo, alert>>,
         OpensIncident(alert[w].rule) => attached'[w]
  PROVE  DurInv'
  <1> DEFINE a    == alert[w]
             row  == As("flagged", a)
             rows == IncidentIn(mem \cup {row}, a.corr)
  <1>1. pc[w] \in InAlertLoop
    BY DEF InAlertLoop
  <1>2. /\ pc[w] \notin Outside /\ a \in Row /\ a.kind = "alert"
        /\ WrittenFor(w, a) /\ (faults = 0 => Justified(contained, mem))
    BY <1>1, InHand
  <1>3. row.kind = "flagged" /\ row.corr = a.corr
    BY <1>2, Derived
  <1>4. mem' = mem \cup {row} /\ Persist(w, rows, "update_risk")
    BY DEF Flag
  <1> HIDE DEF a, row
  <1>5. row \in rows
    BY <1>3 DEF IncidentIn, IncidentKinds
  <1>6. CASE Failed(w)
    BY <1>2, <1>6, FailedKeeps
  <1>7. CASE Put(w, rows, "update_risk")
    <2>1. pc'[w] = "update_risk" /\ pending' = pending \cup rows /\ alert'[w] = a
      BY <1>7 DEF Put, Goto, DurInv, Inv, TypeOK, a
    <2>2. WrittenFor(w, a)'
      BY <1>2, <1>5, <2>1 DEF WrittenFor, Flagged, row, a
    <2>3. Follows(w, rows, "update_risk")
      <3>1. \A r \in rows : r.kind \notin {"alert", "detection", "response", "reaction"}
        BY IncidentFollows
      <3>2. faults = 0 => Justified(contained', mem')
        BY <1>2, <1>4 DEF Justified
      <3> HIDE DEF rows
      <3> QED
        BY <1>4, <1>5, <3>1, <3>2 DEF Follows, InAlertLoop, After
    <2>4. WrittenFor(w, alert[w])'
      BY <2>2 DEF a
    <2> QED
      BY <1>1, <1>7, <2>3, <2>4, LoopGoesOn DEF InAlertLoop
  <1> QED
    BY <1>2, <1>4, <1>6, <1>7, PersistPuts

(* incidents.register_alert                                                *)
LEMMA RegisterAlertKeeps ==
  ASSUME DurInv, Inv', NEW w \in Workers, Alone(w), RegisterAlert(w)
  PROVE  DurInv'
  <1> DEFINE a     == alert[w]
             row   == As("opened", a)
             opens == ~Exists(mem, a.corr) /\ OpensIncident(a.rule)
  <1>1. pc[w] \in InAlertLoop /\ pc[w] = "register_alert"
    BY DEF InAlertLoop, RegisterAlert
  <1>2. /\ pc[w] \notin Outside /\ a \in Row /\ a.kind = "alert"
        /\ WrittenFor(w, a) /\ (faults = 0 => Justified(contained, mem))
    BY <1>1, InHand
  <1>3. row.kind = "opened"
    BY <1>2, Derived
  <1>4. /\ attached'[w] = (opens \/ Exists(mem, a.corr))
        /\ UNCHANGED <<contained, scored, txn, saved, todo, alert>>
    BY DEF RegisterAlert, DurInv, Inv, TypeOK
  <1>5. OpensIncident(a.rule) => attached'[w]
    BY <1>4
  <1>6. CASE Flag(w)
    BY <1>1, <1>4, <1>5, <1>6, FlagKeeps
  <1>7. CASE mem' = mem \cup {row} /\ Persist(w, {row}, "flag_alert")
    <2> HIDE DEF row
    <2>1. CASE Failed(w)
      BY <1>2, <2>1, FailedKeeps
    <2>2. CASE Put(w, {row}, "flag_alert")
      <3>1. pc'[w] = "flag_alert" /\ pending' = pending \cup {row} /\ alert'[w] = a
        BY <1>4, <2>2 DEF Put, Goto, DurInv, Inv, TypeOK
      <3>2. WrittenFor(w, alert[w])'
        BY <1>2, <1>5, <3>1 DEF WrittenFor, Flagged
      <3>3. Follows(w, {row}, "flag_alert")
        <4>1. faults = 0 => Justified(contained', mem')
          BY <1>2, <1>4, <1>7 DEF Justified
        <4> QED
          BY <1>3, <1>4, <1>7, <4>1 DEF Follows, InAlertLoop, After
      <3> QED
        BY <1>1, <2>2, <3>2, <3>3, LoopGoesOn DEF InAlertLoop
    <2> QED
      BY <1>2, <1>4, <1>7, <2>1, <2>2, PersistPuts
  <1>8. CASE ~OpensIncident(a.rule) /\ mem' = mem /\ Skip(w, "update_risk")
    <2>1. Put(w, {}, "update_risk")
      BY <1>1, <1>4, <1>8, SkipPuts DEF Outside
    <2>2. pc'[w] = "update_risk" /\ pending' = pending /\ alert'[w] = a
      BY <1>4, <2>1 DEF Put, Goto, DurInv, Inv, TypeOK
    <2>3. WrittenFor(w, alert[w])'
      BY <1>2, <1>8, <2>2 DEF WrittenFor, Flagged
    <2>4. Follows(w, {}, "update_risk")
      <3>1. faults = 0 => Justified(contained', mem')
        BY <1>2, <1>4, <1>8 DEF Justified
      <3> QED
        BY <1>4, <1>8, <3>1 DEF Follows, InAlertLoop, After
    <2> QED
      BY <1>1, <2>1, <2>3, <2>4, LoopGoesOn DEF InAlertLoop
  <1> QED
    BY <1>6, <1>7, <1>8 DEF RegisterAlert

(* incidents.register_alert, once the incident it opens is written.        *)
LEMMA FlagAlertKeeps ==
  ASSUME DurInv, Inv', NEW w \in Workers, Alone(w), FlagAlert(w)
  PROVE  DurInv'
  <1>1. /\ pc[w] = "flag_alert" /\ Flag(w)
        /\ UNCHANGED <<contained, scored, txn, saved, todo, alert, attached>>
    BY DEF FlagAlert, frame
  <1>2. OpensIncident(alert[w].rule) => attached'[w]
    <2>1. WrittenFor(w, alert[w])
      BY <1>1, InHand DEF InAlertLoop
    <2> QED
      BY <1>1, <2>1 DEF WrittenFor
  <1> QED
    BY <1>1, <1>2, FlagKeeps

(* risk.update_risk                                                        *)
LEMMA UpdateRiskKeeps ==
  ASSUME DurInv, Inv', NEW w \in Workers, Alone(w), UpdateRisk(w)
  PROVE  DurInv'
  <1> DEFINE rows == IncidentsOf(mem, alert[w].actor)
  <1>1. /\ pc[w] = "update_risk" /\ pc[w] \in InAlertLoop
        /\ scored' = scored \cup {alert[w]} /\ mem' = mem
        /\ UNCHANGED <<contained, txn, saved, todo, alert, attached>>
        /\ Persist(w, rows, "execute") \/ (Skip(w, "execute") /\ rows = {})
    BY DEF UpdateRisk, InAlertLoop, frame
  <1>2. /\ pc[w] \notin Outside /\ WrittenFor(w, alert[w])
        /\ faults = 0 => Justified(contained, mem) /\ alert[w] \in mem
    BY <1>1, InHand
  <1>3. \A r \in rows : /\ r.kind \notin {"alert", "detection", "response", "reaction"}
                        /\ r \in mem
    BY DEF IncidentsOf, IncidentIn, IncidentKinds
  <1> HIDE DEF rows
  <1>4. CASE Failed(w)
    BY <1>2, <1>4, FailedKeeps
  <1>5. CASE Put(w, rows, "execute")
    <2>1. pc'[w] = "execute" /\ pending' = pending \cup rows /\ alert'[w] = alert[w]
      BY <1>1, <1>5 DEF Put, Goto, DurInv, Inv, TypeOK
    <2>2. WrittenFor(w, alert[w])'
      BY <1>1, <1>2, <2>1 DEF WrittenFor, Flagged
    <2>3. Follows(w, rows, "execute")
      <3>1. faults = 0 => Justified(contained', mem')
        BY <1>1, <1>2 DEF Justified
      <3> QED
        BY <1>1, <1>2, <1>3, <3>1 DEF Follows, InAlertLoop, After
    <2> QED
      BY <1>1, <1>5, <2>2, <2>3, LoopGoesOn DEF InAlertLoop
  <1> QED
    BY <1>1, <1>2, <1>4, <1>5, PersistPuts, SkipPuts

(* Where the loop goes once an alert is done with.                         *)
LEMMA AfterAlertIs ==
  ASSUME NEW w \in Workers
  PROVE  /\ AfterAlert(w) \in After /\ AfterAlert(w) \notin InAlertLoop
         /\ AfterAlert(w) = "detection_event" => todo[w] # {}
         /\ AfterAlert(w) = "commit" => todo[w] = {}
  BY DEF AfterAlert, After, InAlertLoop

(* response.execute: the measures in memory are those of the response.     *)
LEMMA ExecuteKeeps ==
  ASSUME DurInv, Inv', NEW w \in Workers, Alone(w), Execute(w)
  PROVE  DurInv'
  <1> DEFINE a   == alert[w]
             row == As("response", a)
  <1>1. /\ pc[w] = "execute" /\ pc[w] \in InAlertLoop
        /\ UNCHANGED <<scored, txn, saved, todo, alert, attached>>
    BY DEF Execute, InAlertLoop, frame
  <1>2. /\ pc[w] \notin Outside /\ WrittenFor(w, a) /\ a \in Row /\ a.kind = "alert"
        /\ faults = 0 => Justified(contained, mem)
    BY <1>1, InHand
  <1>3. CASE HasPlaybook(a.rule)
    <2>1. /\ contained' = contained \cup (Measures(a.rule) \X {a.actor})
          /\ mem' = mem \cup {row} /\ Persist(w, {row}, "response_event")
      BY <1>3 DEF Execute
    <2>2. /\ row.kind = "response" /\ row.rule = a.rule /\ row.actor = a.actor
          /\ As("alert", row) = a
      BY <1>2, Derived
    <2> HIDE DEF row
    <2>3. CASE Failed(w)
      BY <1>2, <2>3, FailedKeeps
    <2>4. CASE Put(w, {row}, "response_event")
      <3>1. pc'[w] = "response_event" /\ pending' = pending \cup {row} /\ alert'[w] = a
        BY <1>1, <2>4 DEF Put, Goto, DurInv, Inv, TypeOK
      <3>2. WrittenFor(w, alert[w])'
        <4>1. WrittenFor(w, a)'
          BY <1>1, <1>2, <1>3, <3>1 DEF WrittenFor, Flagged, row
        <4> QED
          BY <4>1, <3>1
      <3>3. Follows(w, {row}, "response_event")
        <4>1. faults = 0 => Justified(contained', mem')
          BY <1>2, <2>1, <2>2 DEF Justified
        <4> QED
          BY <1>1, <2>1, <2>2, <4>1 DEF Follows, InAlertLoop, After
      <3> QED
        BY <1>1, <2>4, <3>2, <3>3, LoopGoesOn DEF InAlertLoop
    <2> QED
      BY <1>1, <1>2, <2>1, <2>3, <2>4, PersistPuts
  <1>4. CASE ~HasPlaybook(a.rule)
    <2>1. Skip(w, AfterAlert(w)) /\ contained' = contained /\ mem' = mem
      BY <1>4 DEF Execute
    <2>2. Put(w, {}, AfterAlert(w))
      BY <1>1, <2>1, SkipPuts DEF Outside
    <2>3. pending' = pending
      BY <2>2 DEF Put
    <2>4. Consequences(a) \subseteq pending'
      BY <1>1, <1>2, <1>4, <2>3 DEF Consequences, WrittenFor, EventOf, Flagged
    <2>5. Follows(w, {}, AfterAlert(w))
      <3>1. faults = 0 => Justified(contained', mem')
        BY <1>2, <2>1 DEF Justified
      <3> QED
        BY <1>1, <2>1, <3>1, AfterAlertIs DEF Follows
    <2> QED
      BY <1>1, <2>2, <2>4, <2>5, LoopGoesOn, AfterAlertIs
  <1> QED
    BY <1>3, <1>4

(* The event of the response.                                              *)
LEMMA EmitResponseKeeps ==
  ASSUME DurInv, Inv', NEW w \in Workers, Alone(w), EmitResponse(w)
  PROVE  DurInv'
  <1> DEFINE row == As("reaction", alert[w])
  <1>1. /\ pc[w] = "response_event" /\ pc[w] \in InAlertLoop
        /\ mem' = mem \cup {row} /\ Persist(w, {row}, "register_response")
        /\ UNCHANGED <<contained, scored, txn, saved, todo, alert, attached>>
    BY DEF EmitResponse, InAlertLoop, frame
  <1>2. /\ pc[w] \notin Outside /\ WrittenFor(w, alert[w])
        /\ faults = 0 => Justified(contained, mem)
    BY <1>1, InHand
  <1>3. row.kind = "reaction" /\ As("alert", row) = alert[w]
    BY <1>1, InHand, Derived
  <1> HIDE DEF row
  <1>4. CASE Failed(w)
    BY <1>2, <1>4, FailedKeeps
  <1>5. CASE Put(w, {row}, "register_response")
    <2>1. /\ pc'[w] = "register_response" /\ pending' = pending \cup {row}
          /\ alert'[w] = alert[w]
      BY <1>1, <1>5 DEF Put, Goto, DurInv, Inv, TypeOK
    <2>2. WrittenFor(w, alert[w])'
      BY <1>1, <1>2, <2>1 DEF WrittenFor, Flagged, row
    <2>3. Follows(w, {row}, "register_response")
      <3>1. faults = 0 => Justified(contained', mem')
        BY <1>1, <1>2 DEF Justified
      <3> QED
        BY <1>1, <1>3, <3>1 DEF Follows, InAlertLoop, After
    <2> QED
      BY <1>1, <1>5, <2>2, <2>3, LoopGoesOn DEF InAlertLoop
  <1> QED
    BY <1>1, <1>2, <1>4, <1>5, PersistPuts

(* incidents.register_response: the alert in hand is done with.            *)
LEMMA RegisterResponseKeeps ==
  ASSUME DurInv, Inv', NEW w \in Workers, Alone(w), RegisterResponse(w)
  PROVE  DurInv'
  <1> DEFINE a    == alert[w]
             row  == As("answered", a)
             rows == IF attached[w] THEN IncidentIn(mem \cup {row}, a.corr) ELSE {}
             next == AfterAlert(w)
  <1>1. /\ pc[w] = "register_response" /\ pc[w] \in InAlertLoop
        /\ UNCHANGED <<contained, scored, txn, saved, todo, alert, attached>>
    BY DEF RegisterResponse, InAlertLoop, frame
  <1>2. /\ pc[w] \notin Outside /\ WrittenFor(w, a) /\ a \in Row /\ a.kind = "alert"
        /\ faults = 0 => Justified(contained, mem)
    BY <1>1, InHand
  <1>3. row.kind = "answered" /\ row.corr = a.corr
    BY <1>2, Derived
  <1>4. /\ mem \subseteq mem' /\ mem' \subseteq mem \cup rows
        /\ attached[w] => row \in rows
        /\ Persist(w, rows, next) \/ (Skip(w, next) /\ rows = {})
    <2>1. CASE attached[w]
      <3>1. mem' = mem \cup {row} /\ Persist(w, rows, next)
        BY <2>1 DEF RegisterResponse
      <3>2. row \in rows
        BY <1>3, <2>1 DEF IncidentIn, IncidentKinds
      <3> QED
        BY <3>1, <3>2
    <2>2. CASE ~attached[w]
      BY <2>2 DEF RegisterResponse
    <2> QED
      BY <2>1, <2>2
  <1>5. \A r \in rows : r.kind \notin {"alert", "detection", "response", "reaction"}
    BY IncidentFollows
  <1> HIDE DEF row, rows
  <1>6. CASE Failed(w)
    BY <1>2, <1>6, FailedKeeps
  <1>7. CASE Put(w, rows, next)
    <2>1. pending' = pending \cup rows
      BY <1>7 DEF Put
    <2>2. Consequences(a) \subseteq pending'
      BY <1>1, <1>2, <1>4, <2>1 DEF Consequences, WrittenFor, EventOf, Flagged, row
    <2>3. Follows(w, rows, next)
      <3>1. faults = 0 => Justified(contained', mem')
        BY <1>1, <1>2, <1>4 DEF Justified
      <3> QED
        BY <1>1, <1>4, <1>5, <3>1, AfterAlertIs DEF Follows
    <2> QED
      BY <1>1, <1>7, <2>2, <2>3, LoopGoesOn, AfterAlertIs
  <1>8. Persist(w, rows, next) => Put(w, rows, next) \/ Failed(w)
    BY <1>1, <1>2, PersistPuts
  <1>9. Skip(w, next) /\ rows = {} => Put(w, rows, next)
    BY <1>1, SkipPuts DEF Outside
  <1> QED
    BY <1>4, <1>6, <1>7, <1>8, <1>9

(* A worker that is between two calls, or leaves one, has written nothing  *)
(* that is not committed, and has no alert to come back to.                *)
Leaves(w) == /\ pc'[w] \in Outside /\ pending' = {} /\ todo'[w] = {}
             /\ mem' = mem /\ contained' = contained /\ scored' = scored
             /\ (faults' = 0 => faults = 0 /\ pc[w] # "rollback"
                                /\ disk' = disk \cup pending)

(* A call that leaves keeps the invariant.                                 *)
LEMMA LeavesKeeps ==
  ASSUME DurInv, Inv', HeldInside', RowsComplete', SnapshotJustified',
         NEW w \in Workers, Alone(w), Leaves(w)
  PROVE  DurInv'
  <1>1. \A v \in Workers : pc'[v] \in Outside /\ todo'[v] = {}
    BY OthersOut DEF Leaves
  <1>2. InsideHolds' /\ CallsInProgress'
    BY <1>1 DEF Leaves, InsideHolds, CallsInProgress
  <1>3. MemoryIsWritten'
    <2>1. \A v \in Workers : pc'[v] # "rollback" /\ pc'[v] \notin InAlertLoop
      BY <1>1 DEF Outside, InAlertLoop
    <2>2. faults' = 0 => /\ mem' \subseteq disk' \cup pending'
                         /\ Justified(contained', mem') /\ scored' \subseteq mem'
      BY DEF Leaves, DurInv, MemoryIsWritten
    <2> QED
      BY <1>1, <2>1, <2>2 DEF MemoryIsWritten
  <1> QED
    BY <1>2, <1>3 DEF DurInv

(* A call starts, looks for the connection and opens it.                   *)
LEMMA StartingKeeps ==
  ASSUME DurInv, Inv', HeldInside', NEW w \in Workers, Alone(w),
         Submit(w) \/ Begin(w) \/ Open(w)
  PROVE  DurInv'
  <1>1. /\ pc[w] \in Outside /\ mem' = mem /\ UNCHANGED <<contained, scored, disk, saved, todo>>
    BY DEF Submit, Begin, Open, Outside, memory, frame, DurInv, CallsInProgress
  <1>2. pending = {} /\ todo[w] = {}
    BY <1>1, OthersOut DEF DurInv, InsideHolds, CallsInProgress
  <1>3. /\ pending' = {} /\ faults' \in Nat /\ faults \in Nat /\ (faults' = 0 => faults = 0)
    BY <1>2, PipelineAssumption DEF Submit, Begin, Open, DurInv, Inv, TypeOK
  <1>4. RowsComplete' /\ SnapshotJustified'
    BY <1>1, <1>3 DEF DurInv, RowsComplete, SnapshotJustified, saved
  <1>5. CASE pc'[w] \in Outside
    <2>1. Leaves(w)
      BY <1>1, <1>2, <1>3, <1>5 DEF Leaves, Outside
    <2> QED
      BY <1>4, <2>1, LeavesKeeps
  <1>6. CASE pc'[w] \notin Outside
    <2>1. pc'[w] = "emit" /\ (txn' = w \/ txn' # Null)
      BY <1>1, <1>6 DEF Submit, Begin, Open, Goto, Outside, DurInv, Inv, TypeOK
    <2>2. txn' = w \/ faults' # 0
      <3>1. CASE Begin(w)
        <4>1. txn # Null /\ txn' = txn /\ faults' = faults
          BY <1>6, <3>1 DEF Begin, Goto, Outside, DurInv, Inv, TypeOK
        <4>2. faults = 0 => txn = w
          BY <1>1, <4>1, OthersOut DEF DurInv, HeldInside, Inv, TypeOK
        <4> QED
          BY <4>1, <4>2
      <3>2. CASE Submit(w) \/ Open(w)
        BY <1>6, <3>2 DEF Submit, Open, Goto, Outside, DurInv, Inv, TypeOK
      <3> QED
        BY <3>1, <3>2, <1>6
    <2>3. InsideHolds'
      BY <1>1, <1>3, <1>6, <2>1, <2>2, OthersOut DEF InsideHolds, LockedOut
    <2>4. CallsInProgress'
      BY <1>1, <1>2, <1>3, <1>6, <2>1, OthersOut
      DEF CallsInProgress, Pending, Opening, InAlertLoop
    <2>5. MemoryIsWritten'
      <3>1. \A v \in Workers : /\ pc'[v] # "rollback" /\ pc'[v] \notin InAlertLoop
                               /\ todo'[v] = {}
        BY <1>1, <1>2, <2>1, OthersOut DEF Outside, InAlertLoop
      <3> QED
        BY <1>1, <1>2, <1>3, <3>1 DEF DurInv, MemoryIsWritten
    <2> QED
      BY <1>4, <2>3, <2>4, <2>5 DEF DurInv
  <1> QED
    BY <1>5, <1>6

(* commit_transaction: what it commits is complete.                        *)
LEMMA CommitKeeps ==
  ASSUME DurInv, Inv', HeldInside', NEW w \in Workers, Alone(w), Commit(w)
  PROVE  DurInv'
  <1>1. /\ pc[w] = "commit" /\ pc[w] \notin Outside /\ txn = w /\ txn # Null
        /\ mem' = mem /\ UNCHANGED <<contained, scored, saved, todo>>
    BY PipelineAssumption DEF Commit, Outside, DurInv, InsideHolds, LockedOut, memory, frame
  <1>2. CASE Failed(w)
    BY <1>1, <1>2, FailedKeeps
  <1>3. CASE CommitShared /\ Goto(w, "reply") /\ UNCHANGED faults
    <2>1. Pending(w)
      BY <1>1 DEF DurInv, CallsInProgress
    <2>2. /\ \A a \in AlertsIn(pending) : Consequences(a) \subseteq pending
          /\ todo[w] = {}
          /\ \A r \in pending : r.kind \in {"detection", "response", "reaction"} =>
               As("alert", r) \in pending
      BY <1>1, <2>1 DEF Pending, InAlertLoop
    <2>3. /\ disk' = disk \cup pending /\ pending' = {} /\ pc'[w] = "reply"
          /\ faults' = faults
      BY <1>3 DEF CommitShared, Goto, DurInv, Inv, TypeOK
    <2>4. RowsComplete'
      BY <2>2, <2>3 DEF DurInv, RowsComplete, AlertsIn
    <2>5. SnapshotJustified'
      BY <1>1, <2>3 DEF DurInv, SnapshotJustified, saved
    <2>6. Leaves(w)
      BY <1>1, <2>2, <2>3 DEF Leaves, Outside
    <2> QED
      BY <2>4, <2>5, <2>6, LeavesKeeps
  <1> QED
    BY <1>1, <1>2, <1>3, PipelineAssumption DEF Commit, Raises, Failed, DurInv, Inv, TypeOK

(* rollback_transaction: only after SQLite has failed.                     *)
LEMMA RollbackKeeps ==
  ASSUME DurInv, Inv', HeldInside', NEW w \in Workers, Alone(w), Rollback(w)
  PROVE  DurInv'
  <1>1. /\ pc[w] = "rollback" /\ pc[w] \notin Outside
        /\ mem' = mem /\ UNCHANGED <<contained, scored, saved, disk, faults>>
        /\ pending' = {} /\ pc'[w] = "idle" /\ todo'[w] = {}
    BY DEF Rollback, Return, Goto, Outside, DurInv, Inv, TypeOK, InsideHolds, LockedOut, memory
  <1>2. faults # 0
    BY <1>1 DEF DurInv, MemoryIsWritten
  <1>3. Leaves(w)
    BY <1>1, <1>2 DEF Leaves, Outside
  <1>4. RowsComplete' /\ SnapshotJustified'
    BY <1>1, <1>2 DEF DurInv, RowsComplete, SnapshotJustified
  <1> QED
    BY <1>3, <1>4, LeavesKeeps

(* The middleware's save(), when the write lock is free, snapshots memory  *)
(* that is written; other workers may be in their calls.                   *)
LEMMA SaveKeeps ==
  ASSUME DurInv, Inv', HeldInside', NEW w \in Workers, Save(w) \/ EndBeat(w)
  PROVE  DurInv'
  <1>1. /\ pc[w] = "reply" /\ pc'[w] = "idle" /\ todo'[w] = {}
        /\ \A v \in Workers \ {w} : /\ pc'[v] = pc[v] /\ todo'[v] = todo[v]
                                    /\ call'[v] = call[v] /\ alert'[v] = alert[v]
                                    /\ attached'[v] = attached[v]
        /\ mem' = mem /\ UNCHANGED <<contained, scored, txn, pending, disk, faults>>
    BY DEF Save, EndBeat, Return, Goto, DurInv, Inv, TypeOK, memory
  <1>2. InsideHolds'
    BY <1>1 DEF DurInv, InsideHolds, LockedOut, Outside
  <1>3. CallsInProgress'
    <2>1. ASSUME NEW v \in Workers \ {w}, Pending(v) PROVE Pending(v)'
      BY <1>1, <2>1 DEF Pending, WrittenFor, AlertsIn
    <2> QED
      BY <1>1, <2>1 DEF DurInv, CallsInProgress, Outside
  <1>4. MemoryIsWritten'
    BY <1>1 DEF DurInv, MemoryIsWritten, InAlertLoop
  <1>5. RowsComplete'
    BY <1>1 DEF DurInv, RowsComplete
  <1>6. SnapshotJustified'
    <2>1. CASE Save(w)
      <3>1. savedContained' = contained /\ savedScored' = scored
        BY <2>1 DEF Save
      <3>2. faults = 0 => txn = Null
        BY <2>1 DEF Save, LockHeld, DurInv, HeldInside, Outside
      <3>3. faults = 0 => pending = {}
        BY <3>2, PipelineAssumption DEF DurInv, InsideHolds, LockedOut
      <3>4. faults = 0 => /\ mem \subseteq disk /\ Justified(contained, mem)
                          /\ scored \subseteq mem
        BY <3>3 DEF DurInv, MemoryIsWritten
      <3>5. faults = 0 => Justified(contained, disk) /\ scored \subseteq disk
        BY <3>4 DEF Justified
      <3> QED
        BY <1>1, <3>1, <3>5 DEF SnapshotJustified, Justified
    <2>2. CASE EndBeat(w)
      BY <1>1, <2>2 DEF EndBeat, DurInv, SnapshotJustified, saved
    <2> QED
      BY <2>1, <2>2
  <1> QED
    BY <1>2, <1>3, <1>4, <1>5, <1>6 DEF DurInv

(* A restart finds what is written, justified by what is written.          *)
LEMMA RestartKeepsDurable ==
  ASSUME DurInv, Inv', HeldInside', Restart
  PROVE  DurInv'
  <1>1. /\ mem' = disk /\ disk' = disk /\ pending' = {} /\ faults' = faults
        /\ contained' = savedContained /\ scored' = savedScored
        /\ savedContained' = savedContained /\ savedScored' = savedScored
        /\ \A w \in Workers : pc'[w] = "idle" /\ todo'[w] = {}
    BY DEF Restart, Loaded, saved
  <1>2. InsideHolds' /\ CallsInProgress'
    BY <1>1 DEF InsideHolds, CallsInProgress, Outside
  <1>3. RowsComplete' /\ SnapshotJustified'
    BY <1>1 DEF DurInv, RowsComplete, SnapshotJustified
  <1>4. MemoryIsWritten'
    BY <1>1 DEF DurInv, MemoryIsWritten, SnapshotJustified, Justified, InAlertLoop
  <1> QED
    BY <1>2, <1>3, <1>4 DEF DurInv

(* A step of a call that overlaps no other is a step of a worker alone.    *)
LEMMA StepsAlone ==
  ASSUME TypeOK, OneCallAtATime, OneCallAtATime', NEW w \in Workers,
         \/ Submit(w) \/ Begin(w) \/ Open(w) \/ Emit(w) \/ RegisterEvent(w)
         \/ Evaluate(w) \/ EmitDetection(w) \/ RegisterAlert(w) \/ FlagAlert(w)
         \/ UpdateRisk(w) \/ Execute(w) \/ EmitResponse(w) \/ RegisterResponse(w)
         \/ Commit(w) \/ Rollback(w)
  PROVE  Alone(w)
  <1>1. \A v \in Workers \ {w} : pc'[v] = pc[v] /\ todo'[v] = todo[v]
    BY DEF TypeOK, Submit, Begin, Open, Emit, RegisterEvent, Evaluate, EmitDetection,
           RegisterAlert, Flag, FlagAlert, UpdateRisk, Execute, EmitResponse,
           RegisterResponse, Commit, Rollback, Return, Persist, Raises, Skip, Goto, frame
  <1>2. pc[w] \notin {"idle", "reply"} \/ pc'[w] \notin {"idle", "reply"}
    <2>1. CASE Submit(w)
      BY <2>1 DEF Submit, Goto, TypeOK
    <2>2. CASE ~Submit(w)
      BY <2>2 DEF Begin, Open, Emit, RegisterEvent, Evaluate, EmitDetection, RegisterAlert,
         FlagAlert, UpdateRisk, Execute, EmitResponse, RegisterResponse, Commit, Rollback
    <2> QED
      BY <2>1, <2>2
  <1> QED
    BY <1>1, <1>2 DEF OneCallAtATime, Alone

(* Every step keeps the invariant while calls do not overlap.              *)
LEMMA DurInvStep ==
  ASSUME DurInv, OneCallAtATime, OneCallAtATime', [Next]_vars
  PROVE  DurInv'
  <1>1. Inv' /\ HeldInside'
    BY StepInv, HeldInsideStep DEF DurInv, Inv
  <1>2. ASSUME NEW w \in Workers, Submit(w) \/ Step(w) PROVE DurInv'
    <2>1. CASE Save(w) \/ EndBeat(w)
      BY <1>1, <2>1, SaveKeeps
    <2>2. CASE ~(Save(w) \/ EndBeat(w))
      <3>1. Alone(w)
        BY <1>2, <2>2, StepsAlone DEF Step, DurInv, Inv
      <3> QED
        BY <1>1, <1>2, <2>2, <3>1, StartingKeeps, EmitKeeps, RegisterEventKeeps,
           EvaluateKeeps, EmitDetectionKeeps, RegisterAlertKeeps, FlagAlertKeeps,
           UpdateRiskKeeps, ExecuteKeeps, EmitResponseKeeps, RegisterResponseKeeps,
           CommitKeeps, RollbackKeeps
        DEF Step
    <2> QED
      BY <2>1, <2>2
  <1>3. CASE Restart
    BY <1>1, <1>3, RestartKeepsDurable
  <1>4. CASE UNCHANGED vars
    <2>1. /\ InsideHolds' /\ RowsComplete' /\ SnapshotJustified'
      BY <1>4 DEF vars, saved, DurInv, InsideHolds, LockedOut, RowsComplete,
         SnapshotJustified
    <2>2. MemoryIsWritten'
      BY <1>4 DEF vars, memory, frame, DurInv, MemoryIsWritten
    <2>3. CallsInProgress'
      BY <1>4 DEF vars, frame, DurInv, CallsInProgress, Pending, WrittenFor
    <2> QED
      BY <1>1, <2>1, <2>2, <2>3 DEF DurInv
  <1> QED
    BY <1>2, <1>3, <1>4 DEF Next

(* The empty store is durable.                                             *)
LEMMA InitDurable == Init => DurInv
  <1> SUFFICES ASSUME Init PROVE DurInv
    OBVIOUS
  <1>1. HeldInside /\ InsideHolds /\ CallsInProgress
    BY DEF Init, HeldInside, InsideHolds, CallsInProgress, Outside
  <1>2. MemoryIsWritten
    BY DEF Init, MemoryIsWritten, Justified, InAlertLoop
  <1>3. RowsComplete /\ SnapshotJustified
    BY DEF Init, RowsComplete, SnapshotJustified, AlertsIn
  <1> QED
    BY <1>1, <1>2, <1>3, InitInv DEF DurInv

-----------------------------------------------------------------------------
(* The entries of the incidents                                            *)

(* A call in progress has its own identity, none of its rows is durable,   *)
(* and of the rows on the connection all but incident entries are its own. *)
Running(w) == pc[w] \notin {"idle", "reply"}
CallsAreNew ==
  /\ \A r \in mem : r.id \in issued
  /\ \A w \in Workers :
       /\ pc[w] # "idle" => call[w].id \in issued
       /\ pc[w] \notin Outside => \A a \in todo[w] : a.id = call[w].id
       /\ pc[w] \in InAlertLoop => alert[w].id = call[w].id
       /\ Running(w) =>
            \A r \in disk : r.kind \notin IncidentKinds => r.id # call[w].id
       /\ Running(w) =>
            \A r \in pending : r.kind \notin IncidentKinds => r.id = call[w].id

(* An entry whose call has been rolled back.                               *)
Forgotten(r) ==
  /\ faults # 0 /\ r.id \in issued
  /\ \A s \in disk \cup pending : s.id = r.id => s.kind \in IncidentKinds
  /\ \A w \in Workers : Running(w) => call[w].id # r.id

(* Every entry in memory has its cause written, every durable one its      *)
(* cause durable, or its call has been rolled back.                        *)
EntriesInv ==
  /\ CallsAreNew
  /\ \A r \in mem : r.kind \in IncidentKinds =>
       Cause(r) \in disk \cup pending \/ Forgotten(r)
  /\ \A r \in disk : r.kind \in IncidentKinds => Cause(r) \in disk \/ Forgotten(r)

(* What a step inside the transaction of a worker alone may do to memory   *)
(* and connection.                                                         *)
Enters(w) ==
  /\ disk' = disk /\ pending \subseteq pending' /\ mem \subseteq mem'
  /\ \A r \in pending' : r \in pending \/ r.kind \in IncidentKinds \/ r.id = call[w].id
  /\ \A r \in mem' : \/ r \in mem
                     \/ /\ r.id = call[w].id
                        /\ r.kind \in IncidentKinds => Cause(r) \in pending'
  /\ call' = call /\ issued' = issued /\ (faults # 0 => faults' # 0)
  /\ pc[w] \notin Outside /\ pc'[w] \notin Outside
  /\ \A a \in todo'[w] : a.id = call[w].id
  /\ pc'[w] \in InAlertLoop => alert'[w].id = call[w].id

(* Such a step keeps every entry's cause, or leaves it forgotten.          *)
LEMMA EntersKeeps ==
  ASSUME DurInv, EntriesInv, NEW w \in Workers, Alone(w), Enters(w)
  PROVE  EntriesInv'
  <1>1. /\ Running(w) /\ Running(w)' /\ call'[w].id = call[w].id /\ call[w].id \in issued
        /\ \A v \in Workers \ {w} : ~Running(v) /\ ~Running(v)' /\ pc'[v] = pc[v]
                                    /\ pc'[v] \notin InAlertLoop
                                    /\ (pc'[v] \notin Outside => FALSE)
    BY DEF Enters, Outside, Running, Alone, InAlertLoop, EntriesInv, CallsAreNew
  <1>2. CallsAreNew'
    <2>1. \A r \in mem' : r.id \in issued'
      BY <1>1 DEF Enters, EntriesInv, CallsAreNew
    <2>2. \A r \in disk' : r.kind \notin IncidentKinds => r.id # call'[w].id
      BY <1>1 DEF Enters, EntriesInv, CallsAreNew
    <2>3. \A r \in pending' : r.kind \notin IncidentKinds => r.id = call'[w].id
      BY <1>1 DEF Enters, EntriesInv, CallsAreNew
    <2>4. \A v \in Workers : pc'[v] # "idle" => call'[v].id \in issued'
      BY <1>1 DEF Enters, EntriesInv, CallsAreNew
    <2> QED
      BY <1>1, <2>1, <2>2, <2>3, <2>4 DEF Enters, CallsAreNew
  <1>3. ASSUME NEW r, Forgotten(r) PROVE Forgotten(r)'
    <2>1. r.id # call[w].id
      BY <1>1, <1>3 DEF Forgotten
    <2>2. \A s \in disk' \cup pending' : s.id = r.id => s.kind \in IncidentKinds
      BY <1>3, <2>1 DEF Forgotten, Enters
    <2> QED
      BY <1>1, <1>3, <2>1, <2>2 DEF Forgotten, Enters
  <1>4. ASSUME NEW r \in mem', r.kind \in IncidentKinds
        PROVE  Cause(r) \in disk' \cup pending' \/ Forgotten(r)'
    BY <1>3, <1>4 DEF Enters, EntriesInv
  <1>5. ASSUME NEW r \in disk', r.kind \in IncidentKinds
        PROVE  Cause(r) \in disk' \/ Forgotten(r)'
    BY <1>3, <1>5 DEF Enters, EntriesInv
  <1> QED
    BY <1>2, <1>4, <1>5 DEF EntriesInv, Cause

(* A persist_* call inside the transaction of a worker alone, whatever     *)
(* becomes of it.                                                          *)
Attempts(w, rows, next) == Persist(w, rows, next) \/ Skip(w, next)
LEMMA AttemptEnters ==
  ASSUME DurInv, NEW w \in Workers, pc[w] \notin Outside, UNCHANGED <<txn, saved>>,
         NEW rows, NEW next, next \notin Outside, Attempts(w, rows, next)
  PROVE  /\ disk' = disk /\ pending \subseteq pending' /\ pending' \subseteq pending \cup rows
         /\ pc'[w] \in {next, "rollback"} /\ pc'[w] \notin Outside
         /\ (faults # 0 => faults' # 0)
  <1>1. CASE Skip(w, next)
    BY <1>1 DEF Skip, Goto, DurInv, Inv, TypeOK
  <1>2. CASE Persist(w, rows, next)
    <2>1. Put(w, rows, next) \/ Failed(w)
      BY <1>2, PersistPuts
    <2> QED
      BY <2>1 DEF Put, Failed, Goto, DurInv, Inv, TypeOK, Outside
  <1> QED
    BY <1>1, <1>2 DEF Attempts

(* The entries of an alert, and what they are entries of.                  *)
LEMMA EntryOfAlert ==
  ASSUME NEW a \in Row, a.kind = "alert", NEW kind \in Kinds
  PROVE  /\ As(kind, a).id = a.id /\ As(kind, a).kind = kind
         /\ kind # "seen" => Cause(As(kind, a)) = a
  BY Derived DEF As, Row, Cause

(* The entry of an event.                                                  *)
LEMMA EntryOfEvent ==
  ASSUME NEW c \in Call
  PROVE  LET row == RowOf("seen", c, Null)
         IN  row.kind = "seen" /\ row.id = c.id /\ Cause(row) = RowOf("event", c, Null)
  <1> DEFINE row == RowOf("seen", c, Null)
             src == RowOf("event", c, Null)
  <1>1. row \in Row /\ src \in Row /\ As("event", row) \in Row
    BY RowOfIsRow, AsIsRow DEF Kinds, EventKinds, IncidentKinds
  <1>2. row.kind = "seen" /\ row.id = c.id /\ Cause(row) = As("event", row)
    BY DEF RowOf, Cause
  <1>3. /\ As("event", row).kind = src.kind /\ As("event", row).id = src.id
        /\ As("event", row).rule = src.rule /\ As("event", row).actor = src.actor
        /\ As("event", row).corr = src.corr
    BY <1>1 DEF As, Row, RowOf
  <1>4. As("event", row) = src
    BY <1>1, <1>3, RowIsFields
  <1> QED
    BY <1>2, <1>4

(* The steps before the loop: the source event, its entry, the alerts.     *)
LEMMA OpeningEnters ==
  ASSUME DurInv, EntriesInv, NEW w \in Workers, Alone(w),
         Emit(w) \/ RegisterEvent(w) \/ Evaluate(w)
  PROVE  Enters(w)
  <1>1. /\ pc[w] \in {"emit", "register_event", "evaluate"} /\ pc[w] \notin Outside
        /\ call[w] \in Call /\ UNCHANGED <<txn, saved, call, issued>>
        /\ \A a \in todo[w] : a.id = call[w].id
    BY DEF Emit, RegisterEvent, Evaluate, Outside, frame, DurInv, Inv, FramesFilled,
           EntriesInv, CallsAreNew
  <1>2. CASE Emit(w)
    <2> DEFINE row == RowOf("event", call[w], Null)
    <2>1. row.kind = "event" /\ row.id = call[w].id
      BY <1>1 DEF RowOf
    <2>2. /\ mem' = mem \cup {row} /\ Attempts(w, {row}, "register_event")
          /\ todo' = todo
      BY <1>2 DEF Emit, frame, Attempts
    <2> HIDE DEF row
    <2>3. /\ disk' = disk /\ pending \subseteq pending' /\ pending' \subseteq pending \cup {row}
          /\ pc'[w] \in {"register_event", "rollback"} /\ pc'[w] \notin Outside
          /\ (faults # 0 => faults' # 0)
      BY <1>1, <2>2, AttemptEnters DEF Outside
    <2> QED
      BY <1>1, <2>1, <2>2, <2>3 DEF Enters, InAlertLoop, IncidentKinds
  <1>3. CASE RegisterEvent(w)
    <2> DEFINE row  == RowOf("seen", call[w], Null)
               rows == IncidentIn(mem \cup {row}, call[w].corr)
    <2>1. row.id = call[w].id /\ Cause(row) = RowOf("event", call[w], Null)
      BY <1>1, EntryOfEvent
    <2>2. Cause(row) \in pending
      BY <1>3, <2>1 DEF RegisterEvent, DurInv, CallsInProgress, Pending, Opening, Outside
    <2>3. /\ mem \subseteq mem' /\ mem' \subseteq mem \cup {row}
          /\ Attempts(w, rows, "evaluate") /\ todo' = todo
      BY <1>3 DEF RegisterEvent, frame, Attempts
    <2>4. \A r \in rows : r.kind \in IncidentKinds
      BY DEF IncidentIn
    <2> HIDE DEF row, rows
    <2>5. /\ disk' = disk /\ pending \subseteq pending' /\ pending' \subseteq pending \cup rows
          /\ pc'[w] \in {"evaluate", "rollback"} /\ pc'[w] \notin Outside
          /\ (faults # 0 => faults' # 0)
      BY <1>1, <2>3, AttemptEnters DEF Outside
    <2> QED
      BY <1>1, <2>1, <2>2, <2>3, <2>4, <2>5 DEF Enters, InAlertLoop
  <1>4. CASE Evaluate(w)
    <2>1. PICK matched \in SUBSET MatchableBy(call[w].type) :
            LET raised == {RowOf("alert", call[w], r) : r \in matched}
                novel  == Unseen(raised) IN
              /\ mem' = mem \cup novel
              /\ todo' = [todo EXCEPT ![w] = novel]
              /\ IF novel = {} THEN Skip(w, "commit")
                               ELSE Persist(w, novel, "detection_event")
      BY <1>4 DEF Evaluate
    <2> DEFINE novel == Unseen({RowOf("alert", call[w], r) : r \in matched})
    <2>2. \A a \in novel : a.kind = "alert" /\ a.id = call[w].id
      BY DEF Unseen, RowOf
    <2>3. /\ mem' = mem \cup novel /\ todo'[w] = novel
          /\ Attempts(w, novel, "commit") \/ Attempts(w, novel, "detection_event")
      BY <2>1 DEF Attempts, DurInv, Inv, TypeOK
    <2> HIDE DEF novel
    <2>4. /\ disk' = disk /\ pending \subseteq pending' /\ pending' \subseteq pending \cup novel
          /\ pc'[w] \in {"commit", "detection_event", "rollback"} /\ pc'[w] \notin Outside
          /\ (faults # 0 => faults' # 0)
      BY <1>1, <2>3, AttemptEnters DEF Outside
    <2> QED
      BY <1>1, <2>2, <2>3, <2>4 DEF Enters, InAlertLoop, IncidentKinds
  <1> QED
    BY <1>2, <1>3, <1>4

(* The steps of the loop, for the alert in hand.                           *)
LEMMA LoopEnters ==
  ASSUME DurInv, EntriesInv, NEW w \in Workers, Alone(w),
         \/ EmitDetection(w) \/ RegisterAlert(w) \/ FlagAlert(w) \/ UpdateRisk(w)
         \/ Execute(w) \/ EmitResponse(w) \/ RegisterResponse(w)
  PROVE  Enters(w)
  <1> DEFINE labels == InAlertLoop \cup After
             a == alert'[w]
  <1>1. /\ pc[w] \in InAlertLoop \cup {"detection_event"} /\ pc[w] \notin Outside
        /\ UNCHANGED <<txn, saved, call, issued>>
    BY DEF EmitDetection, RegisterAlert, FlagAlert, UpdateRisk, Execute, EmitResponse,
           RegisterResponse, Outside, frame, InAlertLoop
  <1>2. /\ a \in Row /\ a.kind = "alert" /\ a \in pending /\ a.id = call[w].id
        /\ todo'[w] \subseteq todo[w]
    <2>1. CASE EmitDetection(w)
      <3>1. PICK b \in todo[w] : alert' = [alert EXCEPT ![w] = b] /\ todo' = [todo EXCEPT ![w] = @ \ {b}]
        BY <2>1 DEF EmitDetection
      <3>2. alert'[w] = b /\ todo'[w] \subseteq todo[w]
        BY <3>1 DEF DurInv, Inv, TypeOK
      <3>3. b \in AlertsIn(pending) /\ b.id = call[w].id
        BY <1>1, <2>1, <3>1
        DEF EmitDetection, DurInv, CallsInProgress, Pending, EntriesInv, CallsAreNew
      <3> QED
        BY <3>2, <3>3 DEF AlertsIn, DurInv, Inv, TypeOK
    <2>2. CASE ~EmitDetection(w)
      <3>1. pc[w] \in InAlertLoop /\ alert' = alert /\ todo' = todo
        BY <2>2 DEF RegisterAlert, FlagAlert, UpdateRisk, Execute, EmitResponse,
           RegisterResponse, frame, InAlertLoop
      <3> QED
        BY <3>1, InHand DEF EntriesInv, CallsAreNew
    <2> QED
      BY <2>1, <2>2
  <1>3. AfterAlert(w) \in labels
    BY DEF AfterAlert, After
  <1>4. \A kind \in Kinds : /\ As(kind, a).id = a.id /\ As(kind, a).kind = kind
                            /\ kind # "seen" => Cause(As(kind, a)) = a
    BY <1>2, EntryOfAlert
  <1> DEFINE own(r) == /\ r.id = call[w].id
                       /\ r.kind \in IncidentKinds => Cause(r) \in pending
  <1>5. \A kind \in {"detection", "opened", "flagged", "response", "reaction", "answered"} :
          own(As(kind, a))
    BY <1>2, <1>4 DEF Kinds, EventKinds, IncidentKinds
  <1>6. \A S, c : \A r \in IncidentIn(S, c) : r.kind \in IncidentKinds
    BY DEF IncidentIn
  <1> DEFINE ofCall(rows) == \A r \in rows : r.kind \in IncidentKinds \/ r.id = call[w].id
  <1>7. /\ mem \subseteq mem' /\ \A r \in mem' : r \in mem \/ own(r)
        /\ \E rows, next : next \in labels /\ ofCall(rows) /\ Attempts(w, rows, next)
    <2>1. CASE EmitDetection(w)
      <3>1. /\ mem' = mem \cup {As("detection", a)}
            /\ Persist(w, {As("detection", a)}, "register_alert")
        BY <2>1 DEF EmitDetection, DurInv, Inv, TypeOK
      <3> QED
        BY <1>5, <3>1 DEF Attempts, InAlertLoop
    <2>2. CASE RegisterAlert(w)
      <3>1. alert' = alert
        BY <2>2 DEF RegisterAlert
      <3>2. CASE Flag(w)
        <4>1. /\ mem' = mem \cup {As("flagged", a)}
              /\ Persist(w, IncidentIn(mem \cup {As("flagged", a)}, a.corr), "update_risk")
          BY <3>1, <3>2 DEF Flag
        <4> QED
          BY <1>5, <1>6, <4>1 DEF Attempts, InAlertLoop
      <3>3. CASE mem' = mem \cup {As("opened", a)} /\ Persist(w, {As("opened", a)}, "flag_alert")
        BY <1>5, <3>3 DEF Attempts, InAlertLoop
      <3>4. CASE mem' = mem /\ Skip(w, "update_risk")
        <4>1. Attempts(w, {}, "update_risk") /\ "update_risk" \in labels
          BY <3>4 DEF Attempts, InAlertLoop
        <4> QED
          BY <3>4, <4>1
      <3> QED
        BY <2>2, <3>1, <3>2, <3>3, <3>4 DEF RegisterAlert
    <2>3. CASE FlagAlert(w)
      <3>1. /\ mem' = mem \cup {As("flagged", a)}
            /\ Persist(w, IncidentIn(mem \cup {As("flagged", a)}, a.corr), "update_risk")
        BY <2>3 DEF FlagAlert, Flag, frame
      <3> QED
        BY <1>5, <1>6, <3>1 DEF Attempts, InAlertLoop
    <2>4. CASE UpdateRisk(w)
      <3> DEFINE rows == IncidentsOf(mem, alert[w].actor)
      <3>1. ofCall(rows)
        BY <1>6 DEF IncidentsOf
      <3>2. mem' = mem /\ Attempts(w, rows, "execute") /\ "execute" \in labels
        BY <2>4 DEF UpdateRisk, Attempts, InAlertLoop
      <3> HIDE DEF rows
      <3> QED
        BY <3>1, <3>2
    <2>5. CASE Execute(w)
      <3>1. alert' = alert
        BY <2>5 DEF Execute, frame
      <3>2. \/ /\ mem' = mem \cup {As("response", a)}
               /\ Persist(w, {As("response", a)}, "response_event")
            \/ mem' = mem /\ Skip(w, AfterAlert(w))
        BY <2>5, <3>1 DEF Execute
      <3>3. CASE mem' = mem /\ Skip(w, AfterAlert(w))
        <4>1. Attempts(w, {}, AfterAlert(w))
          BY <3>3 DEF Attempts
        <4> QED
          BY <1>3, <3>3, <4>1
      <3> QED
        BY <1>5, <3>2, <3>3 DEF Attempts, InAlertLoop
    <2>6. CASE EmitResponse(w)
      <3>1. /\ mem' = mem \cup {As("reaction", a)}
            /\ Persist(w, {As("reaction", a)}, "register_response")
        BY <2>6 DEF EmitResponse, frame
      <3> QED
        BY <1>5, <3>1 DEF Attempts, InAlertLoop
    <2>7. CASE RegisterResponse(w)
      <3>1. alert' = alert
        BY <2>7 DEF RegisterResponse, frame
      <3>2. \/ /\ mem' = mem \cup {As("answered", a)}
               /\ Persist(w, IncidentIn(mem \cup {As("answered", a)}, a.corr), AfterAlert(w))
            \/ mem' = mem /\ Skip(w, AfterAlert(w))
        BY <2>7, <3>1 DEF RegisterResponse
      <3>3. CASE mem' = mem /\ Skip(w, AfterAlert(w))
        <4>1. Attempts(w, {}, AfterAlert(w))
          BY <3>3 DEF Attempts
        <4> QED
          BY <1>3, <3>3, <4>1
      <3> QED
        BY <1>3, <1>5, <1>6, <3>2, <3>3 DEF Attempts
    <2> QED
      BY <2>1, <2>2, <2>3, <2>4, <2>5, <2>6, <2>7
  <1>8. PICK rows, next : next \in labels /\ ofCall(rows) /\ Attempts(w, rows, next)
    BY <1>7
  <1>9. next \notin Outside
    BY <1>8 DEF InAlertLoop, After, Outside
  <1>10. /\ disk' = disk /\ pending \subseteq pending' /\ pending' \subseteq pending \cup rows
         /\ pc'[w] \notin Outside /\ (faults # 0 => faults' # 0)
    BY <1>1, <1>8, <1>9, AttemptEnters
  <1>11. \A b \in todo'[w] : b.id = call[w].id
    BY <1>1, <1>2 DEF EntriesInv, CallsAreNew
  <1> QED
    BY <1>1, <1>2, <1>7, <1>8, <1>10, <1>11 DEF Enters

(* Before the transaction: a new call has a new identity, and nothing is   *)
(* on the connection.                                                      *)
LEMMA StartingEntries ==
  ASSUME DurInv, EntriesInv, NEW w \in Workers, Alone(w), Submit(w) \/ Begin(w) \/ Open(w)
  PROVE  EntriesInv'
  <1>1. /\ pc[w] \in Outside /\ mem' = mem /\ disk' = disk /\ todo' = todo /\ todo[w] = {}
    BY DEF Submit, Begin, Open, Outside, memory, frame, DurInv, CallsInProgress
  <1>2. pending = {} /\ pending' = {}
    BY <1>1, OthersOut DEF Submit, Begin, Open, DurInv, InsideHolds
  <1>3. /\ pc'[w] \in {"begin", "open", "emit", "idle"}
        /\ \A v \in Workers \ {w} : call'[v] = call[v] /\ pc'[v] = pc[v] /\ ~Running(v)
    BY DEF Submit, Begin, Open, Goto, frame, DurInv, Inv, TypeOK, Alone, Running
  <1>4. issued \subseteq issued' /\ (faults # 0 => faults' # 0)
    BY PipelineAssumption DEF Submit, Begin, Open, DurInv, Inv, TypeOK
  <1>5. Running(w)' => /\ call'[w].id \in issued'
                       /\ \A r \in disk : r.kind \notin IncidentKinds => r.id # call'[w].id
                       /\ \A r : Forgotten(r) => r.id # call'[w].id
    <2>1. CASE Submit(w)
      <3>1. PICK c \in Call : c.id \notin issued /\ call'[w] = c /\ issued' = issued \cup {c.id}
        BY <2>1 DEF Submit, DurInv, Inv, TypeOK
      <3> QED
        BY <3>1 DEF EntriesInv, CallsAreNew, Forgotten, DurInv, Inv, DurableIsKnown
    <2>2. CASE (Begin(w) \/ Open(w)) /\ Running(w)'
      <3>1. Running(w) /\ call' = call /\ issued' = issued
        BY <2>2 DEF Begin, Open, frame, Running, Goto, DurInv, Inv, TypeOK
      <3>2. /\ call[w].id \in issued /\ \A r : Forgotten(r) => r.id # call[w].id
        BY <3>1 DEF EntriesInv, CallsAreNew, Forgotten, Running
      <3> QED
        BY <3>1, <3>2 DEF EntriesInv, CallsAreNew
    <2> QED
      BY <2>1, <2>2
  <1>6. CallsAreNew'
    <2>1. \A r \in mem' : r.id \in issued'
      BY <1>1, <1>4 DEF EntriesInv, CallsAreNew
    <2>2. pc'[w] # "idle" => Running(w)'
      BY <1>3 DEF Running
    <2>3. \A v \in Workers \ {w} :
            /\ ~Running(v)'
            /\ pc'[v] \in Outside
            /\ pc'[v] # "idle" => call'[v].id \in issued'
      BY <1>3, <1>4 DEF EntriesInv, CallsAreNew, Running, Outside
    <2>4. /\ \A label \in Outside : label \notin InAlertLoop
          /\ pc'[w] \notin InAlertLoop
      BY <1>3 DEF InAlertLoop, Outside
    <2>5. \A v \in Workers :
            /\ pc'[v] # "idle" => call'[v].id \in issued'
            /\ pc'[v] \notin InAlertLoop
      BY <1>5, <2>2, <2>3, <2>4
    <2>6. \A v \in Workers : pc'[v] \notin Outside => todo'[v] = {}
      BY <1>1, <2>3
    <2>7. \A v \in Workers : Running(v)' =>
            /\ \A r \in disk' : r.kind \notin IncidentKinds => r.id # call'[v].id
            /\ \A r \in pending' : r.kind \notin IncidentKinds => r.id = call'[v].id
      BY <1>1, <1>2, <1>5, <2>3
    <2> QED
      BY <2>1, <2>5, <2>6, <2>7 DEF CallsAreNew
  <1>7. ASSUME NEW r, Forgotten(r) PROVE Forgotten(r)'
    <2>1. \A v \in Workers : Running(v)' => call'[v].id # r.id
      BY <1>3, <1>5, <1>7 DEF Running
    <2> QED
      BY <1>1, <1>2, <1>4, <1>7, <2>1 DEF Forgotten
  <1> QED
    BY <1>1, <1>2, <1>6, <1>7 DEF EntriesInv, Cause

(* What is committed has its cause committed.                              *)
LEMMA CommitEntries ==
  ASSUME DurInv, EntriesInv, NEW w \in Workers, Alone(w), Commit(w)
  PROVE  EntriesInv'
  <1>1. /\ pc[w] = "commit" /\ pc[w] \notin Outside /\ txn = w /\ txn # Null
        /\ UNCHANGED <<mem, issued, call, todo, alert>>
        /\ \A v \in Workers \ {w} : pc'[v] = pc[v] /\ ~Running(v) /\ pc[v] \notin InAlertLoop
    BY PipelineAssumption
    DEF Commit, Outside, DurInv, InsideHolds, LockedOut, memory, frame, Alone, Running, InAlertLoop
  <1>2. CASE Failed(w)
    <2>1. pc'[w] = "rollback" /\ pending' = pending /\ disk' = disk /\ faults' # 0
      BY <1>2 DEF Failed, Goto, DurInv, Inv, TypeOK
    <2>2. Enters(w)
      BY <1>1, <2>1 DEF Enters, Outside, InAlertLoop, EntriesInv, CallsAreNew
    <2> QED
      BY <2>2, EntersKeeps
  <1>3. CASE CommitShared /\ Goto(w, "reply") /\ UNCHANGED faults
    <2>1. disk' = disk \cup pending /\ pending' = {} /\ pc'[w] = "reply" /\ faults' = faults
      BY <1>3 DEF CommitShared, Goto, DurInv, Inv, TypeOK
    <2>2. \A v \in Workers : ~Running(v)' /\ pc'[v] \in Outside /\ pc'[v] \notin InAlertLoop
      BY <1>1, <2>1, Zenon DEF Running, Outside, InAlertLoop, Alone
    <2>3. CallsAreNew'
      <3>1. \A v \in Workers : pc'[v] # "idle" => call'[v].id \in issued'
        BY <1>1, <2>1 DEF EntriesInv, CallsAreNew, Outside
      <3> QED
        BY <1>1, <2>2, <3>1 DEF CallsAreNew, EntriesInv
    <2>4. ASSUME NEW r, Forgotten(r) PROVE Forgotten(r)'
      BY <1>1, <2>1, <2>2, <2>4 DEF Forgotten
    <2>5. disk' \subseteq mem
      BY <2>1 DEF DurInv, Inv, DurableIsKnown
    <2> QED
      BY <1>1, <2>1, <2>3, <2>4, <2>5 DEF EntriesInv, Cause
  <1> QED
    BY <1>1, <1>2, <1>3, PipelineAssumption DEF Commit, Raises, Failed, DurInv, Inv, TypeOK

(* What the rollback takes back is the call's own, whose entries stay.     *)
LEMMA RollbackEntries ==
  ASSUME DurInv, EntriesInv, NEW w \in Workers, Alone(w), Rollback(w)
  PROVE  EntriesInv'
  <1>1. /\ pc[w] = "rollback" /\ pc[w] \notin Outside /\ Running(w)
        /\ UNCHANGED <<mem, issued, disk, faults>>
        /\ pending' = {} /\ pc'[w] = "idle" /\ todo'[w] = {}
        /\ \A v \in Workers \ {w} : /\ pc'[v] = pc[v] /\ ~Running(v) /\ call'[v] = call[v]
    BY DEF Rollback, Return, Goto, Outside, Running, DurInv, Inv, TypeOK, InsideHolds,
           LockedOut, memory, Alone
  <1>2. faults # 0
    BY <1>1 DEF DurInv, MemoryIsWritten
  <1>3. \A v \in Workers : ~Running(v)' /\ pc'[v] \in Outside /\ pc'[v] \notin InAlertLoop
    BY <1>1, Zenon DEF Running, Outside, InAlertLoop
  <1>4. CallsAreNew'
    <2>1. \A v \in Workers : pc'[v] # "idle" => call'[v].id \in issued'
      BY <1>1 DEF EntriesInv, CallsAreNew
    <2> QED
      BY <1>1, <1>3, <2>1 DEF CallsAreNew, EntriesInv
  <1>5. ASSUME NEW r, Forgotten(r) PROVE Forgotten(r)'
    BY <1>1, <1>3, <1>5 DEF Forgotten
  <1>6. ASSUME NEW r \in mem, r.kind \in IncidentKinds, Cause(r) \in pending
        PROVE  Forgotten(r)'
    <2>1. r \in Row
      BY DEF DurInv, Inv, TypeOK
    <2>2. Cause(r).id = r.id /\ Cause(r).kind \notin IncidentKinds
      BY <2>1 DEF Cause, As, Row, IncidentKinds
    <2>3. r.id = call[w].id /\ r.id \in issued
      BY <1>1, <1>6, <2>2 DEF EntriesInv, CallsAreNew
    <2>4. \A s \in disk : s.id = r.id => s.kind \in IncidentKinds
      BY <1>1, <2>3 DEF EntriesInv, CallsAreNew
    <2> QED
      BY <1>1, <1>2, <1>3, <2>3, <2>4 DEF Forgotten
  <1> QED
    BY <1>1, <1>4, <1>5, <1>6 DEF EntriesInv, Cause

(* The reply and the restart: memory and disk keep their causes.           *)
LEMMA EndingEntries ==
  ASSUME DurInv, EntriesInv,
         Restart \/ UNCHANGED vars \/ \E w \in Workers : Save(w) \/ EndBeat(w)
  PROVE  EntriesInv'
  <1>1. CASE Restart
    <2>1. /\ mem' = disk /\ disk' = disk /\ pending' = {} /\ faults' = faults
          /\ issued' = issued /\ \A w \in Workers : pc'[w] = "idle" /\ ~Running(w)'
      BY <1>1 DEF Restart, Loaded, Running
    <2>2. CallsAreNew'
      BY <2>1 DEF EntriesInv, CallsAreNew, DurInv, Inv, DurableIsKnown, Outside, InAlertLoop
    <2>3. ASSUME NEW r, Forgotten(r) PROVE Forgotten(r)'
      BY <2>1, <2>3 DEF Forgotten
    <2> QED
      BY <2>1, <2>2, <2>3 DEF EntriesInv, Cause
  <1>2. ASSUME NEW w \in Workers, Save(w) \/ EndBeat(w) PROVE EntriesInv'
    <2>1. /\ pc[w] = "reply" /\ pc'[w] = "idle" /\ UNCHANGED <<mem, pending, disk, faults, issued>>
          /\ \A v \in Workers \ {w} : /\ pc'[v] = pc[v] /\ todo'[v] = todo[v]
                                      /\ call'[v] = call[v] /\ alert'[v] = alert[v]
      BY <1>2 DEF Save, EndBeat, Return, Goto, DurInv, Inv, TypeOK, memory
    <2>2. /\ ~Running(w)' /\ pc'[w] \in Outside /\ pc'[w] \notin InAlertLoop
          /\ \A v \in Workers \ {w} : Running(v)' = Running(v)
      BY <2>1 DEF Running, Outside, InAlertLoop
    <2>3. CallsAreNew'
      BY <2>1, <2>2 DEF EntriesInv, CallsAreNew
    <2>4. ASSUME NEW r, Forgotten(r) PROVE Forgotten(r)'
      BY <2>1, <2>2, <2>4 DEF Forgotten
    <2> QED
      BY <2>1, <2>3, <2>4 DEF EntriesInv, Cause
  <1>3. CASE UNCHANGED vars
    BY <1>3 DEF vars, memory, frame, EntriesInv, CallsAreNew, Forgotten, Running, Cause
  <1> QED
    BY <1>1, <1>2, <1>3

(* Every step keeps the causes of the entries while calls do not overlap.  *)
LEMMA EntriesInvStep ==
  ASSUME DurInv, EntriesInv, OneCallAtATime, OneCallAtATime', [Next]_vars
  PROVE  EntriesInv'
  <1>1. ASSUME NEW w \in Workers, Submit(w) \/ Step(w), ~(Save(w) \/ EndBeat(w))
        PROVE  EntriesInv'
    <2>1. Alone(w)
      BY <1>1, StepsAlone DEF Step, DurInv, Inv
    <2>2. CASE Submit(w) \/ Begin(w) \/ Open(w)
      BY <2>1, <2>2, StartingEntries
    <2>3. CASE Emit(w) \/ RegisterEvent(w) \/ Evaluate(w)
      BY <2>1, <2>3, OpeningEnters, EntersKeeps
    <2>4. CASE \/ EmitDetection(w) \/ RegisterAlert(w) \/ FlagAlert(w) \/ UpdateRisk(w)
               \/ Execute(w) \/ EmitResponse(w) \/ RegisterResponse(w)
      BY <2>1, <2>4, LoopEnters, EntersKeeps
    <2> QED
      BY <1>1, <2>1, <2>2, <2>3, <2>4, CommitEntries, RollbackEntries DEF Step
  <1> QED
    BY <1>1, EndingEntries DEF Next, Step

(* The empty store has no entries.                                         *)
LEMMA InitEntries == Init => EntriesInv
  BY DEF Init, EntriesInv, CallsAreNew, Running, Outside, InAlertLoop

(* The two invariants make the calls whole.                                *)
LEMMA RowsAndEntries == DurInv /\ EntriesInv => SeparateCallsComplete
  <1> SUFFICES ASSUME DurInv, EntriesInv PROVE SeparateCallsComplete
    OBVIOUS
  <1>1. WholeAlerts
    BY DEF DurInv, RowsComplete, WholeAlerts
  <1>2. ASSUME NEW r \in Caused PROVE Cause(r) \in disk \/ LeftOver(r)
    <2>1. r \in disk /\ r \in Row /\ r.kind \notin {"event", "alert"}
      BY DEF Caused, DurInv, Inv, TypeOK
    <2>2. CASE r.kind \in IncidentKinds
      BY <2>1, <2>2 DEF EntriesInv, Forgotten, LeftOver
    <2>3. CASE r.kind \notin IncidentKinds
      <3>1. r.kind \in {"detection", "response", "reaction"}
        BY <2>1, <2>3 DEF Row, Kinds, EventKinds
      <3> QED
        BY <2>1, <3>1 DEF DurInv, RowsComplete, Cause
    <2> QED
      BY <2>2, <2>3
  <1> QED
    BY <1>1, <1>2 DEF SeparateCallsComplete

(* While calls do not overlap, and however SQLite fails and whenever the   *)
(* process stops, a durable alert has all its consequences, and only the   *)
(* incident entries of a call that was rolled back are ever durable        *)
(* without their cause.                                                    *)
THEOREM SeparateCallsAreWhole ==
  Spec /\ []OneCallAtATime => []SeparateCallsComplete
  <1>1. /\ /\ DurInv /\ EntriesInv /\ OneCallAtATime /\ OneCallAtATime' /\ [Next]_vars
           => DurInv' /\ EntriesInv'
        /\ Init => DurInv /\ EntriesInv
    BY InitDurable, InitEntries, DurInvStep, EntriesInvStep
  <1>2. DurInv /\ EntriesInv => SeparateCallsComplete
    BY RowsAndEntries
  <1> QED
    BY <1>1, <1>2, PTL DEF Spec

(* While calls do not overlap and SQLite does not fail they keep the       *)
(* promise of process() in full: no crash leaves an alert on disk without  *)
(* its consequences, nor any of these, in an incident or elsewhere,        *)
(* without the alert.                                                      *)
THEOREM SeparateCallsAreAtomic ==
  Spec /\ []OneCallAtATime /\ [](faults = 0) => []DurableCallsComplete
  <1>1. SeparateCallsComplete /\ faults = 0 => DurableCallsComplete
    BY DEF SeparateCallsComplete, DurableCallsComplete, LeftOver
  <1> QED
    BY <1>1, SeparateCallsAreWhole, PTL

(* The operational-state snapshot of calls that do not overlap never says  *)
(* more than the rows, while SQLite does not fail.                         *)
THEOREM SeparateSnapshotsLag ==
  Spec /\ []OneCallAtATime => []SnapshotJustified
  <1>1. /\ DurInv /\ OneCallAtATime /\ OneCallAtATime' /\ [Next]_vars => DurInv'
        /\ Init => DurInv
    BY InitDurable, DurInvStep
  <1>2. DurInv => SnapshotJustified
    BY DEF DurInv
  <1> QED
    BY <1>1, <1>2, PTL DEF Spec

(* With one worker calls do not overlap: in every behaviour, and with no   *)
(* hypothesis on it, alerts are durable whole, all that is durable without *)
(* its cause is an incident entry of a call that was rolled back, and the  *)
(* snapshot says no more than the rows.                                    *)
THEOREM OneWorkerIsWhole ==
  ASSUME \A v, w \in Workers : v = w
  PROVE  Spec => []SeparateCallsComplete /\ []SnapshotJustified
  <1>1. OneCallAtATime
    BY DEF OneCallAtATime
  <1> QED
    BY <1>1, SeparateCallsAreWhole, SeparateSnapshotsLag, PTL

-----------------------------------------------------------------------------
(* A connection that no call holds                                         *)

(* No persist_* call writes anything on another worker's connection.       *)
LEMMA OthersWriteNothing ==
  ASSUME NEW w \in Workers, txn \notin {w, Null},
         \/ Emit(w) \/ RegisterEvent(w) \/ Evaluate(w) \/ EmitDetection(w)
         \/ RegisterAlert(w) \/ FlagAlert(w) \/ UpdateRisk(w) \/ Execute(w)
         \/ EmitResponse(w) \/ RegisterResponse(w)
  PROVE  disk' = disk
  <1>1. ASSUME NEW rows, NEW next, Persist(w, rows, next) \/ Skip(w, next)
        PROVE  disk' = disk
    BY <1>1 DEF Persist, Written, Raises, Skip
  <1>2. CASE Emit(w)
    BY <1>1, <1>2 DEF Emit
  <1>3. CASE RegisterEvent(w)
    BY <1>1, <1>3 DEF RegisterEvent
  <1>4. CASE Evaluate(w)
    BY <1>1, <1>4 DEF Evaluate
  <1>5. CASE EmitDetection(w)
    BY <1>1, <1>5 DEF EmitDetection
  <1>6. CASE RegisterAlert(w)
    BY <1>1, <1>6 DEF RegisterAlert, Flag
  <1>7. CASE FlagAlert(w)
    BY <1>1, <1>7 DEF FlagAlert, Flag
  <1>8. CASE UpdateRisk(w)
    BY <1>1, <1>8 DEF UpdateRisk
  <1>9. CASE Execute(w)
    BY <1>1, <1>9 DEF Execute
  <1>10. CASE EmitResponse(w)
    BY <1>1, <1>10 DEF EmitResponse
  <1>11. CASE RegisterResponse(w)
    BY <1>1, <1>11 DEF RegisterResponse
  <1> QED
    BY <1>2, <1>3, <1>4, <1>5, <1>6, <1>7, <1>8, <1>9, <1>10, <1>11

(* What a step must leave as it is while the connection is left over.      *)
StillLeaked == disk' = disk /\ txn' = txn /\ Leaked'
ComesNot(w) == pc'[w] \notin {"open", "reply"} /\ OthersWait(w)

(* A worker that another's connection is in the way of.                    *)
LEMMA OthersAreRefused ==
  ASSUME TypeOK, Leaked, NEW w \in Workers, w # txn, Submit(w) \/ Step(w)
  PROVE  StillLeaked /\ ComesNot(w)
  <1>1. txn \notin {w, Null} /\ pc[w] # "open"
    BY DEF Leaked
  <1>2. (disk' = disk /\ txn' = txn /\ ComesNot(w)) => StillLeaked
    BY DEF TypeOK, StillLeaked, ComesNot, Leaked, OthersWait
  <1>3. ASSUME NEW label, Goto(w, label), label \notin {"open", "reply"}
        PROVE  ComesNot(w)
    BY <1>3 DEF TypeOK, Goto, ComesNot, OthersWait
  <1>4. CASE Submit(w)
    BY <1>2, <1>3, <1>4 DEF Submit
  <1>5. CASE Begin(w)
    BY <1>1, <1>2, <1>3, <1>5 DEF Begin
  <1>6. CASE Open(w)
    BY <1>1, <1>6 DEF Open
  <1>7. CASE \/ Emit(w) \/ RegisterEvent(w) \/ Evaluate(w) \/ EmitDetection(w)
             \/ RegisterAlert(w) \/ FlagAlert(w) \/ UpdateRisk(w) \/ Execute(w)
             \/ EmitResponse(w) \/ RegisterResponse(w)
    <2>1. Inside(w)
      BY <1>7, StepsInside
    <2>2. disk' = disk
      BY <1>1, <1>7, OthersWriteNothing
    <2> QED
      BY <1>2, <2>1, <2>2 DEF Inside, ComesNot, Outside
  <1>8. CASE Commit(w)
    BY <1>1, <1>2, <1>3, <1>8 DEF Commit, Raises
  <1>9. CASE Rollback(w)
    BY <1>1, <1>2, <1>3, <1>9 DEF Rollback, Return
  <1>10. CASE Save(w) \/ EndBeat(w)
    BY <1>2, <1>3, <1>10 DEF Save, EndBeat, Return
  <1> QED
    BY <1>4, <1>5, <1>6, <1>7, <1>8, <1>9, <1>10 DEF Step

(* When BEGIN IMMEDIATE has raised outside the try of transaction(), every *)
(* other thread is refused: whatever it does, nothing is committed and no  *)
(* call returns, until that one thread serves again or the process ends.   *)
THEOREM LeakStopsWrites == Spec => LeaksOnlyBlock
  <1> DEFINE Blocked == /\ disk' = disk
                        /\ \A w \in Workers : pc[w] # "reply" => pc'[w] # "reply"
                        /\ Leaked' \/ pc'[txn] = "begin" \/ txn' = Null
  <1>1. TypeOK /\ [Next]_vars => [Leaked => Blocked]_vars
    <2> SUFFICES ASSUME TypeOK, Next, Leaked
                 PROVE  Blocked
      OBVIOUS
    <2>1. txn \in Workers /\ pc[txn] = "idle"
      BY DEF TypeOK, Leaked
    <2>2. CASE Submit(txn) \/ Step(txn)
      <3>1. Submit(txn)
        BY <2>1, <2>2 DEF Step, Begin, Open, Emit, RegisterEvent, Evaluate, EmitDetection,
               RegisterAlert, FlagAlert, UpdateRisk, Execute, EmitResponse,
               RegisterResponse, Commit, Rollback, Save, EndBeat
      <3> QED
        BY <2>1, <3>1 DEF Submit, Goto, TypeOK
    <2>3. ASSUME NEW w \in Workers, w # txn, Submit(w) \/ Step(w)
          PROVE  Blocked
      <3>1. StillLeaked /\ ComesNot(w)
        BY <2>3, OthersAreRefused
      <3> QED
        BY <3>1 DEF StillLeaked, ComesNot, OthersWait
    <2>4. CASE Restart
      BY <2>4 DEF Restart
    <2> QED
      BY <2>2, <2>3, <2>4 DEF Next
  <1> QED
    BY <1>1, TypeCorrect, ConnectionNeverLeaks, PTL DEF Spec, LeaksOnlyBlock
=============================================================================
