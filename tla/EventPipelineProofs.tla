------------------------ MODULE EventPipelineProofs ------------------------
(***************************************************************************)
(* What holds of EventPipeline for any number of workers, calls, actors    *)
(* and SQLite errors.                                                      *)
(***************************************************************************)
EXTENDS EventPipeline, TLAPS

(* A worker past the start of its call has a call; inside the alert loop   *)
(* it has an alert, with a rule.                                           *)
InAlertLoop == {"register_alert", "flag_alert", "update_risk", "execute",
                "response_event", "register_response"}
FramesFilled ==
  \A w \in Workers :
    /\ pc[w] # "idle" => call[w] \in Call
    /\ pc[w] \in InAlertLoop => alert[w] \in Row /\ alert[w].rule \in Rules
    /\ \A a \in todo[w] : a.rule \in Rules

(* Every alert in the store was recorded under its signature.              *)
SignaturesCoverAlerts ==
  \A a \in AlertsIn(mem) : a.rule \in Rules /\ Sig(a) \in sigs

Inv == /\ TypeOK /\ FramesFilled /\ SignaturesCoverAlerts
       /\ AlertOncePerSignature /\ DurableIsKnown

(* Whatever rule a playbook is asked for, it applies known measures.       *)
LEMMA MeasuresAreMeasures == \A r : Measures(r) \subseteq Measure
  BY DEF Measures, Measure

(* A row built from a call is well typed and keeps its kind and rule.      *)
LEMMA RowOfIsRow ==
  ASSUME NEW kind \in Kinds, NEW c \in Call, NEW r \in Rules \cup {Null}
  PROVE  /\ RowOf(kind, c, r) \in Row
         /\ RowOf(kind, c, r).kind = kind /\ RowOf(kind, c, r).rule = r
  BY DEF RowOf, Row, Call

(* A row derived from a row is one, under the same signature.              *)
LEMMA AsIsRow ==
  ASSUME NEW kind \in Kinds, NEW a \in Row
  PROVE  /\ As(kind, a) \in Row
         /\ As(kind, a).kind = kind
         /\ Sig(As(kind, a)) = Sig(a)
  BY DEF As, Row, Sig

(* The signature of an alert is a (rule, actor, correlation) triple.       *)
LEMMA SigIsTriple ==
  ASSUME NEW a \in Row, a.rule \in Rules
  PROVE  Sig(a) \in Rules \X Actors \X Correlations
  BY DEF Sig, Row

(* The empty store satisfies the invariant.                                *)
LEMMA InitInv == Init => Inv
  <1> SUFFICES ASSUME Init PROVE Inv
    OBVIOUS
  <1> USE DEF Init
  <1>1. TypeOK
    BY PipelineAssumption DEF TypeOK, PcValues
  <1>2. FramesFilled /\ SignaturesCoverAlerts /\ AlertOncePerSignature /\ DurableIsKnown
    BY DEF FramesFilled, SignaturesCoverAlerts, AlertOncePerSignature,
           DurableIsKnown, AlertsIn, InAlertLoop
  <1> QED
    BY <1>1, <1>2 DEF Inv

(* A step that writes rows other than alerts, and only rows it has put in  *)
(* memory, keeps the alert invariants.                                     *)
LEMMA NoNewAlert ==
  ASSUME Inv, TypeOK', FramesFilled', UNCHANGED sigs,
         mem \subseteq mem', AlertsIn(mem') = AlertsIn(mem),
         disk' \cup pending' \subseteq mem'
  PROVE  Inv'
  BY DEF Inv, SignaturesCoverAlerts, AlertOncePerSignature, DurableIsKnown, AlertsIn

(* The effect on types of a step that puts rows in memory and writes some. *)
WroteRows ==
  /\ mem' \subseteq Row /\ pending' \subseteq Row /\ disk' \subseteq Row
  /\ pc' \in [Workers -> PcValues]
  /\ faults' \in 0..MaxFaults

(* Entering an alert into its incident writes well-typed rows.             *)
LEMMA FlagWrites ==
  ASSUME TypeOK, NEW w \in Workers, alert[w] \in Row, Flag(w)
  PROVE  WroteRows
  <1>1. As("flagged", alert[w]) \in Row
    BY AsIsRow DEF Kinds, IncidentKinds
  <1>2. mem' \subseteq Row /\ Persist(w, IncidentIn(mem', alert[w].corr), "update_risk")
    BY <1>1 DEF Flag, TypeOK
  <1> QED
    BY <1>2, PipelineAssumption
    DEF WroteRows, TypeOK, IncidentIn, Persist, Written, Raises, Goto, PcValues

(* Every step of process(), and a restart, keeps the types.                *)
LEMMA TypeOKStep == Inv /\ [Next]_vars => TypeOK'
  <1> SUFFICES ASSUME Inv, [Next]_vars PROVE TypeOK'
    OBVIOUS
  <1> USE PipelineAssumption DEF Inv, TypeOK
  <1>1. ASSUME NEW w \in Workers, Submit(w) PROVE TypeOK'
    <2>1. PICK c \in Call : /\ call' = [call EXCEPT ![w] = c]
                            /\ issued' = issued \cup {c.id}
      BY <1>1 DEF Submit
    <2>2. c.id \in EventIds
      BY DEF Call
    <2> QED
      BY <1>1, <2>1, <2>2 DEF Submit, Goto, PcValues, memory, saved
  <1>2. ASSUME NEW w \in Workers, Begin(w) PROVE TypeOK'
    BY <1>2 DEF Begin, Persist, Written, Raises, Skip, Goto, PcValues, memory, saved, frame
  <1>3. ASSUME NEW w \in Workers, Open(w) PROVE TypeOK'
    BY <1>3 DEF Open, Persist, Written, Raises, Skip, Goto, PcValues, memory, saved, frame
  <1>4. ASSUME NEW w \in Workers, Emit(w) PROVE TypeOK'
    BY <1>4, RowOfIsRow DEF Emit, Persist, Written, Raises, Skip, Goto, PcValues, memory, saved, frame, FramesFilled, Kinds, EventKinds, IncidentKinds, IncidentIn
  <1>5. ASSUME NEW w \in Workers, RegisterEvent(w) PROVE TypeOK'
    BY <1>5, RowOfIsRow DEF RegisterEvent, Persist, Written, Raises, Skip, Goto, PcValues, memory, saved, frame, FramesFilled, Kinds, EventKinds, IncidentKinds, IncidentIn
  <1>6. ASSUME NEW w \in Workers, Evaluate(w) PROVE TypeOK'
    <2>1. call[w] \in Call
      BY <1>6 DEF Evaluate, FramesFilled
    <2>2. PICK matched \in SUBSET MatchableBy(call[w].type) :
            LET raised == {RowOf("alert", call[w], r) : r \in matched}
                novel  == Unseen(raised) IN
              /\ sigs' = sigs \cup {Sig(a) : a \in raised}
              /\ mem' = mem \cup novel
              /\ todo' = [todo EXCEPT ![w] = novel]
              /\ IF novel = {} THEN Skip(w, "commit")
                               ELSE Persist(w, novel, "detection_event")
      BY <1>6 DEF Evaluate
    <2> DEFINE raised == {RowOf("alert", call[w], r) : r \in matched}
               novel  == Unseen(raised)
    <2>3. raised \subseteq Row /\ \A a \in raised : a.rule \in Rules
      BY <2>1, RowOfIsRow DEF MatchableBy, Kinds
    <2>4. {Sig(a) : a \in raised} \subseteq Rules \X Actors \X Correlations
      BY <2>3, SigIsTriple
    <2>5. novel \subseteq Row
      BY <2>3 DEF Unseen
    <2> HIDE DEF raised, novel
    <2>6. /\ mem' \subseteq Row /\ sigs' \subseteq Rules \X Actors \X Correlations
          /\ todo' \in [Workers -> SUBSET Row]
      BY <2>2, <2>4, <2>5 DEF raised, novel
    <2>7. /\ pending' \subseteq Row /\ disk' \subseteq Row /\ pc' \in [Workers -> PcValues]
          /\ faults' \in 0..MaxFaults
      <3>1. Skip(w, "commit") \/ Persist(w, novel, "detection_event")
        BY <2>2 DEF raised, novel
      <3> QED
        BY <2>5, <3>1 DEF Persist, Written, Raises, Skip, Goto, PcValues
    <2> QED
      BY <1>6, <2>6, <2>7 DEF Evaluate, memory, saved
  <1>7. ASSUME NEW w \in Workers, EmitDetection(w) PROVE TypeOK'
    BY <1>7, AsIsRow, MeasuresAreMeasures DEF EmitDetection, Persist, Written, Raises, Skip, Goto, PcValues, memory, saved, frame, FramesFilled, InAlertLoop, Kinds, EventKinds, IncidentKinds, IncidentIn, AfterAlert
  <1>8. ASSUME NEW w \in Workers, RegisterAlert(w) PROVE TypeOK'
    <2>1. alert[w] \in Row
      BY <1>8 DEF RegisterAlert, FramesFilled, InAlertLoop
    <2>2. As("opened", alert[w]) \in Row
      BY <2>1, AsIsRow DEF Kinds, IncidentKinds
    <2>3. /\ attached' \in [Workers -> BOOLEAN]
          /\ \/ Flag(w)
             \/ /\ mem' = mem \cup {As("opened", alert[w])}
                /\ Persist(w, {As("opened", alert[w])}, "flag_alert")
             \/ UNCHANGED mem /\ Skip(w, "update_risk")
      <3>1. attached' \in [Workers -> BOOLEAN]
        BY <1>8 DEF RegisterAlert, Exists
      <3> QED
        BY <1>8, <3>1 DEF RegisterAlert
    <2>4. WroteRows
      BY <2>1, <2>2, <2>3, FlagWrites DEF WroteRows, Persist, Written, Raises, Skip, Goto, PcValues
    <2> QED
      BY <1>8, <2>3, <2>4 DEF RegisterAlert, WroteRows, saved
  <1>19. ASSUME NEW w \in Workers, FlagAlert(w) PROVE TypeOK'
    <2>1. alert[w] \in Row
      BY <1>19 DEF FlagAlert, FramesFilled, InAlertLoop
    <2>2. WroteRows
      BY <1>19, <2>1, FlagWrites DEF FlagAlert
    <2> QED
      BY <1>19, <2>2 DEF FlagAlert, WroteRows, saved, frame
  <1>9. ASSUME NEW w \in Workers, UpdateRisk(w) PROVE TypeOK'
    BY <1>9 DEF UpdateRisk, Persist, Written, Raises, Skip, Goto, PcValues, memory, saved, frame, FramesFilled, InAlertLoop, IncidentsOf, IncidentIn
  <1>10. ASSUME NEW w \in Workers, Execute(w) PROVE TypeOK'
    <2> DEFINE a == alert[w]
    <2>1. a \in Row
      BY <1>10 DEF Execute, FramesFilled, InAlertLoop
    <2>2. AfterAlert(w) \in PcValues
      BY DEF AfterAlert, PcValues
    <2>3. CASE HasPlaybook(a.rule)
      <3>1. As("response", a) \in Row
        BY <2>1, AsIsRow DEF Kinds
      <3>2. /\ contained' = contained \cup (Measures(a.rule) \X {a.actor})
            /\ mem' = mem \cup {As("response", a)}
            /\ Persist(w, {As("response", a)}, "response_event")
        BY <1>10, <2>3 DEF Execute
      <3>3. contained' \subseteq Measure \X Actors
        BY <2>1, <3>2, MeasuresAreMeasures DEF Row
      <3> HIDE DEF a
      <3>4. /\ mem' \subseteq Row /\ pending' \subseteq Row /\ disk' \subseteq Row
            /\ pc' \in [Workers -> PcValues] /\ faults' \in 0..MaxFaults
        BY <3>1, <3>2 DEF Persist, Written, Raises, Goto, PcValues
      <3> QED
        BY <1>10, <3>3, <3>4 DEF Execute, saved, frame
    <2>4. CASE ~HasPlaybook(a.rule)
      <3>1. UNCHANGED <<contained, mem>> /\ Skip(w, AfterAlert(w))
        BY <1>10, <2>4 DEF Execute
      <3> QED
        BY <1>10, <2>2, <3>1 DEF Execute, Skip, Goto, saved, frame
    <2> QED
      BY <2>3, <2>4
  <1>11. ASSUME NEW w \in Workers, EmitResponse(w) PROVE TypeOK'
    BY <1>11, AsIsRow, MeasuresAreMeasures DEF EmitResponse, Persist, Written, Raises, Skip, Goto, PcValues, memory, saved, frame, FramesFilled, InAlertLoop, Kinds, EventKinds, IncidentKinds, IncidentIn, AfterAlert
  <1>12. ASSUME NEW w \in Workers, RegisterResponse(w) PROVE TypeOK'
    BY <1>12, AsIsRow, MeasuresAreMeasures DEF RegisterResponse, Persist, Written, Raises, Skip, Goto, PcValues, memory, saved, frame, FramesFilled, InAlertLoop, Kinds, EventKinds, IncidentKinds, IncidentIn, AfterAlert
  <1>13. ASSUME NEW w \in Workers, Commit(w) PROVE TypeOK'
    BY <1>13 DEF Commit, CommitShared, Persist, Written, Raises, Skip, Goto, PcValues, memory, saved, frame
  <1>14. ASSUME NEW w \in Workers, Rollback(w) PROVE TypeOK'
    BY <1>14 DEF Rollback, Persist, Written, Raises, Skip, Goto, PcValues, memory, saved, frame, Return
  <1>15. ASSUME NEW w \in Workers, Save(w) PROVE TypeOK'
    BY <1>15 DEF Save, Persist, Written, Raises, Skip, Goto, PcValues, memory, saved, frame, Return
  <1>16. ASSUME NEW w \in Workers, EndBeat(w) PROVE TypeOK'
    BY <1>16 DEF EndBeat, Persist, Written, Raises, Skip, Goto, PcValues, memory, saved, frame, Return
  <1>17. CASE Restart
    BY <1>17, SigIsTriple DEF Restart, Loaded, RebuiltSignatures, saved, SignaturesCoverAlerts, DurableIsKnown, AlertsIn, PcValues
  <1>18. CASE UNCHANGED vars
    BY <1>18 DEF vars, memory, saved, frame
  <1> QED
    BY <1>1, <1>2, <1>3, <1>4, <1>5, <1>6, <1>7, <1>8, <1>9, <1>10, <1>11, <1>12, <1>13, <1>14, <1>15, <1>16, <1>17, <1>18, <1>19 DEF Next, Step

(* A worker never reaches a step that needs a call or an alert it has not. *)
LEMMA FramesFilledStep == Inv /\ [Next]_vars => FramesFilled'
  <1> SUFFICES ASSUME Inv, [Next]_vars PROVE FramesFilled'
    OBVIOUS
  <1> USE DEF Inv, TypeOK, FramesFilled, InAlertLoop
  <1>1. ASSUME NEW w \in Workers, Submit(w) PROVE FramesFilled'
    BY <1>1 DEF Submit, Persist, Written, Raises, Skip, Goto, PcValues, memory, saved, frame
  <1>2. ASSUME NEW w \in Workers, Begin(w) PROVE FramesFilled'
    BY <1>2 DEF Begin, Persist, Written, Raises, Skip, Goto, PcValues, memory, saved, frame
  <1>3. ASSUME NEW w \in Workers, Open(w) PROVE FramesFilled'
    BY <1>3 DEF Open, Persist, Written, Raises, Skip, Goto, PcValues, memory, saved, frame
  <1>4. ASSUME NEW w \in Workers, Emit(w) PROVE FramesFilled'
    BY <1>4 DEF Emit, Persist, Written, Raises, Skip, Goto, PcValues, memory, saved, frame
  <1>5. ASSUME NEW w \in Workers, RegisterEvent(w) PROVE FramesFilled'
    BY <1>5 DEF RegisterEvent, Persist, Written, Raises, Skip, Goto, PcValues, memory, saved, frame
  <1>6. ASSUME NEW w \in Workers, Evaluate(w) PROVE FramesFilled'
    BY <1>6, RowOfIsRow DEF Evaluate, Unseen, Persist, Written, Raises, Skip, Goto, PcValues, memory, saved, frame, Kinds, MatchableBy
  <1>7. ASSUME NEW w \in Workers, EmitDetection(w) PROVE FramesFilled'
    BY <1>7 DEF EmitDetection, Persist, Written, Raises, Skip, Goto, PcValues, memory, saved, frame
  <1>8. ASSUME NEW w \in Workers, RegisterAlert(w) PROVE FramesFilled'
    BY <1>8 DEF RegisterAlert, Flag, Persist, Written, Raises, Skip, Goto, PcValues, memory, saved, frame
  <1>19. ASSUME NEW w \in Workers, FlagAlert(w) PROVE FramesFilled'
    BY <1>19 DEF FlagAlert, Flag, Persist, Written, Raises, Skip, Goto, PcValues, memory, saved, frame
  <1>9. ASSUME NEW w \in Workers, UpdateRisk(w) PROVE FramesFilled'
    BY <1>9 DEF UpdateRisk, Persist, Written, Raises, Skip, Goto, PcValues, memory, saved, frame
  <1>10. ASSUME NEW w \in Workers, Execute(w) PROVE FramesFilled'
    BY <1>10 DEF Execute, Persist, Written, Raises, Skip, Goto, PcValues, memory, saved, frame, AfterAlert
  <1>11. ASSUME NEW w \in Workers, EmitResponse(w) PROVE FramesFilled'
    BY <1>11 DEF EmitResponse, Persist, Written, Raises, Skip, Goto, PcValues, memory, saved, frame
  <1>12. ASSUME NEW w \in Workers, RegisterResponse(w) PROVE FramesFilled'
    BY <1>12 DEF RegisterResponse, Persist, Written, Raises, Skip, Goto, PcValues, memory, saved, frame, AfterAlert
  <1>13. ASSUME NEW w \in Workers, Commit(w) PROVE FramesFilled'
    BY <1>13 DEF Commit, CommitShared, Persist, Written, Raises, Skip, Goto, PcValues, memory, saved, frame
  <1>14. ASSUME NEW w \in Workers, Rollback(w) PROVE FramesFilled'
    BY <1>14 DEF Rollback, Persist, Written, Raises, Skip, Goto, PcValues, memory, saved, frame, Return
  <1>15. ASSUME NEW w \in Workers, Save(w) PROVE FramesFilled'
    BY <1>15 DEF Save, Persist, Written, Raises, Skip, Goto, PcValues, memory, saved, frame, Return
  <1>16. ASSUME NEW w \in Workers, EndBeat(w) PROVE FramesFilled'
    BY <1>16 DEF EndBeat, Persist, Written, Raises, Skip, Goto, PcValues, memory, saved, frame, Return
  <1>17. CASE Restart
    BY <1>17 DEF Restart, Loaded, RebuiltSignatures
  <1>18. CASE UNCHANGED vars
    BY <1>18 DEF vars, memory, saved, frame
  <1> QED
    BY <1>1, <1>2, <1>3, <1>4, <1>5, <1>6, <1>7, <1>8, <1>9, <1>10, <1>11, <1>12, <1>13, <1>14, <1>15, <1>16, <1>17, <1>18, <1>19 DEF Next, Step

(* The effect of a step on rows, but for evaluate and a restart: memory     *)
(* only grows, gains no alert, and holds whatever is written.              *)
GrowsQuietly ==
  /\ UNCHANGED sigs
  /\ mem \subseteq mem'
  /\ AlertsIn(mem') = AlertsIn(mem)
  /\ disk' \cup pending' \subseteq mem'
  /\ disk \subseteq disk'

(* Every step of a worker but evaluate is quiet in that sense.             *)
LEMMA QuietSteps ==
  ASSUME Inv, NEW w \in Workers, Submit(w) \/ Step(w), ~Evaluate(w)
  PROVE  GrowsQuietly
  <1> USE DEF Inv, TypeOK, FramesFilled, InAlertLoop, DurableIsKnown, GrowsQuietly, AlertsIn
  <1>1. CASE Submit(w)
    BY <1>1 DEF Submit, Persist, Written, Raises, Skip, Goto, PcValues, memory, saved, frame
  <1>2. CASE Begin(w)
    BY <1>2 DEF Begin, Persist, Written, Raises, Skip, Goto, PcValues, memory, saved, frame
  <1>3. CASE Open(w)
    BY <1>3 DEF Open, Persist, Written, Raises, Skip, Goto, PcValues, memory, saved, frame
  <1>4. CASE Emit(w)
    BY <1>4, RowOfIsRow DEF Emit, Persist, Written, Raises, Skip, Goto, PcValues, memory, saved, frame, Kinds, EventKinds, IncidentKinds, IncidentIn
  <1>5. CASE RegisterEvent(w)
    BY <1>5, RowOfIsRow DEF RegisterEvent, Persist, Written, Raises, Skip, Goto, PcValues, memory, saved, frame, Kinds, EventKinds, IncidentKinds, IncidentIn
  <1>6. CASE EmitDetection(w)
    BY <1>6, AsIsRow DEF EmitDetection, Persist, Written, Raises, Skip, Goto, PcValues, memory, saved, frame, Kinds, EventKinds, IncidentKinds, IncidentIn, AfterAlert
  <1>7. CASE RegisterAlert(w)
    BY <1>7, AsIsRow DEF RegisterAlert, Flag, Persist, Written, Raises, Skip, Goto, PcValues, memory, saved, frame, Kinds, EventKinds, IncidentKinds, IncidentIn, AfterAlert
  <1>16. CASE FlagAlert(w)
    BY <1>16, AsIsRow DEF FlagAlert, Flag, Persist, Written, Raises, Skip, Goto, PcValues, memory, saved, frame, Kinds, EventKinds, IncidentKinds, IncidentIn
  <1>8. CASE UpdateRisk(w)
    BY <1>8 DEF UpdateRisk, Persist, Written, Raises, Skip, Goto, PcValues, memory, saved, frame, IncidentsOf, IncidentIn
  <1>9. CASE Execute(w)
    BY <1>9, AsIsRow DEF Execute, Persist, Written, Raises, Skip, Goto, PcValues, memory, saved, frame, Kinds, EventKinds, IncidentKinds, IncidentIn, AfterAlert
  <1>10. CASE EmitResponse(w)
    BY <1>10, AsIsRow DEF EmitResponse, Persist, Written, Raises, Skip, Goto, PcValues, memory, saved, frame, Kinds, EventKinds, IncidentKinds, IncidentIn, AfterAlert
  <1>11. CASE RegisterResponse(w)
    BY <1>11, AsIsRow DEF RegisterResponse, Persist, Written, Raises, Skip, Goto, PcValues, memory, saved, frame, Kinds, EventKinds, IncidentKinds, IncidentIn, AfterAlert
  <1>12. CASE Commit(w)
    BY <1>12 DEF Commit, CommitShared, Persist, Written, Raises, Skip, Goto, PcValues, memory, saved, frame
  <1>13. CASE Rollback(w)
    BY <1>13 DEF Rollback, Persist, Written, Raises, Skip, Goto, PcValues, memory, saved, frame, Return
  <1>14. CASE Save(w)
    BY <1>14 DEF Save, Persist, Written, Raises, Skip, Goto, PcValues, memory, saved, frame, Return
  <1>15. CASE EndBeat(w)
    BY <1>15 DEF EndBeat, Persist, Written, Raises, Skip, Goto, PcValues, memory, saved, frame, Return
  <1> QED
    BY <1>1, <1>2, <1>3, <1>4, <1>5, <1>6, <1>7, <1>8, <1>9, <1>10, <1>11, <1>12, <1>13, <1>14, <1>15, <1>16 DEF Step

(* evaluate records the alerts whose signature is new, and distinct rules   *)
(* give one call distinct signatures.                                      *)
LEMMA EvaluateStep ==
  ASSUME Inv, TypeOK', NEW w \in Workers, Evaluate(w)
  PROVE  /\ SignaturesCoverAlerts' /\ AlertOncePerSignature' /\ DurableIsKnown'
         /\ disk \subseteq disk'
  <1>1. call[w] \in Call
    BY DEF Inv, FramesFilled, Evaluate
  <1>2. PICK matched \in SUBSET MatchableBy(call[w].type) :
          LET raised == {RowOf("alert", call[w], r) : r \in matched}
              novel  == Unseen(raised) IN
            /\ sigs' = sigs \cup {Sig(a) : a \in raised}
            /\ mem' = mem \cup novel
            /\ IF novel = {} THEN Skip(w, "commit")
                             ELSE Persist(w, novel, "detection_event")
    BY DEF Evaluate
  <1> DEFINE raised == {RowOf("alert", call[w], r) : r \in matched}
             novel  == Unseen(raised)
  <1>3. \A a \in raised : a.kind = "alert" /\ a.rule \in Rules
    BY <1>1, RowOfIsRow DEF MatchableBy, Kinds
  <1>4. \A a, b \in raised : Sig(a) = Sig(b) => a = b
    BY DEF RowOf, Sig
  <1> HIDE DEF raised
  <1>5. /\ sigs' = sigs \cup {Sig(a) : a \in raised}
        /\ mem' = mem \cup novel
        /\ disk \subseteq disk'
        /\ disk' \cup pending' \subseteq disk \cup pending \cup novel
    BY <1>2 DEF raised, Persist, Written, Raises, Skip
  <1>6. SignaturesCoverAlerts'
    BY <1>3, <1>5 DEF Unseen, Inv, SignaturesCoverAlerts, AlertsIn
  <1>7. AlertOncePerSignature'
    BY <1>4, <1>5 DEF Unseen, Inv, SignaturesCoverAlerts, AlertOncePerSignature, AlertsIn
  <1> QED
    BY <1>5, <1>6, <1>7 DEF Inv, DurableIsKnown

(* load() brings back a deduplicated alert table and its signatures.       *)
LEMMA RestartStep ==
  ASSUME Inv, Restart
  PROVE  /\ SignaturesCoverAlerts' /\ AlertOncePerSignature' /\ DurableIsKnown'
         /\ disk \subseteq disk'
  BY DEF Inv, Restart, Loaded, RebuiltSignatures, SignaturesCoverAlerts, AlertOncePerSignature,
         DurableIsKnown, AlertsIn

(* The invariant is inductive, and no step takes a row off the disk.       *)
LEMMA StepInv == Inv /\ [Next]_vars => Inv' /\ disk \subseteq disk'
  <1> SUFFICES ASSUME Inv, [Next]_vars PROVE Inv' /\ disk \subseteq disk'
    OBVIOUS
  <1>1. TypeOK' /\ FramesFilled'
    BY TypeOKStep, FramesFilledStep
  <1>2. ASSUME NEW w \in Workers, Submit(w) \/ Step(w), ~Evaluate(w)
        PROVE  Inv' /\ disk \subseteq disk'
    BY <1>1, <1>2, QuietSteps, NoNewAlert DEF GrowsQuietly
  <1>3. ASSUME NEW w \in Workers, Evaluate(w)
        PROVE  Inv' /\ disk \subseteq disk'
    BY <1>1, <1>3, EvaluateStep DEF Inv
  <1>4. CASE Restart
    BY <1>1, <1>4, RestartStep DEF Inv
  <1>5. CASE UNCHANGED vars
    BY <1>1, <1>5 DEF vars, memory, Inv, SignaturesCoverAlerts,
       AlertOncePerSignature, DurableIsKnown, AlertsIn
  <1> QED
    BY <1>2, <1>3, <1>4, <1>5 DEF Next, Step

(* The inductive invariant holds in every reachable state.                 *)
THEOREM Invariance == Spec => []Inv
  BY InitInv, StepInv, PTL DEF Spec

(* Every reachable state is well typed.                                    *)
THEOREM TypeCorrect == Spec => []TypeOK
  <1>1. Inv => TypeOK
    BY DEF Inv
  <1> QED
    BY <1>1, Invariance, PTL

(* Deduplication survives concurrency, SQLite errors and restarts.         *)
THEOREM AlertsDeduplicated == Spec => []AlertOncePerSignature
  <1>1. Inv => AlertOncePerSignature
    BY DEF Inv
  <1> QED
    BY <1>1, Invariance, PTL

(* A restart never shows a row the process had not shown before it.        *)
THEOREM DurabilityLagsMemory == Spec => []DurableIsKnown
  <1>1. Inv => DurableIsKnown
    BY DEF Inv
  <1> QED
    BY <1>1, Invariance, PTL

(* The alert table implements the ledger.                                  *)
THEOREM AlertTableIsLedger == Spec => LedgerSpec
  <1>1. Init => Ledger!Init
    BY DEF Init, Ledger!Init, AlertsIn
  <1>2. Inv /\ Inv' /\ [Next]_vars => [Ledger!Record]_(AlertsIn(disk))
    <2> SUFFICES ASSUME Inv, Inv', [Next]_vars PROVE Ledger!Record
      OBVIOUS
    <2>1. disk \subseteq disk'
      BY StepInv
    <2> QED
      BY <2>1 DEF Inv, TypeOK, AlertOncePerSignature, DurableIsKnown,
                  AlertsIn, Ledger!Record
  <1> QED
    BY <1>1, <1>2, Invariance, PTL DEF Spec, LedgerSpec, Ledger!Spec

=============================================================================
