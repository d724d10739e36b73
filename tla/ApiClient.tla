----------------------------- MODULE ApiClient -----------------------------
(***************************************************************************)
(* The client of the backend that every page of a tab shares: the cached   *)
(* probe of /health, which decides whether a call goes to the network at   *)
(* all, and the wrappers that fall back to demo data.  A tab has a slot    *)
(* for each activity that calls the backend; a call in a slot waits for    *)
(* the probe it found, is sent, and is answered or fails.  A call that is  *)
(* refused, is lost, or finds the backend down fails in the same way: no   *)
(* wrapper tells these apart.                                              *)
(***************************************************************************)
EXTENDS Integers, Sequences

CONSTANTS
  Tabs,
  MaxFaults,   \* bound on outages, timeouts and expired sessions
  None

ASSUME ClientAssumption == MaxFaults \in Nat

VARIABLES
  up,       \* the backend can be reached
  faults,
  probes,   \* the probes a tab has sent: pending, live or down
  cached,   \* the one backendAvailablePromise holds, 0 for none
  calls,    \* the call in each slot of each tab
  trusted   \* tabs that signed in since when nothing went wrong

clientVars == <<up, faults, probes, cached, calls, trusted>>

Slots == {"identity", "logout", "load", "status", "note"}

(* What probeBackend() returns, and the probes with it.                    *)
Promise(t) == IF cached[t] = 0 THEN Len(probes[t]) + 1 ELSE cached[t]
Probed(t)  == IF cached[t] = 0 THEN Append(probes[t], "pending") ELSE probes[t]

StageOn(verdict) == CASE verdict = "pending" -> "probing"
                      [] verdict = "live"    -> "sent"
                      [] verdict = "down"    -> "failed"

Call(op, args, i, stage) ==
  [op |-> op, args |-> args, probe |-> i, stage |-> stage, answer |-> None]

(* A call behind the probe: live(), liveOrThrow() and their like.          *)
Ask(t, slot, op, args) ==
  /\ calls' = [calls EXCEPT ![t][slot] =
                 Call(op, args, Promise(t), StageOn(Probed(t)[Promise(t)]))]
  /\ probes' = [probes EXCEPT ![t] = Probed(t)]
  /\ cached' = [cached EXCEPT ![t] = Promise(t)]

(* resetBackendProbe() and then a call, which sends a probe of its own.    *)
AskAfresh(t, slot, op, args) ==
  LET i == Len(probes[t]) + 1
  IN  /\ calls' = [calls EXCEPT ![t][slot] = Call(op, args, i, "probing")]
      /\ probes' = [probes EXCEPT ![t] = Append(@, "pending")]
      /\ cached' = [cached EXCEPT ![t] = i]

(* A call that does not look at the probe: request() itself.               *)
Request(t, slot, op, args) ==
  /\ calls' = [calls EXCEPT ![t][slot] = Call(op, args, 0, "sent")]
  /\ UNCHANGED <<probes, cached>>

Done(t, slot) ==
  /\ calls' = [calls EXCEPT ![t][slot] = None]
  /\ UNCHANGED <<probes, cached>>

At(t, slot, op, stage) ==
  calls[t][slot] # None /\ calls[t][slot].op = op /\ calls[t][slot].stage = stage

(* A read is answered by the backend in the step in which the page takes   *)
(* the answer; what writes, or what may be overtaken, has a stage between. *)
Answered(t, slot, op) == up /\ At(t, slot, op, "sent")
Failed(t, slot, op)   == At(t, slot, op, "failed")

(* Every call that waited for the probe goes on with its verdict.          *)
ProbeSettles(t, i, verdict) ==
  /\ probes[t][i] = "pending"
  /\ probes' = [probes EXCEPT ![t][i] = verdict]
  /\ calls' = [calls EXCEPT ![t] = [slot \in Slots |->
       IF @[slot] # None /\ @[slot].stage = "probing" /\ @[slot].probe = i
         THEN [@[slot] EXCEPT !.stage = StageOn(verdict)] ELSE @[slot]]]
  /\ UNCHANGED <<up, cached>>

ProbeAnswers(t) ==
  /\ \E i \in DOMAIN probes[t] :
       ProbeSettles(t, i, IF up THEN "live" ELSE "down")
  /\ UNCHANGED <<faults, trusted>>

(* PROBE_TIMEOUT_MS runs out although the backend is up.                   *)
ProbeTimesOut(t) ==
  /\ up /\ faults < MaxFaults /\ faults' = faults + 1
  /\ trusted' = trusted \ {t}
  /\ \E i \in DOMAIN probes[t] : ProbeSettles(t, i, "down")

(* A request fails: for want of a backend, or on REQUEST_TIMEOUT_MS.       *)
Loses(t, slot) ==
  /\ calls[t][slot] # None /\ calls[t][slot].stage \in {"sent", "answered"}
  /\ \/ ~up /\ UNCHANGED faults
     \/ up /\ faults < MaxFaults /\ faults' = faults + 1
  /\ calls' = [calls EXCEPT ![t][slot].stage = "failed"]
  /\ UNCHANGED <<up, probes, cached, trusted>>

GoesDown ==
  /\ up /\ faults < MaxFaults
  /\ up' = FALSE /\ faults' = faults + 1 /\ trusted' = {}
  /\ UNCHANGED <<probes, cached, calls>>

ComesUp ==
  /\ ~up /\ up' = TRUE
  /\ UNCHANGED <<faults, probes, cached, calls, trusted>>
=============================================================================
