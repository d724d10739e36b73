---------------------------- MODULE AlertLedger ----------------------------
(***************************************************************************)
(* What the pipeline promises about durable alerts: a ledger that only     *)
(* grows, and never holds two alerts with one deduplication signature,     *)
(* across crashes and whatever the worker threads do.                      *)
(***************************************************************************)
CONSTANTS Alert,        \* the alerts that may ever be recorded
          Sig(_)        \* the deduplication signature of an alert

VARIABLE ledger

Init == ledger = {}

(* A batch becomes durable: nothing recorded is lost, and the signatures of *)
(* the batch are new and pairwise distinct.                                 *)
Record ==
  /\ ledger \subseteq ledger'
  /\ ledger' \subseteq Alert
  /\ \A a, b \in ledger' : Sig(a) = Sig(b) => a = b

Spec == Init /\ [][Record]_ledger
=============================================================================
