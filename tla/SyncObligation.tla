--------------------------- MODULE SyncObligation ---------------------------
(***************************************************************************)
(* What the sync outbox promises for a business node of an order, whatever *)
(* tasks, runs, retries and restarts it uses: the node is submitted to     *)
(* Recloud by one call at a time and never again once Recloud acknowledged *)
(* it, it counts as done only then, and it is never forgotten.             *)
(***************************************************************************)

CONSTANT Key  \* idempotency keys, one per node type and order

VARIABLES
  obligation,  \* [Key -> {"NONE", "OPEN", "ACKNOWLEDGED", "DONE"}]
  submitting   \* the keys whose node is being submitted

vars == <<obligation, submitting>>

Init ==
  /\ obligation = [k \in Key |-> "NONE"]
  /\ submitting = {}

Open(k) ==
  /\ obligation[k] = "NONE"
  /\ obligation' = [obligation EXCEPT ![k] = "OPEN"]
  /\ UNCHANGED submitting

Submit(k) ==
  /\ obligation[k] = "OPEN"
  /\ k \notin submitting
  /\ submitting' = submitting \cup {k}
  /\ UNCHANGED obligation

Acknowledge(k) ==
  /\ obligation[k] = "OPEN"
  /\ k \in submitting
  /\ obligation' = [obligation EXCEPT ![k] = "ACKNOWLEDGED"]
  /\ submitting' = submitting \ {k}

\* Calls end without an acknowledgement: one fails, or a restart ends them all.
GiveUp ==
  /\ submitting' \in SUBSET submitting
  /\ UNCHANGED obligation

Discharge(k) ==
  /\ obligation[k] = "ACKNOWLEDGED"
  /\ obligation' = [obligation EXCEPT ![k] = "DONE"]
  /\ UNCHANGED submitting

Next ==
  \/ \E k \in Key : Open(k) \/ Submit(k) \/ Acknowledge(k) \/ Discharge(k)
  \/ GiveUp

Spec == Init /\ [][Next]_vars
=============================================================================
