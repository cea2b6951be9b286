------------------------- MODULE InvestigationLifecycle -------------------------
(***************************************************************************)
(* What the record of an Investigation promises to whoever reads it,       *)
(* without tools, evidence or a controller: its phase goes forward only;   *)
(* remediation is entered by the decision on a request, and by nothing     *)
(* else; while it waits for that decision nothing moves; production is     *)
(* changed once, in a remediation that was approved; and a record that is  *)
(* completed, failed or short of confidence stays so.  IncidentRun         *)
(* implements it (FollowsLifecycle).                                       *)
(***************************************************************************)
EXTENDS Naturals

CONSTANTS
  Phases,       \* of an investigation
  PhaseNumber   \* their order

VARIABLES
  phase, status, request, decision,
  changes       \* of production

vars == <<phase, status, request, decision, changes>>

Init ==
  /\ phase = "received"
  /\ status = "running"
  /\ request = FALSE
  /\ decision = "none"
  /\ changes = 0

Later == {p \in Phases : PhaseNumber[p] > PhaseNumber[phase]}

\* Without a request, any later phase except remediation; phases may be skipped.
Advance ==
  /\ status = "running" /\ ~request
  /\ phase' \in Later \ {"remediation"}
  /\ UNCHANGED <<status, request, decision, changes>>

LackConfidence ==
  /\ status = "running" /\ ~request
  /\ phase' \in {phase} \cup Later
  /\ phase' = "response_proposal"
  /\ status' = "insufficient_confidence"
  /\ UNCHANGED <<request, decision, changes>>

Ask ==
  /\ status = "running" /\ ~request
  /\ phase = "response_proposal"
  /\ request' = TRUE
  /\ UNCHANGED <<phase, status, decision, changes>>

Wait ==
  /\ status = "running" /\ request
  /\ phase = "response_proposal"
  /\ status' = "waiting_for_approval"
  /\ UNCHANGED <<phase, request, decision, changes>>

\* Before a decision; a request that reached nobody is withdrawn.
Fail ==
  /\ status = "running" /\ decision = "none"
  /\ status' = "failed"
  /\ request' = FALSE
  /\ UNCHANGED <<phase, decision, changes>>

Decide ==
  /\ status = "waiting_for_approval"
  /\ decision = "none"
  /\ decision' \in {"approve", "reject"}
  /\ status' = "running"
  /\ phase' = "remediation"
  /\ UNCHANGED <<request, changes>>

Change ==
  /\ status = "running" /\ phase = "remediation"
  /\ decision = "approve"
  /\ changes = 0
  /\ changes' = 1
  /\ UNCHANGED <<phase, status, request, decision>>

Close ==
  /\ status = "running" /\ phase = "remediation"
  /\ phase' = "post_mortem"
  /\ UNCHANGED <<status, request, decision, changes>>

\* Told what happened: after a decision, or at once where there was no request.
Complete ==
  /\ status = "running" /\ phase = "post_mortem"
  /\ status' = "completed"
  /\ UNCHANGED <<phase, request, decision, changes>>

Next ==
  \/ Advance \/ LackConfidence \/ Ask \/ Wait \/ Fail
  \/ Decide \/ Change \/ Close \/ Complete

Spec == Init /\ [][Next]_vars
=================================================================================
