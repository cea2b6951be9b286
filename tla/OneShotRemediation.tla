-------------------------- MODULE OneShotRemediation --------------------------
(***************************************************************************)
(* What the approval gate promises, without threads, copies or time: the   *)
(* record receives commands from approvers, the one shot of the            *)
(* investigation is spent at most once, and production is changed at most  *)
(* once, after the shot was spent, for an approve command that was         *)
(* received.  ApprovalGate implements it (RemediatesOnce).                 *)
(***************************************************************************)
EXTENDS Naturals

CONSTANTS Commands, RequestId, Approvers

VARIABLES
  received,    \* commands whose receipt is on record
  spent,       \* the remediation key is taken
  times,       \* production changes made
  changedFor   \* commands they were made for

vars == <<received, spent, times, changedFor>>

Init ==
  /\ received = {}
  /\ spent = FALSE
  /\ times = 0
  /\ changedFor = {}

Receive(c) ==
  /\ c.request = RequestId
  /\ c.approver \in Approvers
  /\ received' = received \cup {c}
  /\ UNCHANGED <<spent, times, changedFor>>

Spend ==
  /\ spent' = TRUE
  /\ UNCHANGED <<received, times, changedFor>>

Change(c) ==
  /\ spent
  /\ times = 0
  /\ c \in received
  /\ c.decision = "approve"
  /\ times' = 1
  /\ changedFor' = {c}
  /\ UNCHANGED <<received, spent>>

Next == Spend \/ \E c \in Commands : Receive(c) \/ Change(c)

Spec == Init /\ [][Next]_vars
=============================================================================
