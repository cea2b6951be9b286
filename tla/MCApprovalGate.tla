---------------------------- MODULE MCApprovalGate ----------------------------
(***************************************************************************)
(* Small instances of ApprovalGate for TLC.                                *)
(***************************************************************************)
EXTENDS ApprovalGate, TLC

Command(k, request, approver, decision) ==
  [key |-> k, request |-> request, approver |-> approver, decision |-> decision]

Approve      == Command("k1", RequestId, "oncall", "approve")
ApproveAgain == Command("k2", RequestId, "oncall", "approve")
Reject       == Command("k1", RequestId, "oncall", "reject")
Stranger     == Command("k4", RequestId, "stranger", "approve")
Misdirected  == Command("k5", "approval-0", "oncall", "approve")
Reserved     == Command("remediation", RequestId, "oncall", "approve")

OnCall == {"oncall"}

NoKeys    == {}
TakenKeys == {"k2", "remediation"}

\* Two approvals with different keys, a rejection that reuses the key of one of
\* them, an invalid command, and one that carries the key of the remediation.
RacingCommands == {Approve, ApproveAgain, Reject, Stranger}
AllCommands    == RacingCommands \cup {Misdirected, Reserved}
TwoApprovals   == {Approve, ApproveAgain}

HandlerSymmetry == Permutations(Handlers)
===============================================================================
