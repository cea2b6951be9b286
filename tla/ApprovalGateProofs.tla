-------------------------- MODULE ApprovalGateProofs --------------------------
(***************************************************************************)
(* Proofs about ApprovalGate, for every set of handlers and commands.      *)
(***************************************************************************)
EXTENDS ApprovalGate, TLAPS

USE GateAssumption

-----------------------------------------------------------------------------
(* Facts about the helpers.                                                *)

\* The record a run starts with is a well-formed Investigation.
LEMMA ProposalType == Proposal \in Investigation
  BY DEF Proposal, Investigation, Statuses, Phases, Results, PostMortems

\* Leaving keeps the process-local state well formed.
LEMMA LeaveType ==
  ASSUME TypeOK, NEW p \in Procs, Leave(p)
  PROVE  /\ pc' \in [Procs -> Labels]
         /\ cmd' \in [Procs -> Commands \cup {NoCommand}]
         /\ copy' \in [Procs -> Investigation]
         /\ late' \subseteq Procs
  BY ProposalType DEF TypeOK, Leave, Goto, Labels

\* A checkpoint of a well-formed record keeps the record and the copies so.
LEMMA CheckpointType ==
  ASSUME TypeOK, NEW p \in Procs, NEW record \in Investigation,
         Checkpoint(p, record)
  PROVE  saved' \in Investigation /\ copy' \in [Procs -> Investigation]
  BY DEF TypeOK, Checkpoint

-----------------------------------------------------------------------------
(* Type correctness.                                                       *)

LEMMA InitTypeOK == Init => TypeOK
<1> SUFFICES ASSUME Init PROVE TypeOK
  OBVIOUS
<1>1. saved \in Investigation /\ copy \in [Procs -> Investigation]
  BY ProposalType DEF Init
<1>2. pc \in [Procs -> Labels]
  BY DEF Init, Labels
<1>3. cmd \in [Procs -> Commands \cup {NoCommand}]
  BY DEF Init
<1>4. keys \subseteq Keys /\ audit \subseteq Events /\ late \subseteq Procs
  BY DEF Init
<1>5. expired \in BOOLEAN /\ confirmed \in BOOLEAN
  BY DEF Init
<1>6. aborts \in Nat /\ performed \in Nat /\ performedFor \subseteq Commands
  BY DEF Init
<1> QED BY <1>1, <1>2, <1>3, <1>4, <1>5, <1>6 DEF TypeOK

LEMMA RunTypeOK == TypeOK /\ (RunStep \/ RunRaises) => TypeOK'
<1> SUFFICES ASSUME TypeOK, RunStep \/ RunRaises PROVE TypeOK'
  OBVIOUS
<1> USE DEF TypeOK
<1>0. Runner \in Procs
  BY DEF Procs
<1>1. CASE PostApprovalRequest
  <2>1. [copy[Runner] EXCEPT !.request = RequestId] \in Investigation
    BY <1>0 DEF Investigation
  <2>2. saved' \in Investigation /\ copy' \in [Procs -> Investigation]
    BY <1>0, <1>1, <2>1, CheckpointType DEF PostApprovalRequest
  <2>3. pc' \in [Procs -> Labels]
    BY <1>1 DEF PostApprovalRequest, Goto, Labels
  <2> QED BY <1>1, <2>2, <2>3 DEF PostApprovalRequest, history
<1>2. CASE ParkForApproval
  <2>1. [copy[Runner] EXCEPT !.notified = TRUE, !.status = "waiting_for_approval"]
          \in Investigation
    BY <1>0 DEF Investigation, Statuses
  <2>2. saved' \in Investigation /\ copy' \in [Procs -> Investigation]
    BY <1>0, <1>2, <2>1, CheckpointType DEF ParkForApproval
  <2> QED BY <1>2, <2>2 DEF ParkForApproval, Goto, Labels, history
<1>3. CASE FailUnnotifiedRequest
  <2>1. [copy[Runner] EXCEPT !.status = "failed", !.request = NoRequest] \in Investigation
    BY <1>0 DEF Investigation, Statuses
  <2>2. saved' \in Investigation /\ copy' \in [Procs -> Investigation]
    BY <1>0, <1>3, <2>1, CheckpointType DEF FailUnnotifiedRequest
  <2> QED BY <1>3, <2>2 DEF FailUnnotifiedRequest, Goto, Labels, history
<1>4. CASE RunRaises
  <2>1. aborts' \in Nat
    BY <1>4 DEF RunRaises
  <2>2. pc' \in [Procs -> Labels]
    BY <1>4 DEF RunRaises, Goto, Labels
  <2> QED BY <1>4, <2>1, <2>2 DEF RunRaises, store, history
<1>5. CASE CloseClients
  BY <1>0, <1>5, LeaveType DEF CloseClients, store
<1>6. CASE LoadToFail
  BY <1>6 DEF LoadToFail, Goto, Labels, store, history
<1>7. CASE MarkFailed
  <2>1. saved' \in Investigation
    BY <1>0, <1>7 DEF MarkFailed, Investigation, Statuses
  <2> QED BY <1>0, <1>7, <2>1, LeaveType DEF MarkFailed
<1> QED BY <1>1, <1>2, <1>3, <1>4, <1>5, <1>6, <1>7 DEF RunStep

LEMMA HandlerTypeOK ==
  ASSUME TypeOK, CommandHeld, NEW h \in Handlers,
         SubmitApproval(h) \/ HandlerStep(h)
  PROVE  TypeOK'
<1> USE DEF TypeOK
<1>0. h \in Procs
  BY DEF Procs
<1>1. CASE SubmitApproval(h)
  BY <1>0, <1>1 DEF SubmitApproval, Goto, Labels, store
<1>2. CASE LoadState(h)
  BY <1>0, <1>2 DEF LoadState, Goto, Labels, store, history
<1>3. CASE AnswerNotWaiting(h)
  BY <1>0, <1>3, LeaveType DEF AnswerNotWaiting, store
<1>4. CASE CheckCommand(h)
  BY <1>0, <1>4 DEF CheckCommand, Goto, Labels, store, history
<1>5. CASE RememberCommand(h)
  <2>1. cmd[h] \in Commands
    BY <1>0, <1>5 DEF RememberCommand, CommandHeld, At
  <2> QED BY <1>0, <1>5, <2>1
          DEF RememberCommand, Remember, Keys, Goto, Labels, history
<1>6. CASE AnswerDuplicate(h)
  BY <1>0, <1>6, LeaveType DEF AnswerDuplicate, store
<1>7. CASE RecordCommand(h)
  <2>1. cmd[h] \in Commands
    BY <1>0, <1>7 DEF RecordCommand, CommandHeld, At
  <2>2. [copy[h] EXCEPT !.command = cmd[h]] \in Investigation
    BY <1>0, <2>1 DEF Investigation
  <2>3. saved' \in Investigation /\ copy' \in [Procs -> Investigation]
    BY <1>0, <1>7, <2>2, CheckpointType DEF RecordCommand
  <2>4. audit' \subseteq Events
    BY <1>7, <2>1 DEF RecordCommand, Audit, Events
  <2> QED BY <1>0, <1>7, <2>3, <2>4 DEF RecordCommand, Goto, Labels, history
<1> QED BY <1>1, <1>2, <1>3, <1>4, <1>5, <1>6, <1>7 DEF HandlerStep

LEMMA ContinueTypeOK ==
  ASSUME TypeOK, CommandHeld, NEW h \in Handlers, ContinueStep(h)
  PROVE  TypeOK'
<1> USE DEF TypeOK
<1>0. h \in Procs /\ copy[h] \in Investigation
  BY DEF Procs
<1>1. CASE RejectCommand(h)
  <2>1. saved' \in Investigation
    BY <1>0, <1>1 DEF RejectCommand, Investigation, Statuses, Phases
  <2>2. audit' \subseteq Events
    BY <1>1 DEF RejectCommand, Audit, Events
  <2> QED BY <1>0, <1>1, <2>1, <2>2, LeaveType DEF RejectCommand
<1>2. CASE RecheckCommand(h)
  BY <1>0, <1>2 DEF RecheckCommand, Goto, Labels, store, history
<1>3. CASE EnterRemediation(h)
  <2>1. [copy[h] EXCEPT !.status = "running", !.phase = "remediation"]
          \in Investigation
    BY <1>0 DEF Investigation, Statuses, Phases
  <2>2. saved' \in Investigation /\ copy' \in [Procs -> Investigation]
    BY <1>0, <1>3, <2>1, CheckpointType DEF EnterRemediation
  <2> QED BY <1>0, <1>3, <2>2 DEF EnterRemediation, Goto, Labels, history
<1>4. CASE CheckExecution(h)
  <2>1. [copy EXCEPT ![h].result = "refused"] \in [Procs -> Investigation]
    BY <1>0 DEF Investigation, Results
  <2> QED BY <1>0, <1>4, <2>1 DEF CheckExecution, Goto, Labels, store, history
<1>5. CASE ClaimRemediation(h)
  BY <1>0, <1>5 DEF ClaimRemediation, Remember, Keys, Goto, Labels, history
<1>6. CASE SkipDuplicateRemediation(h)
  <2>1. [copy EXCEPT ![h].result = "skipped"] \in [Procs -> Investigation]
    BY <1>0 DEF Investigation, Results
  <2> QED BY <1>0, <1>6, <2>1
          DEF SkipDuplicateRemediation, Goto, Labels, store, history
<1>7. CASE InvokeRemediation(h)
  <2>1. copy[h].command \in Commands
    BY <1>0, <1>7 DEF InvokeRemediation, CommandHeld, At, Continuing
  <2> QED BY <1>0, <1>7, <2>1 DEF InvokeRemediation, Goto, Labels, store
<1>8. CASE RecordReceipt(h)
  <2>1. saved' \in Investigation /\ copy' \in [Procs -> Investigation]
    BY <1>0, <1>8, CheckpointType DEF RecordReceipt
  <2> QED BY <1>0, <1>8, <2>1 DEF RecordReceipt, Goto, Labels, history
<1>9. CASE VerifyMitigation(h)
  <2>1. PICK changeConfirmed, verifyConfirmed \in BOOLEAN :
          /\ saved' = copy[h]
          /\ copy' = [copy EXCEPT ![h].result =
                                    Verdict(changeConfirmed, verifyConfirmed)]
          /\ confirmed' = (confirmed \/ (changeConfirmed /\ verifyConfirmed))
    BY <1>9 DEF VerifyMitigation
  <2>2. saved' \in Investigation
    BY <1>0, <2>1
  <2>3. copy' \in [Procs -> Investigation]
    BY <1>0, <2>1 DEF Verdict, Investigation, Results
  <2>4. confirmed' \in BOOLEAN
    BY <2>1
  <2> QED BY <1>0, <1>9, <2>2, <2>3, <2>4 DEF VerifyMitigation, Goto, Labels
<1>10. CASE ReportResult(h)
  <2>1. saved' \in Investigation /\ copy' \in [Procs -> Investigation]
    BY <1>0, <1>10, CheckpointType DEF ReportResult
  <2> QED BY <1>0, <1>10, <2>1 DEF ReportResult, Goto, Labels, history
<1>11. CASE EnterPostMortem(h)
  <2>1. [copy[h] EXCEPT !.phase = "post_mortem"] \in Investigation
    BY <1>0 DEF Investigation, Phases
  <2>2. saved' \in Investigation /\ copy' \in [Procs -> Investigation]
    BY <1>0, <1>11, <2>1, CheckpointType DEF EnterPostMortem
  <2> QED BY <1>0, <1>11, <2>2 DEF EnterPostMortem, Goto, Labels, history
<1>12. CASE PublishPostMortem(h)
  <2>1. [copy[h] EXCEPT !.postMortem = PostMortemText] \in Investigation
    BY <1>0 DEF PostMortemText, Investigation, PostMortems
  <2>2. saved' \in Investigation /\ copy' \in [Procs -> Investigation]
    BY <1>0, <1>12, <2>1, CheckpointType DEF PublishPostMortem
  <2> QED BY <1>0, <1>12, <2>2 DEF PublishPostMortem, Goto, Labels, history
<1>13. CASE Complete(h)
  <2>1. saved' \in Investigation
    BY <1>0, <1>13 DEF Complete, Investigation, Statuses
  <2> QED BY <1>0, <1>13, <2>1, LeaveType DEF Complete
<1> QED BY <1>1, <1>2, <1>3, <1>4, <1>5, <1>6, <1>7, <1>8, <1>9, <1>10, <1>11,
           <1>12, <1>13 DEF ContinueStep

LEMMA NextTypeOK == TypeOK /\ CommandHeld /\ [Next]_vars => TypeOK'
<1> SUFFICES ASSUME TypeOK, CommandHeld, [Next]_vars PROVE TypeOK'
  OBVIOUS
<1>1. CASE RunStep \/ RunRaises
  BY <1>1, RunTypeOK
<1>2. CASE Expire
  BY <1>2 DEF TypeOK, Expire, store, history
<1>3. ASSUME NEW h \in Handlers, SubmitApproval(h) \/ HandlerStep(h)
      PROVE  TypeOK'
  BY <1>3, HandlerTypeOK
<1>4. ASSUME NEW h \in Handlers, ContinueStep(h)
      PROVE  TypeOK'
  BY <1>4, ContinueTypeOK
<1>5. ASSUME NEW p \in Procs, Abort(p)
      PROVE  TypeOK'
  <2>1. pc' \in [Procs -> Labels] /\ late' \subseteq Procs
    BY <1>5, LeaveType DEF Abort
  <2>2. /\ cmd' \in [Procs -> Commands \cup {NoCommand}]
        /\ copy' \in [Procs -> Investigation]
    BY <1>5, LeaveType DEF Abort
  <2> QED BY <1>5, <2>1, <2>2 DEF Abort, TypeOK, store
<1>6. ASSUME NEW k \in SharedKeys, SpendElsewhere(k)
      PROVE  TypeOK'
  BY <1>6 DEF TypeOK, SpendElsewhere, Remember, history
<1>7. CASE UNCHANGED vars
  BY <1>7 DEF vars, TypeOK
<1> QED BY <1>1, <1>2, <1>3, <1>4, <1>5, <1>6, <1>7 DEF Next

-----------------------------------------------------------------------------
(* The other parts of the inductive invariant.                             *)

\* A handler keeps its command until it leaves.
LEMMA NextCommandHeld ==
  ASSUME IInv, [Next]_vars
  PROVE  CommandHeld'
<1> USE DEF IInv, TypeOK, CommandHeld, Continuing, Investigation
<1>0. Runner \in Procs /\ Runner \notin Handlers /\ Handlers \subseteq Procs
  BY DEF Procs
<1>1. CASE PostApprovalRequest
  BY <1>0, <1>1 DEF PostApprovalRequest, At, Goto, Leave, Checkpoint, store,
     history
<1>2. CASE ParkForApproval
  BY <1>0, <1>2 DEF ParkForApproval, At, Goto, Leave, Checkpoint, store,
     history
<1>3. CASE FailUnnotifiedRequest
  BY <1>0, <1>3 DEF FailUnnotifiedRequest, At, Goto, Leave, Checkpoint, store,
     history
<1>4. CASE RunRaises
  BY <1>0, <1>4 DEF RunRaises, At, Goto, Leave, Checkpoint, store, history
<1>5. CASE Expire
  BY <1>0, <1>5 DEF Expire, At, store, history
<1>6. ASSUME NEW h \in Handlers, SubmitApproval(h) PROVE CommandHeld'
  BY <1>0, <1>6 DEF SubmitApproval, At, Goto, Leave, Checkpoint, store, history
<1>7. ASSUME NEW h \in Handlers, LoadState(h) PROVE CommandHeld'
  BY <1>0, <1>7 DEF LoadState, At, Goto, Leave, Checkpoint, store, history
<1>8. ASSUME NEW h \in Handlers, AnswerNotWaiting(h) PROVE CommandHeld'
  BY <1>0, <1>8 DEF AnswerNotWaiting, At, Goto, Leave, Checkpoint, store,
     history
<1>9. ASSUME NEW h \in Handlers, CheckCommand(h) PROVE CommandHeld'
  BY <1>0, <1>9 DEF CheckCommand, At, Goto, Leave, Checkpoint, store, history
<1>10. ASSUME NEW h \in Handlers, RememberCommand(h) PROVE CommandHeld'
  BY <1>0, <1>10 DEF RememberCommand, At, Goto, Leave, Checkpoint, store,
     history
<1>11. ASSUME NEW h \in Handlers, AnswerDuplicate(h) PROVE CommandHeld'
  BY <1>0, <1>11 DEF AnswerDuplicate, At, Goto, Leave, Checkpoint, store,
     history
<1>12. ASSUME NEW h \in Handlers, RecordCommand(h) PROVE CommandHeld'
  BY <1>0, <1>12 DEF RecordCommand, At, Goto, Leave, Checkpoint, store, history
<1>13. ASSUME NEW h \in Handlers, RejectCommand(h) PROVE CommandHeld'
  BY <1>0, <1>13 DEF RejectCommand, At, Goto, Leave, Checkpoint, store, history
<1>14. ASSUME NEW h \in Handlers, RecheckCommand(h) PROVE CommandHeld'
  BY <1>0, <1>14 DEF RecheckCommand, At, Goto, Leave, Checkpoint, store,
     history
<1>15. ASSUME NEW h \in Handlers, EnterRemediation(h) PROVE CommandHeld'
  BY <1>0, <1>15 DEF EnterRemediation, At, Goto, Leave, Checkpoint, store,
     history
<1>16. ASSUME NEW h \in Handlers, CheckExecution(h) PROVE CommandHeld'
  <2>1. CASE MayExecute(copy[h])
    BY <1>0, <1>16, <2>1 DEF CheckExecution, MayExecute, At, Goto, Leave,
       Checkpoint, store, history
  <2>2. CASE ~MayExecute(copy[h])
    BY <1>0, <1>16, <2>2 DEF CheckExecution, At, Goto, Leave, Checkpoint, store,
       history
  <2> QED BY <2>1, <2>2
<1>17. ASSUME NEW h \in Handlers, ClaimRemediation(h) PROVE CommandHeld'
  BY <1>0, <1>17 DEF ClaimRemediation, At, Goto, Leave, Checkpoint, store,
     history
<1>18. ASSUME NEW h \in Handlers, SkipDuplicateRemediation(h) PROVE CommandHeld'
  BY <1>0, <1>18 DEF SkipDuplicateRemediation, At, Goto, Leave, Checkpoint,
     store, history
<1>19. ASSUME NEW h \in Handlers, InvokeRemediation(h) PROVE CommandHeld'
  BY <1>0, <1>19 DEF InvokeRemediation, At, Goto, Leave, Checkpoint, store,
     history
<1>20. ASSUME NEW h \in Handlers, RecordReceipt(h) PROVE CommandHeld'
  BY <1>0, <1>20 DEF RecordReceipt, At, Goto, Leave, Checkpoint, store, history
<1>21. ASSUME NEW h \in Handlers, VerifyMitigation(h) PROVE CommandHeld'
  BY <1>0, <1>21 DEF VerifyMitigation, At, Goto, Leave, Checkpoint, store,
     history
<1>22. ASSUME NEW h \in Handlers, ReportResult(h) PROVE CommandHeld'
  BY <1>0, <1>22 DEF ReportResult, At, Goto, Leave, Checkpoint, store, history
<1>23. ASSUME NEW h \in Handlers, EnterPostMortem(h) PROVE CommandHeld'
  BY <1>0, <1>23 DEF EnterPostMortem, At, Goto, Leave, Checkpoint, store,
     history
<1>24. ASSUME NEW h \in Handlers, PublishPostMortem(h) PROVE CommandHeld'
  BY <1>0, <1>24 DEF PublishPostMortem, At, Goto, Leave, Checkpoint, store,
     history
<1>25. ASSUME NEW h \in Handlers, Complete(h) PROVE CommandHeld'
  BY <1>0, <1>25 DEF Complete, At, Goto, Leave, Checkpoint, store, history
<1>26. ASSUME NEW p \in Procs, Abort(p) PROVE CommandHeld'
  BY <1>0, <1>26 DEF Abort, At, Goto, Leave, Checkpoint, store, history
<1>27. CASE UNCHANGED vars
  BY <1>0, <1>27 DEF vars, At
<1>28. CASE CloseClients
  BY <1>0, <1>28 DEF CloseClients, At, Goto, Leave, store, history
<1>29. CASE LoadToFail
  BY <1>0, <1>29 DEF LoadToFail, At, Goto, Leave, store, history
<1>30. CASE MarkFailed
  BY <1>0, <1>30 DEF MarkFailed, At, Goto, Leave, store, history
<1>31. ASSUME NEW k \in SharedKeys, SpendElsewhere(k) PROVE CommandHeld'
  BY <1>0, <1>31 DEF SpendElsewhere, Remember, At, history
<1> HIDE DEF IInv, TypeOK, CommandHeld, Continuing, Investigation
<1> QED BY <1>1, <1>2, <1>3, <1>4, <1>5, <1>6, <1>7, <1>8, <1>9, <1>10, <1>11,
        <1>12, <1>13, <1>14, <1>15, <1>16, <1>17, <1>18, <1>19, <1>20, <1>21,
        <1>22, <1>23, <1>24, <1>25, <1>26, <1>27, <1>28, <1>29, <1>30, <1>31
        DEF Next, RunStep, HandlerStep, ContinueStep

\* A handler gets on only through the checks, the key and the audit row.
LEMMA NextDecisionJustified ==
  ASSUME IInv, [Next]_vars
  PROVE  DecisionJustified'
<1> USE DEF IInv, TypeOK, DecisionJustified, CommandHeld, Accepted, Continuing,
     Received, Investigation
<1>0. Runner \in Procs /\ Runner \notin Handlers /\ Handlers \subseteq Procs
  BY DEF Procs
<1>1. CASE PostApprovalRequest
  BY <1>0, <1>1 DEF PostApprovalRequest, At, Goto, Leave, Checkpoint, store,
     history, Remember, Audit, Acceptable, Authorised, RequestExpired
<1>2. CASE ParkForApproval
  BY <1>0, <1>2 DEF ParkForApproval, At, Goto, Leave, Checkpoint, store,
     history, Remember, Audit, Acceptable, Authorised, RequestExpired
<1>3. CASE FailUnnotifiedRequest
  BY <1>0, <1>3 DEF FailUnnotifiedRequest, At, Goto, Leave, Checkpoint, store,
     history, Remember, Audit, Acceptable, Authorised, RequestExpired
<1>4. CASE RunRaises
  BY <1>0, <1>4 DEF RunRaises, At, Goto, Leave, Checkpoint, store, history,
     Remember, Audit, Acceptable, Authorised, RequestExpired
<1>5. CASE Expire
  BY <1>0, <1>5 DEF Expire, At, store, history
<1>6. ASSUME NEW h \in Handlers, SubmitApproval(h) PROVE DecisionJustified'
  <2>1. /\ \A g \in Handlers \ {h} :
             pc'[g] = pc[g] /\ cmd'[g] = cmd[g] /\ (g \in late' => g \in late)
        /\ pc'[h] = "load"
        /\ h \in late' => h \in late \/ expired
        /\ UNCHANGED <<keys, audit, expired>>
    BY <1>0, <1>6 DEF SubmitApproval, Goto, store
  <2> HIDE DEF IInv, TypeOK, CommandHeld, Received, Investigation
  <2> QED BY <2>1 DEF IInv
<1>7. ASSUME NEW h \in Handlers, LoadState(h) PROVE DecisionJustified'
  BY <1>0, <1>7 DEF LoadState, At, Goto, Leave, Checkpoint, store, history,
     Remember, Audit, Acceptable, Authorised, RequestExpired
<1>8. ASSUME NEW h \in Handlers, AnswerNotWaiting(h) PROVE DecisionJustified'
  BY <1>0, <1>8 DEF AnswerNotWaiting, At, Goto, Leave, Checkpoint, store,
     history, Remember, Audit, Acceptable, Authorised, RequestExpired
<1>9. ASSUME NEW h \in Handlers, CheckCommand(h) PROVE DecisionJustified'
  BY <1>0, <1>9 DEF CheckCommand, At, Goto, Leave, Checkpoint, store, history,
     Remember, Audit, Acceptable, Authorised, RequestExpired
<1>10. ASSUME NEW h \in Handlers, RememberCommand(h) PROVE DecisionJustified'
  BY <1>0, <1>10 DEF RememberCommand, At, Goto, Leave, Checkpoint, store,
     history, Remember, Audit, Acceptable, Authorised, RequestExpired
<1>11. ASSUME NEW h \in Handlers, AnswerDuplicate(h) PROVE DecisionJustified'
  BY <1>0, <1>11 DEF AnswerDuplicate, At, Goto, Leave, Checkpoint, store,
     history, Remember, Audit, Acceptable, Authorised, RequestExpired
<1>12. ASSUME NEW h \in Handlers, RecordCommand(h) PROVE DecisionJustified'
  BY <1>0, <1>12 DEF RecordCommand, At, Goto, Leave, Checkpoint, store,
     history, Remember, Audit, Acceptable, Authorised, RequestExpired
<1>13. ASSUME NEW h \in Handlers, RejectCommand(h) PROVE DecisionJustified'
  BY <1>0, <1>13 DEF RejectCommand, At, Goto, Leave, Checkpoint, store,
     history, Remember, Audit, Acceptable, Authorised, RequestExpired
<1>14. ASSUME NEW h \in Handlers, RecheckCommand(h) PROVE DecisionJustified'
  BY <1>0, <1>14 DEF RecheckCommand, At, Goto, Leave, Checkpoint, store,
     history, Remember, Audit, Acceptable, Authorised, RequestExpired
<1>15. ASSUME NEW h \in Handlers, EnterRemediation(h) PROVE DecisionJustified'
  BY <1>0, <1>15 DEF EnterRemediation, At, Goto, Leave, Checkpoint, store,
     history, Remember, Audit, Acceptable, Authorised, RequestExpired
<1>16. ASSUME NEW h \in Handlers, CheckExecution(h) PROVE DecisionJustified'
  <2>1. CASE MayExecute(copy[h])
    BY <1>0, <1>16, <2>1 DEF CheckExecution, MayExecute, At, Goto, Leave,
       Checkpoint, store, history, Remember, Audit, Acceptable, Authorised,
       RequestExpired
  <2>2. CASE ~MayExecute(copy[h])
    BY <1>0, <1>16, <2>2 DEF CheckExecution, At, Goto, Leave, Checkpoint, store,
       history, Remember, Audit, Acceptable, Authorised, RequestExpired
  <2> QED BY <2>1, <2>2
<1>17. ASSUME NEW h \in Handlers, ClaimRemediation(h) PROVE DecisionJustified'
  BY <1>0, <1>17 DEF ClaimRemediation, At, Goto, Leave, Checkpoint, store,
     history, Remember, Audit, Acceptable, Authorised, RequestExpired
<1>18. ASSUME NEW h \in Handlers, SkipDuplicateRemediation(h) PROVE DecisionJustified'
  BY <1>0, <1>18 DEF SkipDuplicateRemediation, At, Goto, Leave, Checkpoint,
     store, history, Remember, Audit, Acceptable, Authorised, RequestExpired
<1>19. ASSUME NEW h \in Handlers, InvokeRemediation(h) PROVE DecisionJustified'
  BY <1>0, <1>19 DEF InvokeRemediation, At, Goto, Leave, Checkpoint, store,
     history, Remember, Audit, Acceptable, Authorised, RequestExpired
<1>20. ASSUME NEW h \in Handlers, RecordReceipt(h) PROVE DecisionJustified'
  BY <1>0, <1>20 DEF RecordReceipt, At, Goto, Leave, Checkpoint, store,
     history, Remember, Audit, Acceptable, Authorised, RequestExpired
<1>21. ASSUME NEW h \in Handlers, VerifyMitigation(h) PROVE DecisionJustified'
  BY <1>0, <1>21 DEF VerifyMitigation, At, Goto, Leave, Checkpoint, store,
     history, Remember, Audit, Acceptable, Authorised, RequestExpired
<1>22. ASSUME NEW h \in Handlers, ReportResult(h) PROVE DecisionJustified'
  BY <1>0, <1>22 DEF ReportResult, At, Goto, Leave, Checkpoint, store, history,
     Remember, Audit, Acceptable, Authorised, RequestExpired
<1>23. ASSUME NEW h \in Handlers, EnterPostMortem(h) PROVE DecisionJustified'
  BY <1>0, <1>23 DEF EnterPostMortem, At, Goto, Leave, Checkpoint, store,
     history, Remember, Audit, Acceptable, Authorised, RequestExpired
<1>24. ASSUME NEW h \in Handlers, PublishPostMortem(h) PROVE DecisionJustified'
  BY <1>0, <1>24 DEF PublishPostMortem, At, Goto, Leave, Checkpoint, store,
     history, Remember, Audit, Acceptable, Authorised, RequestExpired
<1>25. ASSUME NEW h \in Handlers, Complete(h) PROVE DecisionJustified'
  BY <1>0, <1>25 DEF Complete, At, Goto, Leave, Checkpoint, store, history,
     Remember, Audit, Acceptable, Authorised, RequestExpired
<1>26. ASSUME NEW p \in Procs, Abort(p) PROVE DecisionJustified'
  BY <1>0, <1>26 DEF Abort, At, Goto, Leave, Checkpoint, store, history,
     Remember, Audit, Acceptable, Authorised, RequestExpired
<1>27. CASE UNCHANGED vars
  BY <1>0, <1>27 DEF vars, At
<1>28. CASE CloseClients
  BY <1>0, <1>28 DEF CloseClients, At, Goto, Leave, store, history
<1>29. CASE LoadToFail
  BY <1>0, <1>29 DEF LoadToFail, At, Goto, Leave, store, history
<1>30. CASE MarkFailed
  BY <1>0, <1>30 DEF MarkFailed, At, Goto, Leave, store, history
<1>31. ASSUME NEW k \in SharedKeys, SpendElsewhere(k) PROVE DecisionJustified'
  BY <1>0, <1>31 DEF SpendElsewhere, Remember, At, history
<1> HIDE DEF IInv, TypeOK, DecisionJustified, CommandHeld, Accepted,
     Continuing, Received, Investigation
<1> QED BY <1>1, <1>2, <1>3, <1>4, <1>5, <1>6, <1>7, <1>8, <1>9, <1>10, <1>11,
        <1>12, <1>13, <1>14, <1>15, <1>16, <1>17, <1>18, <1>19, <1>20, <1>21,
        <1>22, <1>23, <1>24, <1>25, <1>26, <1>27, <1>28, <1>29, <1>30, <1>31
        DEF Next, RunStep, HandlerStep, ContinueStep

\* Only the first to insert the remediation key gets to the tool.
LEMMA NextClaimIsExclusive ==
  ASSUME IInv, [Next]_vars
  PROVE  ClaimIsExclusive'
<1> USE DEF IInv, TypeOK, ClaimIsExclusive
<1>0. Runner \in Procs /\ Runner \notin Handlers /\ Handlers \subseteq Procs
  BY DEF Procs
<1>1. CASE PostApprovalRequest
  BY <1>0, <1>1 DEF PostApprovalRequest, At, Goto, Leave, Checkpoint, store,
     history, Remember
<1>2. CASE ParkForApproval
  BY <1>0, <1>2 DEF ParkForApproval, At, Goto, Leave, Checkpoint, store,
     history, Remember
<1>3. CASE FailUnnotifiedRequest
  BY <1>0, <1>3 DEF FailUnnotifiedRequest, At, Goto, Leave, Checkpoint, store,
     history, Remember
<1>4. CASE RunRaises
  BY <1>0, <1>4 DEF RunRaises, At, Goto, Leave, Checkpoint, store, history,
     Remember
<1>5. CASE Expire
  BY <1>0, <1>5 DEF Expire, At, store, history
<1>6. ASSUME NEW h \in Handlers, SubmitApproval(h) PROVE ClaimIsExclusive'
  BY <1>0, <1>6 DEF SubmitApproval, At, Goto, Leave, Checkpoint, store,
     history, Remember
<1>7. ASSUME NEW h \in Handlers, LoadState(h) PROVE ClaimIsExclusive'
  BY <1>0, <1>7 DEF LoadState, At, Goto, Leave, Checkpoint, store, history,
     Remember
<1>8. ASSUME NEW h \in Handlers, AnswerNotWaiting(h) PROVE ClaimIsExclusive'
  BY <1>0, <1>8 DEF AnswerNotWaiting, At, Goto, Leave, Checkpoint, store,
     history, Remember
<1>9. ASSUME NEW h \in Handlers, CheckCommand(h) PROVE ClaimIsExclusive'
  BY <1>0, <1>9 DEF CheckCommand, At, Goto, Leave, Checkpoint, store, history,
     Remember
<1>10. ASSUME NEW h \in Handlers, RememberCommand(h) PROVE ClaimIsExclusive'
  BY <1>0, <1>10 DEF RememberCommand, At, Goto, Leave, Checkpoint, store,
     history, Remember
<1>11. ASSUME NEW h \in Handlers, AnswerDuplicate(h) PROVE ClaimIsExclusive'
  BY <1>0, <1>11 DEF AnswerDuplicate, At, Goto, Leave, Checkpoint, store,
     history, Remember
<1>12. ASSUME NEW h \in Handlers, RecordCommand(h) PROVE ClaimIsExclusive'
  BY <1>0, <1>12 DEF RecordCommand, At, Goto, Leave, Checkpoint, store,
     history, Remember
<1>13. ASSUME NEW h \in Handlers, RejectCommand(h) PROVE ClaimIsExclusive'
  BY <1>0, <1>13 DEF RejectCommand, At, Goto, Leave, Checkpoint, store,
     history, Remember
<1>14. ASSUME NEW h \in Handlers, RecheckCommand(h) PROVE ClaimIsExclusive'
  BY <1>0, <1>14 DEF RecheckCommand, At, Goto, Leave, Checkpoint, store,
     history, Remember
<1>15. ASSUME NEW h \in Handlers, EnterRemediation(h) PROVE ClaimIsExclusive'
  BY <1>0, <1>15 DEF EnterRemediation, At, Goto, Leave, Checkpoint, store,
     history, Remember
<1>16. ASSUME NEW h \in Handlers, CheckExecution(h) PROVE ClaimIsExclusive'
  <2>1. CASE MayExecute(copy[h])
    BY <1>0, <1>16, <2>1 DEF CheckExecution, MayExecute, At, Goto, Leave,
       Checkpoint, store, history, Remember
  <2>2. CASE ~MayExecute(copy[h])
    BY <1>0, <1>16, <2>2 DEF CheckExecution, At, Goto, Leave, Checkpoint, store,
       history, Remember
  <2> QED BY <2>1, <2>2
<1>17. ASSUME NEW h \in Handlers, ClaimRemediation(h) PROVE ClaimIsExclusive'
  BY <1>0, <1>17 DEF ClaimRemediation, At, Goto, Leave, Checkpoint, store,
     history, Remember
<1>18. ASSUME NEW h \in Handlers, SkipDuplicateRemediation(h) PROVE ClaimIsExclusive'
  BY <1>0, <1>18 DEF SkipDuplicateRemediation, At, Goto, Leave, Checkpoint,
     store, history, Remember
<1>19. ASSUME NEW h \in Handlers, InvokeRemediation(h) PROVE ClaimIsExclusive'
  BY <1>0, <1>19 DEF InvokeRemediation, At, Goto, Leave, Checkpoint, store,
     history, Remember
<1>20. ASSUME NEW h \in Handlers, RecordReceipt(h) PROVE ClaimIsExclusive'
  BY <1>0, <1>20 DEF RecordReceipt, At, Goto, Leave, Checkpoint, store,
     history, Remember
<1>21. ASSUME NEW h \in Handlers, VerifyMitigation(h) PROVE ClaimIsExclusive'
  BY <1>0, <1>21 DEF VerifyMitigation, At, Goto, Leave, Checkpoint, store,
     history, Remember
<1>22. ASSUME NEW h \in Handlers, ReportResult(h) PROVE ClaimIsExclusive'
  BY <1>0, <1>22 DEF ReportResult, At, Goto, Leave, Checkpoint, store, history,
     Remember
<1>23. ASSUME NEW h \in Handlers, EnterPostMortem(h) PROVE ClaimIsExclusive'
  BY <1>0, <1>23 DEF EnterPostMortem, At, Goto, Leave, Checkpoint, store,
     history, Remember
<1>24. ASSUME NEW h \in Handlers, PublishPostMortem(h) PROVE ClaimIsExclusive'
  BY <1>0, <1>24 DEF PublishPostMortem, At, Goto, Leave, Checkpoint, store,
     history, Remember
<1>25. ASSUME NEW h \in Handlers, Complete(h) PROVE ClaimIsExclusive'
  BY <1>0, <1>25 DEF Complete, At, Goto, Leave, Checkpoint, store, history,
     Remember
<1>26. ASSUME NEW p \in Procs, Abort(p) PROVE ClaimIsExclusive'
  BY <1>0, <1>26 DEF Abort, At, Goto, Leave, Checkpoint, store, history,
     Remember
<1>27. CASE UNCHANGED vars
  BY <1>0, <1>27 DEF vars, At
<1>28. CASE CloseClients
  BY <1>0, <1>28 DEF CloseClients, At, Goto, Leave, store, history
<1>29. CASE LoadToFail
  BY <1>0, <1>29 DEF LoadToFail, At, Goto, Leave, store, history
<1>30. CASE MarkFailed
  BY <1>0, <1>30 DEF MarkFailed, At, Goto, Leave, store, history
<1>31. ASSUME NEW k \in SharedKeys, SpendElsewhere(k) PROVE ClaimIsExclusive'
  BY <1>0, <1>31 DEF SpendElsewhere, Remember, At, history
<1> HIDE DEF IInv, TypeOK, ClaimIsExclusive
<1> QED BY <1>1, <1>2, <1>3, <1>4, <1>5, <1>6, <1>7, <1>8, <1>9, <1>10, <1>11,
        <1>12, <1>13, <1>14, <1>15, <1>16, <1>17, <1>18, <1>19, <1>20, <1>21,
        <1>22, <1>23, <1>24, <1>25, <1>26, <1>27, <1>28, <1>29, <1>30, <1>31
        DEF Next, RunStep, HandlerStep, ContinueStep

\* What the handlers write is only ever added to, and only InvokeRemediation
\* counts as a production change.
LEMMA HistoryGrows ==
  ASSUME IInv, [Next]_vars
  PROVE  /\ keys \subseteq keys' /\ audit \subseteq audit'
         /\ \/ UNCHANGED <<performed, performedFor>>
            \/ \E h \in Handlers : InvokeRemediation(h)
<1>1. CASE RunStep \/ RunRaises \/ Expire
  BY <1>1 DEF RunStep, PostApprovalRequest, ParkForApproval, FailUnnotifiedRequest,
     CloseClients, LoadToFail, MarkFailed, RunRaises, Expire, store, history
<1>2. ASSUME NEW h \in Handlers, SubmitApproval(h) \/ HandlerStep(h)
      PROVE  /\ keys \subseteq keys' /\ audit \subseteq audit'
             /\ UNCHANGED <<performed, performedFor>>
  BY <1>2 DEF SubmitApproval, HandlerStep, LoadState, AnswerNotWaiting,
     CheckCommand, RememberCommand, Remember, AnswerDuplicate, RecordCommand,
     Audit, store, history
<1>3. ASSUME NEW h \in Handlers, ContinueStep(h), ~InvokeRemediation(h)
      PROVE  /\ keys \subseteq keys' /\ audit \subseteq audit'
             /\ UNCHANGED <<performed, performedFor>>
  BY <1>3 DEF ContinueStep, RejectCommand, RecheckCommand, EnterRemediation,
     CheckExecution, ClaimRemediation, Remember, SkipDuplicateRemediation,
     RecordReceipt, VerifyMitigation, ReportResult, EnterPostMortem,
     PublishPostMortem, Complete, Audit, store, history
<1>4. ASSUME NEW h \in Handlers, InvokeRemediation(h)
      PROVE  keys \subseteq keys' /\ audit \subseteq audit'
  BY <1>4 DEF InvokeRemediation, store
<1>5. CASE \/ \E p \in Procs : Abort(p)
           \/ \E k \in SharedKeys : SpendElsewhere(k)
           \/ UNCHANGED vars
  BY <1>5 DEF Abort, SpendElsewhere, Remember, store, history, vars
<1> QED BY <1>1, <1>2, <1>3, <1>4, <1>5 DEF Next

\* The tool is invoked by the handler that holds the claim, and by no other.
LEMMA NextAtMostOne ==
  ASSUME IInv, [Next]_vars
  PROVE  AtMostOneRemediation'
<1>1. CASE UNCHANGED <<performed, performedFor>>
  BY <1>1 DEF IInv, AtMostOneRemediation
<1>2. ASSUME NEW h \in Handlers, InvokeRemediation(h)
      PROVE  AtMostOneRemediation'
  <2>1. performed = 0
    BY <1>2 DEF IInv, ClaimIsExclusive, InvokeRemediation
  <2> QED BY <1>2, <2>1 DEF InvokeRemediation, AtMostOneRemediation
<1> QED BY <1>1, <1>2, HistoryGrows

\* The command the tool is invoked for has passed the checks of DecisionJustified.
LEMMA NextChangeIsApproved ==
  ASSUME IInv, [Next]_vars
  PROVE  ChangeIsApproved'
<1>1. CASE UNCHANGED <<performed, performedFor>>
  BY <1>1, HistoryGrows DEF IInv, ChangeIsApproved
<1>2. ASSUME NEW h \in Handlers, InvokeRemediation(h)
      PROVE  ChangeIsApproved'
  <2>1. copy[h].command = cmd[h] /\ pc[h] = "invoke"
    BY <1>2 DEF IInv, CommandHeld, Continuing, InvokeRemediation, At
  <2>2. /\ cmd[h].request = RequestId
        /\ cmd[h].approver \in Approvers
        /\ cmd[h].decision = "approve"
        /\ cmd[h].key \in keys
        /\ Received(cmd[h]) \in audit
    BY <2>1 DEF IInv, DecisionJustified, Accepted, Continuing
  <2>3. performedFor' = performedFor \cup {cmd[h]}
    BY <1>2, <2>1 DEF InvokeRemediation
  <2>4. keys' = keys /\ audit' = audit
    BY <1>2 DEF InvokeRemediation, store
  <2> QED BY <2>2, <2>3, <2>4 DEF IInv, ChangeIsApproved, Received
<1> QED BY <1>1, <1>2, HistoryGrows

\* Verification comes after the invocation.
LEMMA NextVerifiesAChange ==
  ASSUME IInv, [Next]_vars
  PROVE  VerifiesAChange'
<1> USE DEF IInv, TypeOK, VerifiesAChange
<1>0. Runner \in Procs /\ Runner \notin Handlers /\ Handlers \subseteq Procs
  BY DEF Procs
<1>1. CASE PostApprovalRequest
  BY <1>0, <1>1 DEF PostApprovalRequest, At, Goto, Leave, Checkpoint, store,
     history
<1>2. CASE ParkForApproval
  BY <1>0, <1>2 DEF ParkForApproval, At, Goto, Leave, Checkpoint, store,
     history
<1>3. CASE FailUnnotifiedRequest
  BY <1>0, <1>3 DEF FailUnnotifiedRequest, At, Goto, Leave, Checkpoint, store,
     history
<1>4. CASE RunRaises
  BY <1>0, <1>4 DEF RunRaises, At, Goto, Leave, Checkpoint, store, history
<1>5. CASE Expire
  BY <1>0, <1>5 DEF Expire, At, store, history
<1>6. ASSUME NEW h \in Handlers, SubmitApproval(h) PROVE VerifiesAChange'
  BY <1>0, <1>6 DEF SubmitApproval, At, Goto, Leave, Checkpoint, store, history
<1>7. ASSUME NEW h \in Handlers, LoadState(h) PROVE VerifiesAChange'
  BY <1>0, <1>7 DEF LoadState, At, Goto, Leave, Checkpoint, store, history
<1>8. ASSUME NEW h \in Handlers, AnswerNotWaiting(h) PROVE VerifiesAChange'
  BY <1>0, <1>8 DEF AnswerNotWaiting, At, Goto, Leave, Checkpoint, store,
     history
<1>9. ASSUME NEW h \in Handlers, CheckCommand(h) PROVE VerifiesAChange'
  BY <1>0, <1>9 DEF CheckCommand, At, Goto, Leave, Checkpoint, store, history
<1>10. ASSUME NEW h \in Handlers, RememberCommand(h) PROVE VerifiesAChange'
  BY <1>0, <1>10 DEF RememberCommand, At, Goto, Leave, Checkpoint, store,
     history
<1>11. ASSUME NEW h \in Handlers, AnswerDuplicate(h) PROVE VerifiesAChange'
  BY <1>0, <1>11 DEF AnswerDuplicate, At, Goto, Leave, Checkpoint, store,
     history
<1>12. ASSUME NEW h \in Handlers, RecordCommand(h) PROVE VerifiesAChange'
  BY <1>0, <1>12 DEF RecordCommand, At, Goto, Leave, Checkpoint, store, history
<1>13. ASSUME NEW h \in Handlers, RejectCommand(h) PROVE VerifiesAChange'
  BY <1>0, <1>13 DEF RejectCommand, At, Goto, Leave, Checkpoint, store, history
<1>14. ASSUME NEW h \in Handlers, RecheckCommand(h) PROVE VerifiesAChange'
  BY <1>0, <1>14 DEF RecheckCommand, At, Goto, Leave, Checkpoint, store,
     history
<1>15. ASSUME NEW h \in Handlers, EnterRemediation(h) PROVE VerifiesAChange'
  BY <1>0, <1>15 DEF EnterRemediation, At, Goto, Leave, Checkpoint, store,
     history
<1>16. ASSUME NEW h \in Handlers, CheckExecution(h) PROVE VerifiesAChange'
  <2>1. CASE MayExecute(copy[h])
    BY <1>0, <1>16, <2>1 DEF CheckExecution, MayExecute, At, Goto, Leave,
       Checkpoint, store, history
  <2>2. CASE ~MayExecute(copy[h])
    BY <1>0, <1>16, <2>2 DEF CheckExecution, At, Goto, Leave, Checkpoint, store,
       history
  <2> QED BY <2>1, <2>2
<1>17. ASSUME NEW h \in Handlers, ClaimRemediation(h) PROVE VerifiesAChange'
  BY <1>0, <1>17 DEF ClaimRemediation, At, Goto, Leave, Checkpoint, store,
     history
<1>18. ASSUME NEW h \in Handlers, SkipDuplicateRemediation(h) PROVE VerifiesAChange'
  BY <1>0, <1>18 DEF SkipDuplicateRemediation, At, Goto, Leave, Checkpoint,
     store, history
<1>19. ASSUME NEW h \in Handlers, InvokeRemediation(h) PROVE VerifiesAChange'
  BY <1>0, <1>19 DEF InvokeRemediation, At, Goto, Leave, Checkpoint, store,
     history
<1>20. ASSUME NEW h \in Handlers, RecordReceipt(h) PROVE VerifiesAChange'
  BY <1>0, <1>20 DEF RecordReceipt, At, Goto, Leave, Checkpoint, store, history
<1>21. ASSUME NEW h \in Handlers, VerifyMitigation(h) PROVE VerifiesAChange'
  BY <1>0, <1>21 DEF VerifyMitigation, At, Goto, Leave, Checkpoint, store,
     history
<1>22. ASSUME NEW h \in Handlers, ReportResult(h) PROVE VerifiesAChange'
  BY <1>0, <1>22 DEF ReportResult, At, Goto, Leave, Checkpoint, store, history
<1>23. ASSUME NEW h \in Handlers, EnterPostMortem(h) PROVE VerifiesAChange'
  BY <1>0, <1>23 DEF EnterPostMortem, At, Goto, Leave, Checkpoint, store,
     history
<1>24. ASSUME NEW h \in Handlers, PublishPostMortem(h) PROVE VerifiesAChange'
  BY <1>0, <1>24 DEF PublishPostMortem, At, Goto, Leave, Checkpoint, store,
     history
<1>25. ASSUME NEW h \in Handlers, Complete(h) PROVE VerifiesAChange'
  BY <1>0, <1>25 DEF Complete, At, Goto, Leave, Checkpoint, store, history
<1>26. ASSUME NEW p \in Procs, Abort(p) PROVE VerifiesAChange'
  BY <1>0, <1>26 DEF Abort, At, Goto, Leave, Checkpoint, store, history
<1>27. CASE UNCHANGED vars
  BY <1>0, <1>27 DEF vars, At
<1>28. CASE CloseClients
  BY <1>0, <1>28 DEF CloseClients, At, Goto, Leave, store, history
<1>29. CASE LoadToFail
  BY <1>0, <1>29 DEF LoadToFail, At, Goto, Leave, store, history
<1>30. CASE MarkFailed
  BY <1>0, <1>30 DEF MarkFailed, At, Goto, Leave, store, history
<1>31. ASSUME NEW k \in SharedKeys, SpendElsewhere(k) PROVE VerifiesAChange'
  BY <1>0, <1>31 DEF SpendElsewhere, Remember, At, history
<1> HIDE DEF IInv, TypeOK, VerifiesAChange
<1> QED BY <1>1, <1>2, <1>3, <1>4, <1>5, <1>6, <1>7, <1>8, <1>9, <1>10, <1>11,
        <1>12, <1>13, <1>14, <1>15, <1>16, <1>17, <1>18, <1>19, <1>20, <1>21,
        <1>22, <1>23, <1>24, <1>25, <1>26, <1>27, <1>28, <1>29, <1>30, <1>31
        DEF Next, RunStep, HandlerStep, ContinueStep

\* The result executed is written only by a verification that was confirmed;
\* every other step copies results that are already there.
LEMMA NextExecutedIsConfirmed ==
  ASSUME IInv, [Next]_vars
  PROVE  ExecutedIsConfirmed'
<1> USE DEF IInv, TypeOK, ExecutedIsConfirmed, VerifiesAChange, Investigation
<1>0. Runner \in Procs /\ Runner \notin Handlers /\ Handlers \subseteq Procs
  BY DEF Procs
<1>1. CASE PostApprovalRequest
  BY <1>0, <1>1 DEF PostApprovalRequest, At, Goto, Leave, Checkpoint, store,
     history, Proposal, Verdict
<1>2. CASE ParkForApproval
  BY <1>0, <1>2 DEF ParkForApproval, At, Goto, Leave, Checkpoint, store,
     history, Proposal, Verdict
<1>3. CASE FailUnnotifiedRequest
  BY <1>0, <1>3 DEF FailUnnotifiedRequest, At, Goto, Leave, Checkpoint, store,
     history, Proposal, Verdict
<1>4. CASE RunRaises
  BY <1>0, <1>4 DEF RunRaises, At, Goto, Leave, Checkpoint, store, history,
     Proposal, Verdict
<1>5. CASE Expire
  BY <1>0, <1>5 DEF Expire, At, store, history
<1>6. ASSUME NEW h \in Handlers, SubmitApproval(h) PROVE ExecutedIsConfirmed'
  BY <1>0, <1>6 DEF SubmitApproval, At, Goto, Leave, Checkpoint, store,
     history, Proposal, Verdict
<1>7. ASSUME NEW h \in Handlers, LoadState(h) PROVE ExecutedIsConfirmed'
  BY <1>0, <1>7 DEF LoadState, At, Goto, Leave, Checkpoint, store, history,
     Proposal, Verdict
<1>8. ASSUME NEW h \in Handlers, AnswerNotWaiting(h) PROVE ExecutedIsConfirmed'
  BY <1>0, <1>8 DEF AnswerNotWaiting, At, Goto, Leave, Checkpoint, store,
     history, Proposal, Verdict
<1>9. ASSUME NEW h \in Handlers, CheckCommand(h) PROVE ExecutedIsConfirmed'
  BY <1>0, <1>9 DEF CheckCommand, At, Goto, Leave, Checkpoint, store, history,
     Proposal, Verdict
<1>10. ASSUME NEW h \in Handlers, RememberCommand(h) PROVE ExecutedIsConfirmed'
  BY <1>0, <1>10 DEF RememberCommand, At, Goto, Leave, Checkpoint, store,
     history, Proposal, Verdict
<1>11. ASSUME NEW h \in Handlers, AnswerDuplicate(h) PROVE ExecutedIsConfirmed'
  BY <1>0, <1>11 DEF AnswerDuplicate, At, Goto, Leave, Checkpoint, store,
     history, Proposal, Verdict
<1>12. ASSUME NEW h \in Handlers, RecordCommand(h) PROVE ExecutedIsConfirmed'
  BY <1>0, <1>12 DEF RecordCommand, At, Goto, Leave, Checkpoint, store,
     history, Proposal, Verdict
<1>13. ASSUME NEW h \in Handlers, RejectCommand(h) PROVE ExecutedIsConfirmed'
  BY <1>0, <1>13 DEF RejectCommand, At, Goto, Leave, Checkpoint, store,
     history, Proposal, Verdict
<1>14. ASSUME NEW h \in Handlers, RecheckCommand(h) PROVE ExecutedIsConfirmed'
  BY <1>0, <1>14 DEF RecheckCommand, At, Goto, Leave, Checkpoint, store,
     history, Proposal, Verdict
<1>15. ASSUME NEW h \in Handlers, EnterRemediation(h) PROVE ExecutedIsConfirmed'
  BY <1>0, <1>15 DEF EnterRemediation, At, Goto, Leave, Checkpoint, store,
     history, Proposal, Verdict
<1>16. ASSUME NEW h \in Handlers, CheckExecution(h) PROVE ExecutedIsConfirmed'
  <2>1. CASE MayExecute(copy[h])
    BY <1>0, <1>16, <2>1 DEF CheckExecution, MayExecute, At, Goto, Leave,
       Checkpoint, store, history, Proposal, Verdict
  <2>2. CASE ~MayExecute(copy[h])
    BY <1>0, <1>16, <2>2 DEF CheckExecution, At, Goto, Leave, Checkpoint, store,
       history, Proposal, Verdict
  <2> QED BY <2>1, <2>2
<1>17. ASSUME NEW h \in Handlers, ClaimRemediation(h) PROVE ExecutedIsConfirmed'
  BY <1>0, <1>17 DEF ClaimRemediation, At, Goto, Leave, Checkpoint, store,
     history, Proposal, Verdict
<1>18. ASSUME NEW h \in Handlers, SkipDuplicateRemediation(h) PROVE ExecutedIsConfirmed'
  BY <1>0, <1>18 DEF SkipDuplicateRemediation, At, Goto, Leave, Checkpoint,
     store, history, Proposal, Verdict
<1>19. ASSUME NEW h \in Handlers, InvokeRemediation(h) PROVE ExecutedIsConfirmed'
  BY <1>0, <1>19 DEF InvokeRemediation, At, Goto, Leave, Checkpoint, store,
     history, Proposal, Verdict
<1>20. ASSUME NEW h \in Handlers, RecordReceipt(h) PROVE ExecutedIsConfirmed'
  BY <1>0, <1>20 DEF RecordReceipt, At, Goto, Leave, Checkpoint, store,
     history, Proposal, Verdict
<1>21. ASSUME NEW h \in Handlers, VerifyMitigation(h) PROVE ExecutedIsConfirmed'
  BY <1>0, <1>21 DEF VerifyMitigation, At, Goto, Leave, Checkpoint, store,
     history, Proposal, Verdict
<1>22. ASSUME NEW h \in Handlers, ReportResult(h) PROVE ExecutedIsConfirmed'
  BY <1>0, <1>22 DEF ReportResult, At, Goto, Leave, Checkpoint, store, history,
     Proposal, Verdict
<1>23. ASSUME NEW h \in Handlers, EnterPostMortem(h) PROVE ExecutedIsConfirmed'
  BY <1>0, <1>23 DEF EnterPostMortem, At, Goto, Leave, Checkpoint, store,
     history, Proposal, Verdict
<1>24. ASSUME NEW h \in Handlers, PublishPostMortem(h) PROVE ExecutedIsConfirmed'
  BY <1>0, <1>24 DEF PublishPostMortem, At, Goto, Leave, Checkpoint, store,
     history, Proposal, Verdict
<1>25. ASSUME NEW h \in Handlers, Complete(h) PROVE ExecutedIsConfirmed'
  BY <1>0, <1>25 DEF Complete, At, Goto, Leave, Checkpoint, store, history,
     Proposal, Verdict
<1>26. ASSUME NEW p \in Procs, Abort(p) PROVE ExecutedIsConfirmed'
  BY <1>0, <1>26 DEF Abort, At, Goto, Leave, Checkpoint, store, history,
     Proposal, Verdict
<1>27. CASE UNCHANGED vars
  BY <1>0, <1>27 DEF vars, At
<1>28. CASE CloseClients
  BY <1>0, <1>28 DEF CloseClients, At, Goto, Leave, store, history, Proposal
<1>29. CASE LoadToFail
  BY <1>0, <1>29 DEF LoadToFail, At, Goto, Leave, store, history, Proposal
<1>30. CASE MarkFailed
  BY <1>0, <1>30 DEF MarkFailed, At, Goto, Leave, store, history, Proposal
<1>31. ASSUME NEW k \in SharedKeys, SpendElsewhere(k) PROVE ExecutedIsConfirmed'
  BY <1>0, <1>31 DEF SpendElsewhere, Remember, At, history
<1> HIDE DEF IInv, TypeOK, ExecutedIsConfirmed, VerifiesAChange, Investigation
<1> QED BY <1>1, <1>2, <1>3, <1>4, <1>5, <1>6, <1>7, <1>8, <1>9, <1>10, <1>11,
        <1>12, <1>13, <1>14, <1>15, <1>16, <1>17, <1>18, <1>19, <1>20, <1>21,
        <1>22, <1>23, <1>24, <1>25, <1>26, <1>27, <1>28, <1>29, <1>30, <1>31
        DEF Next, RunStep, HandlerStep, ContinueStep

-----------------------------------------------------------------------------
(* The theorems.                                                           *)

\* Every conjunct of the inductive invariant holds when the run starts.
LEMMA InitIInv == Init => IInv
<1> SUFFICES ASSUME Init PROVE IInv
  OBVIOUS
<1>1. TypeOK
  BY InitTypeOK
<1>2. \A h \in Handlers : pc[h] = "idle"
  BY DEF Init, Procs
<1>3. CommandHeld /\ DecisionJustified /\ ClaimIsExclusive /\ VerifiesAChange
  BY <1>2 DEF Init, CommandHeld, DecisionJustified,
     ClaimIsExclusive, VerifiesAChange, Accepted, Continuing, At
<1>4. AtMostOneRemediation /\ ChangeIsApproved
  BY DEF Init, AtMostOneRemediation, ChangeIsApproved
<1>5. ExecutedIsConfirmed
  BY DEF Init, Proposal, ExecutedIsConfirmed
<1> QED BY <1>1, <1>3, <1>4, <1>5 DEF IInv

\* Every step of the run, of a handler or of the environment preserves it.
LEMMA NextIInv == IInv /\ [Next]_vars => IInv'
<1> SUFFICES ASSUME IInv, [Next]_vars PROVE IInv'
  OBVIOUS
<1>1. TypeOK'
  BY NextTypeOK DEF IInv
<1> QED BY <1>1, NextCommandHeld, NextDecisionJustified, NextClaimIsExclusive,
        NextAtMostOne, NextChangeIsApproved, NextVerifiesAChange,
        NextExecutedIsConfirmed DEF IInv

\* Every state that the steps of the code reach satisfies the inductive invariant.
THEOREM Invariance == Spec => []IInv
  BY InitIInv, NextIInv, PTL DEF Spec

\* Each property of the concurrent instance holds for every instance.
THEOREM TypeCorrectness == Spec => []TypeOK
<1>1. IInv => TypeOK
  BY DEF IInv
<1> QED BY <1>1, Invariance, PTL

THEOREM RemediatedAtMostOnce == Spec => []AtMostOneRemediation
<1>1. IInv => AtMostOneRemediation
  BY DEF IInv
<1> QED BY <1>1, Invariance, PTL

THEOREM ChangesAreApproved == Spec => []ChangeIsApproved
<1>1. IInv => ChangeIsApproved
  BY DEF IInv
<1> QED BY <1>1, Invariance, PTL

\* A handler whose command came too late is still at, or was turned away by,
\* the checks: DecisionJustified places no late handler beyond them.
THEOREM LateCommandsChangeNothing == Spec => []NoChangeOnLateCommand
<1>1. IInv => NoChangeOnLateCommand
  BY DEF IInv, DecisionJustified, NoChangeOnLateCommand, Accepted, Continuing
<1> QED BY <1>1, Invariance, PTL

THEOREM ExecutedResultsAreConfirmed == Spec => []ExecutedIsConfirmed
<1>1. IInv => ExecutedIsConfirmed
  BY DEF IInv
<1> QED BY <1>1, Invariance, PTL

-----------------------------------------------------------------------------
(* The gate implements the one-shot remediation.                           *)

\* Nothing is received, claimed or changed when the run starts.
LEMMA InitRefines == Init => OneShot!Init
  BY DEF Init, OneShot!Init

\* Recording a command is a Receive, inserting the remediation key a Spend,
\* invoking the tool a Change, and every other step a stutter.
LEMMA NextRefines ==
  ASSUME IInv, [Next]_vars
  PROVE  [OneShot!Next]_(OneShot!vars)
<1> DEFINE Got == {c \in Commands :
             [event |-> "approval_command_received", command |-> c] \in audit}
<1> DEFINE Spent == RemediationKey \in keys
<1>1. ASSUME Got' = Got, Spent' = Spent, UNCHANGED <<performed, performedFor>>
      PROVE  UNCHANGED OneShot!vars
  BY <1>1 DEF OneShot!vars
<1>2. ASSUME UNCHANGED <<audit, keys, performed, performedFor>>
      PROVE  UNCHANGED OneShot!vars
  BY <1>2 DEF OneShot!vars
<1>3. CASE RunStep \/ RunRaises \/ Expire \/ (\E p \in Procs : Abort(p))
  BY <1>2, <1>3 DEF RunStep, PostApprovalRequest, ParkForApproval,
     FailUnnotifiedRequest, CloseClients, LoadToFail, MarkFailed, RunRaises, Expire,
     Abort, store, history
<1>4. CASE UNCHANGED vars
  BY <1>2, <1>4 DEF vars
<1>5. ASSUME NEW h \in Handlers, SubmitApproval(h) PROVE UNCHANGED OneShot!vars
  BY <1>2, <1>5 DEF SubmitApproval, store
<1>6. ASSUME NEW h \in Handlers, HandlerStep(h)
      PROVE  OneShot!Next \/ UNCHANGED OneShot!vars
  <2>1. CASE LoadState(h) \/ AnswerNotWaiting(h) \/ CheckCommand(h)
               \/ AnswerDuplicate(h)
    BY <1>2, <2>1 DEF LoadState, AnswerNotWaiting, CheckCommand,
       AnswerDuplicate, store, history
  <2>2. CASE RememberCommand(h)
    <3>1. /\ UNCHANGED <<audit, performed, performedFor>>
          /\ keys' = keys \cup {cmd[h].key}
      BY <2>2 DEF RememberCommand, Remember, history
    <3>2. CASE RemediationKey = cmd[h].key
      BY <3>1, <3>2 DEF OneShot!Next, OneShot!Spend
    <3>3. CASE RemediationKey # cmd[h].key
      BY <3>1, <3>3 DEF OneShot!vars
    <3> QED BY <3>2, <3>3
  <2>3. CASE RecordCommand(h)
    <3>1. /\ UNCHANGED <<keys, performed, performedFor>>
          /\ audit' = audit \cup {[event |-> "approval_command_received",
                                   command |-> cmd[h]]}
      BY <2>3 DEF RecordCommand, Audit, history
    <3>2. /\ cmd[h] \in Commands
          /\ cmd[h].request = RequestId
          /\ cmd[h].approver \in Approvers
      BY <2>3 DEF RecordCommand, At, IInv, CommandHeld, DecisionJustified, Accepted
    <3>3. Got' = Got \cup {cmd[h]}
      BY <3>1, <3>2
    <3> QED BY <3>1, <3>2, <3>3 DEF OneShot!Next, OneShot!Receive
  <2> QED BY <1>6, <2>1, <2>2, <2>3 DEF HandlerStep
<1>7. ASSUME NEW h \in Handlers, ContinueStep(h)
      PROVE  OneShot!Next \/ UNCHANGED OneShot!vars
  <2>1. CASE RecheckCommand(h) \/ EnterRemediation(h) \/ CheckExecution(h)
               \/ SkipDuplicateRemediation(h)
    BY <1>2, <2>1 DEF RecheckCommand, EnterRemediation, CheckExecution,
       SkipDuplicateRemediation, store, history
  <2>2. CASE RecordReceipt(h) \/ VerifyMitigation(h) \/ ReportResult(h)
               \/ EnterPostMortem(h) \/ PublishPostMortem(h)
               \/ Complete(h)
    BY <1>2, <2>2 DEF RecordReceipt, VerifyMitigation, ReportResult,
       EnterPostMortem, PublishPostMortem, Complete, history
  <2>3. CASE RejectCommand(h)
    <3>1. /\ UNCHANGED <<keys, performed, performedFor>>
          /\ audit' = audit \cup {[event |-> "approval_command_rejected",
                                   command |-> NoCommand]}
      BY <2>3 DEF RejectCommand, Audit
    <3> QED BY <1>1, <3>1
  <2>4. CASE ClaimRemediation(h)
    BY <2>4 DEF ClaimRemediation, Remember, history, OneShot!Next, OneShot!Spend
  <2>5. CASE InvokeRemediation(h)
    <3>1. /\ At(h, "invoke")
          /\ performed' = performed + 1
          /\ performedFor' = performedFor \cup {copy[h].command}
          /\ UNCHANGED <<keys, audit>>
      BY <2>5 DEF InvokeRemediation, store
    <3>2. performed = 0 /\ performedFor = {} /\ RemediationKey \in keys
      BY <3>1 DEF IInv, ClaimIsExclusive
    <3>3. /\ copy[h].command = cmd[h]
          /\ cmd[h] \in Got
          /\ cmd[h].decision = "approve"
      BY <3>1 DEF IInv, CommandHeld, DecisionJustified, Continuing, Received, At
    <3>4. performed' = 1 /\ performedFor' = {cmd[h]} /\ performed = 0
      BY <3>1, <3>2, <3>3
    <3>5. OneShot!Change(cmd[h])
      BY <3>1, <3>2, <3>3, <3>4 DEF OneShot!Change
    <3> QED BY <3>3, <3>5 DEF OneShot!Next
  <2> QED BY <1>7, <2>1, <2>2, <2>3, <2>4, <2>5 DEF ContinueStep
<1>8. ASSUME NEW k \in SharedKeys, SpendElsewhere(k)
      PROVE  OneShot!Next \/ UNCHANGED OneShot!vars
  <2>1. UNCHANGED <<audit, performed, performedFor>> /\ keys' = keys \cup {k}
    BY <1>8 DEF SpendElsewhere, Remember, history
  <2>2. CASE RemediationKey = k
    BY <2>1, <2>2 DEF OneShot!Next, OneShot!Spend
  <2>3. CASE RemediationKey # k
    BY <2>1, <2>3 DEF OneShot!vars
  <2> QED BY <2>2, <2>3
<1> QED BY <1>3, <1>4, <1>5, <1>6, <1>7, <1>8 DEF Next

THEOREM GateImplementsOneShot == Spec => RemediatesOnce
  BY InitRefines, NextRefines, Invariance, PTL
     DEF Spec, OneShot!Spec, RemediatesOnce
-----------------------------------------------------------------------------
(* One handler at a time: what a completed record says of production.      *)

Executing == {"execute", "claim", "invoke"}
Reporting == {"report", "conclude", "publish", "complete"}

Tells(record) == record.result \in {"executed", "failed"} <=> performed = 1

\* With one handler h nothing that waits was executed, h has performed nothing up to
\* the tool, and h alone completes the record.  Once parked, the run may still write
\* a record that failed over what h has written, and no other.
Serial(h) ==
  /\ pc[Runner] \in {"post", "park", "unnotified"} =>
       /\ performed = 0
       /\ pc[h] \in {"idle", "load", "check"}
       /\ saved.status = "running" /\ copy[Runner].status = "running"
       /\ pc[h] = "check" => copy[h].status # "waiting_for_approval"
  /\ saved.status = "waiting_for_approval" => performed = 0
  /\ \/ pc[h] = "check" /\ copy[h].status = "waiting_for_approval"
     \/ pc[h] \in {"reject", "remember", "record", "recheck", "transition"}
     => /\ performed = 0
        /\ saved.status \in {"waiting_for_approval", "failed"}
        /\ copy[h].status = "waiting_for_approval"
  /\ pc[h] \in Executing \cup {"receipt", "verify"} \cup Reporting =>
       saved.status \in {"running", "failed"} /\ copy[h].status = "running"
  /\ pc[h] \in Executing => performed = 0
  /\ pc[h] \in {"receipt", "verify"} => performed = 1
  /\ pc[h] \in Reporting => Tells(copy[h])
  /\ saved.status = "completed" => Tells(saved)

LEMMA InitSerial ==
  ASSUME NEW h \in Handlers, Init
  PROVE  Serial(h)
<1>1. /\ pc[h] = "idle" /\ saved.status = "running" /\ performed = 0
      /\ copy[Runner].status = "running"
  BY DEF Init, Procs, Proposal
<1> QED BY <1>1 DEF Serial, Executing, Reporting

LEMMA NextSerial ==
  ASSUME NEW h, Handlers = {h}, IInv, Serial(h), [Next]_vars
  PROVE  Serial(h)'
<1> USE DEF Serial, Tells, Executing, Reporting
<1>0. /\ Runner \in Procs /\ Runner # h /\ h \in Procs
      /\ pc \in [Procs -> Labels] /\ copy \in [Procs -> Investigation]
      /\ saved \in Investigation /\ performed \in Nat
  BY DEF Procs, IInv, TypeOK
<1> USE DEF Investigation, At, Goto, Leave, Checkpoint, store, history
<1>1. CASE PostApprovalRequest
  <2>1. /\ pc[Runner] = "post" /\ pc'[h] = pc[h] /\ copy'[h] = copy[h]
        /\ saved'.status = copy[Runner].status /\ copy'[Runner].status = copy[Runner].status
        /\ UNCHANGED performed
    BY <1>0, <1>1 DEF PostApprovalRequest
  <2> QED BY <2>1
<1>2. CASE ParkForApproval
  BY <1>0, <1>2 DEF ParkForApproval
<1>3. CASE FailUnnotifiedRequest
  BY <1>0, <1>3 DEF FailUnnotifiedRequest
<1>4. CASE RunRaises
  BY <1>0, <1>4 DEF RunRaises
<1>5. CASE Expire
  BY <1>0, <1>5 DEF Expire
<1>6. CASE SubmitApproval(h)
  BY <1>0, <1>6 DEF SubmitApproval
<1>7. CASE LoadState(h)
  BY <1>0, <1>7 DEF LoadState
<1>8. CASE AnswerNotWaiting(h)
  BY <1>0, <1>8 DEF AnswerNotWaiting
<1>9. CASE CheckCommand(h)
  <2>1. /\ pc[h] = "check" /\ copy[h].status = "waiting_for_approval"
        /\ pc'[h] \in {"remember", "reject"} /\ pc'[Runner] = pc[Runner]
        /\ UNCHANGED <<saved, copy, performed>>
    BY <1>0, <1>9 DEF CheckCommand
  <2> QED BY <2>1
<1>10. CASE RememberCommand(h)
  BY <1>0, <1>10 DEF RememberCommand
<1>11. CASE AnswerDuplicate(h)
  BY <1>0, <1>11 DEF AnswerDuplicate
<1>12. CASE RecordCommand(h)
  BY <1>0, <1>12 DEF RecordCommand
<1>13. CASE RejectCommand(h)
  BY <1>0, <1>13 DEF RejectCommand
<1>14. CASE RecheckCommand(h)
  <2>1. /\ pc[h] = "recheck"
        /\ pc'[h] \in {"transition", "reject"} /\ pc'[Runner] = pc[Runner]
        /\ UNCHANGED <<saved, copy, performed>>
    BY <1>0, <1>14 DEF RecheckCommand
  <2> QED BY <2>1
<1>15. CASE EnterRemediation(h)
  BY <1>0, <1>15 DEF EnterRemediation
<1>16. CASE CheckExecution(h)
  <2>1. CASE MayExecute(copy[h])
    BY <1>0, <1>16, <2>1 DEF CheckExecution
  <2>2. CASE ~MayExecute(copy[h])
    BY <1>0, <1>16, <2>2 DEF CheckExecution
  <2> QED BY <2>1, <2>2
<1>17. CASE ClaimRemediation(h)
  BY <1>0, <1>17 DEF ClaimRemediation
<1>18. CASE SkipDuplicateRemediation(h)
  BY <1>0, <1>18 DEF SkipDuplicateRemediation
<1>19. CASE InvokeRemediation(h)
  BY <1>0, <1>19 DEF InvokeRemediation
<1>20. CASE RecordReceipt(h)
  BY <1>0, <1>20 DEF RecordReceipt
<1>21. CASE VerifyMitigation(h)
  BY <1>0, <1>21 DEF VerifyMitigation, Verdict
<1>22. CASE ReportResult(h)
  BY <1>0, <1>22 DEF ReportResult
<1>23. CASE EnterPostMortem(h)
  BY <1>0, <1>23 DEF EnterPostMortem
<1>24. CASE PublishPostMortem(h)
  BY <1>0, <1>24 DEF PublishPostMortem
<1>25. CASE Complete(h)
  BY <1>0, <1>25 DEF Complete
<1>26. ASSUME NEW p \in Procs, Abort(p) PROVE Serial(h)'
  <2>1. p = h \/ p = Runner
    BY DEF Procs
  <2> QED BY <1>0, <1>26, <2>1 DEF Abort
<1>27. CASE UNCHANGED vars
  BY <1>27 DEF vars
<1>28. CASE CloseClients
  BY <1>0, <1>28 DEF CloseClients
<1>29. CASE LoadToFail
  BY <1>0, <1>29 DEF LoadToFail
<1>30. CASE MarkFailed
  BY <1>0, <1>30 DEF MarkFailed
<1>31. ASSUME NEW k \in SharedKeys, SpendElsewhere(k) PROVE Serial(h)'
  BY <1>0, <1>31 DEF SpendElsewhere
<1> HIDE DEF Serial, Investigation
<1> QED BY <1>1, <1>2, <1>3, <1>4, <1>5, <1>6, <1>7, <1>8, <1>9, <1>10, <1>11,
        <1>12, <1>13, <1>14, <1>15, <1>16, <1>17, <1>18, <1>19, <1>20, <1>21, <1>22,
        <1>23, <1>24, <1>25, <1>26, <1>27, <1>28, <1>29, <1>30, <1>31
        DEF Next, RunStep, HandlerStep, ContinueStep

\* When commands are served one at a time (one worker thread, or approvals that
\* do not overlap), the remediation result of a completed investigation says
\* executed or failed exactly if _execute_remediation changed production.
THEOREM SerialResultTells ==
  ASSUME NEW CONSTANT h, Handlers = {h}
  PROVE  Spec => []ResultTellsTheChange
<1>1. Init => Serial(h)
  BY InitSerial
<1>2. IInv /\ Serial(h) /\ [Next]_vars => Serial(h)'
  BY NextSerial
<1>3. Serial(h) => ResultTellsTheChange
  BY DEF Serial, Tells, ResultTellsTheChange
<1> QED BY <1>1, <1>2, <1>3, Invariance, PTL DEF Spec
===============================================================================
