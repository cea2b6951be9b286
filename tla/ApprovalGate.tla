----------------------------- MODULE ApprovalGate -----------------------------
(***************************************************************************)
(* The approval gate of one Investigation: the run that posts the approval *)
(* request and parks, the concurrent HTTP handlers that submit approval    *)
(* commands, the durable Investigation record they load and save as whole  *)
(* documents, and the idempotency keys.                                    *)
(*                                                                         *)
(* Every process works on its own copy of the record.  One action is one   *)
(* access to the store, one reading of the clock or one tool call, because *)
(* those are the points at which other threads of the web server can step  *)
(* in (orchestrator.resume_with_approval and _continue_after_approval take *)
(* no lock around them).  A row of the audit table, which no code reads    *)
(* back, is added together with the checkpoint that follows it.            *)
(*                                                                         *)
(* A definition whose comment starts with "Faulty" is no part of the       *)
(* model: it is the definition after it with a bug put in, kept to try     *)
(* that the properties notice.                                             *)
(***************************************************************************)
EXTENDS Naturals

CONSTANTS
  Handlers,       \* threads that serve POST /investigations/{id}/approval
  Runner,         \* the thread that runs the investigation itself
  Commands,       \* the approval commands that may be submitted
  NoCommand,      \* approval_command is None
  RequestId,      \* id of the approval request the run creates
  NoRequest,      \* approval_request is None
  Approvers,      \* approver_ids of the approval request
  RemediationKey, \* idempotency key of the remediation of this investigation
  SharedKeys,     \* keys that are used outside this investigation as well
  Workflow,       \* which remediation path the investigation takes
  MaxAborts       \* bound on calls that die half way

\* All keys are in one table, and callers choose those of their commands: they
\* may collide with one another and with the remediation key.
Keys == {c.key : c \in Commands} \cup {RemediationKey}

Decisions == {"approve", "reject"}
Workflows == {"live_rollback", "live_slow_query"}

ASSUME GateAssumption ==
  /\ Runner \notin Handlers
  /\ NoCommand \notin Commands
  /\ NoRequest # RequestId
  /\ \A c \in Commands : c.decision \in Decisions
  /\ SharedKeys \subseteq Keys
  /\ Workflow \in Workflows
  /\ MaxAborts \in Nat

VARIABLES
  saved,        \* the Investigation record in the store
  keys,         \* idempotency keys the store remembers
  audit,        \* approval events in the store's audit table
  expired,      \* the approval request's expires_at has passed
  pc,           \* where each process is
  cmd,          \* the command each process handles
  copy,         \* the record each process holds in memory
  aborts,       \* calls that died half way (bounded by MaxAborts)
  performed,    \* history: times the production change was invoked
  performedFor, \* history: commands under which it was invoked
  confirmed,    \* history: a change was confirmed and verified by providers
  late          \* history: processes whose command arrived after the expiry

store   == <<saved, keys, audit>>
history == <<performed, performedFor, confirmed, late>>
vars    == <<saved, keys, audit, expired, pc, cmd, copy, aborts,
             performed, performedFor, confirmed, late>>

Procs  == Handlers \cup {Runner}

Statuses == {"running", "waiting_for_approval", "completed", "failed"}
Phases   == {"response_proposal", "remediation", "post_mortem"}
Results  == {"none", "executed", "skipped", "refused", "failed"}
\* What the post-mortem states about the remediation: nothing written yet, a
\* proposal only, or as a fact that it was approved and carried out.
PostMortems == {"none", "proposed", "carried_out"}

Investigation ==
  [status : Statuses, phase : Phases, request : {RequestId, NoRequest},
   notified : BOOLEAN, command : Commands \cup {NoCommand},
   result : Results, postMortem : PostMortems]

Events == [event : {"approval_command_received", "approval_command_rejected"},
           command : Commands \cup {NoCommand}]

Labels == {"idle", "load", "check", "reject", "remember", "record", "recheck",
           "transition", "execute", "claim", "invoke", "receipt", "verify",
           "report", "conclude", "publish", "complete", "post", "park", "unnotified",
           "close", "raised", "mark"}

TypeOK ==
  /\ saved \in Investigation
  /\ keys \subseteq Keys
  /\ audit \subseteq Events
  /\ expired \in BOOLEAN
  /\ pc \in [Procs -> Labels]
  /\ cmd \in [Procs -> Commands \cup {NoCommand}]
  /\ copy \in [Procs -> Investigation]
  /\ aborts \in Nat
  /\ performed \in Nat
  /\ performedFor \subseteq Commands
  /\ confirmed \in BOOLEAN
  /\ late \subseteq Procs

-----------------------------------------------------------------------------
(* The run has just entered RESPONSE_PROPOSAL with an executable           *)
(* recommendation and at least one authorised approver.                    *)

Proposal ==
  [status |-> "running", phase |-> "response_proposal", request |-> NoRequest,
   notified |-> FALSE, command |-> NoCommand, result |-> "none",
   postMortem |-> "none"]

Init ==
  /\ saved = Proposal
  /\ keys = {}
  /\ audit = {}
  /\ expired = FALSE
  /\ pc = [p \in Procs |-> IF p = Runner THEN "post" ELSE "idle"]
  /\ cmd = [p \in Procs |-> NoCommand]
  /\ copy = [p \in Procs |-> Proposal]
  /\ aborts = 0
  /\ performed = 0
  /\ performedFor = {}
  /\ confirmed = FALSE
  /\ late = {}

-----------------------------------------------------------------------------
(* Helpers: control, and the two ways a process touches the record.        *)

At(p, label) == pc[p] = label

Goto(p, label) == pc' = [pc EXCEPT ![p] = label]

\* The call returns or dies: its copy of the record is gone.
Leave(p) ==
  /\ Goto(p, "idle")
  /\ cmd' = [cmd EXCEPT ![p] = NoCommand]
  /\ copy' = [copy EXCEPT ![p] = Proposal]
  /\ late' = late \ {p}

\* _checkpoint: the whole copy replaces the stored record (last writer wins).
Checkpoint(p, record) ==
  /\ saved' = record
  /\ copy' = [copy EXCEPT ![p] = record]

\* Faulty: the key is looked up but never inserted.
RememberNothing(key) == keys' = keys

\* remember_idempotency_key: insert, or report that the key exists.
Remember(key) == keys' = keys \cup {key}

Audit(event, command) ==
  audit' = audit \cup {[event |-> event, command |-> command]}

\* Faulty: nobody compares the clock with expires_at.
NeverExpired(record) == FALSE

\* Expiry is read from the clock at each check, against the request's expires_at.
RequestExpired(record) == expired /\ record.request # NoRequest

NotificationConfirmed(record) == record.request # NoRequest /\ record.notified

\* Faulty: the approver is not looked up.
AuthorisedByAnyone(record, c) ==
  record.request # NoRequest /\ c.request = record.request

\* The approval command names the request and comes from an approver of it.
Authorised(record, c) ==
  /\ record.request # NoRequest
  /\ c.request = record.request
  /\ c.approver \in Approvers

\* _approval_command_rejection_reason returns None.  Its last test, the scope
\* of the approved remediation, reads only what the run fixed before it made
\* the request, so it cannot fail here and is left out.
Acceptable(record, c) ==
  /\ record.status = "waiting_for_approval"
  /\ record.phase = "response_proposal"
  /\ Authorised(record, c)
  /\ NotificationConfirmed(record)
  /\ ~RequestExpired(record)

-----------------------------------------------------------------------------
(* The run: post the request, park, and close the clients.                 *)

\* The request is in the record when the posting tool call is checkpointed,
\* while the status is still running.
PostApprovalRequest ==
  /\ At(Runner, "post")
  /\ Checkpoint(Runner, [copy[Runner] EXCEPT !.request = RequestId])
  /\ \E confirmedPost \in BOOLEAN :
        Goto(Runner, IF confirmedPost THEN "park" ELSE "unnotified")
  /\ UNCHANGED <<keys, audit, expired, cmd, aborts, history>>

ParkForApproval ==
  /\ At(Runner, "park")
  /\ Checkpoint(Runner, [copy[Runner] EXCEPT !.notified = TRUE,
                                             !.status = "waiting_for_approval"])
  /\ Goto(Runner, "close")
  /\ UNCHANGED <<keys, audit, expired, cmd, aborts, history>>

FailUnnotifiedRequest ==
  /\ At(Runner, "unnotified")
  /\ Checkpoint(Runner, [copy[Runner] EXCEPT !.status = "failed", !.request = NoRequest])
  /\ Goto(Runner, "close")
  /\ UNCHANGED <<keys, audit, expired, cmd, aborts, history>>

\* The record is parked, so handlers already work on it.
CloseClients ==
  /\ At(Runner, "close")
  /\ Leave(Runner)
  /\ UNCHANGED <<store, expired, aborts, performed, performedFor, confirmed>>

\* The investigation or closing its clients raises.
RunRaises ==
  /\ aborts < MaxAborts
  /\ pc[Runner] \in {"post", "park", "unnotified", "close"}
  /\ aborts' = aborts + 1
  /\ Goto(Runner, "raised")
  /\ UNCHANGED <<store, expired, cmd, copy, history>>

\* The background task catches it, loads the record, and saves what it loaded as
\* failed, whatever a handler has written in between.
LoadToFail ==
  /\ At(Runner, "raised")
  /\ copy' = [copy EXCEPT ![Runner] = saved]
  /\ Goto(Runner, "mark")
  /\ UNCHANGED <<store, expired, cmd, aborts, history>>

MarkFailed ==
  /\ At(Runner, "mark")
  /\ saved' = [copy[Runner] EXCEPT !.status = "failed"]
  /\ Leave(Runner)
  /\ UNCHANGED <<keys, audit, expired, aborts, performed, performedFor, confirmed>>

-----------------------------------------------------------------------------
(* A handler, up to the decision to act on its command.                    *)

SubmitApproval(h) ==
  /\ At(h, "idle")
  /\ \E c \in Commands : cmd' = [cmd EXCEPT ![h] = c]
  /\ Goto(h, "load")
  /\ late' = IF expired THEN late \cup {h} ELSE late
  /\ UNCHANGED <<store, expired, copy, aborts, performed, performedFor, confirmed>>

LoadState(h) ==
  /\ At(h, "load")
  /\ copy' = [copy EXCEPT ![h] = saved]
  /\ Goto(h, "check")
  /\ UNCHANGED <<store, expired, cmd, aborts, history>>

\* A completed investigation is returned as it is; any other that does not
\* wait, or has no request, is answered 409.
AnswerNotWaiting(h) ==
  /\ At(h, "check")
  /\ \/ copy[h].status # "waiting_for_approval"
     \/ copy[h].request = NoRequest
  /\ Leave(h)
  /\ UNCHANGED <<store, expired, aborts, performed, performedFor, confirmed>>

CheckCommand(h) ==
  /\ At(h, "check")
  /\ copy[h].status = "waiting_for_approval"
  /\ copy[h].request # NoRequest
  /\ Goto(h, IF Acceptable(copy[h], cmd[h]) THEN "remember" ELSE "reject")
  /\ UNCHANGED <<store, expired, cmd, copy, aborts, history>>

\* A rejected command puts the copy back to waiting and saves all of it.  No
\* property tells the rows of rejected commands apart.
RejectCommand(h) ==
  /\ At(h, "reject")
  /\ Audit("approval_command_rejected", NoCommand)
  /\ saved' = [copy[h] EXCEPT !.status = "waiting_for_approval",
                              !.phase = "response_proposal",
                              !.command = NoCommand]
  /\ Leave(h)
  /\ UNCHANGED <<keys, expired, aborts, performed, performedFor, confirmed>>

RememberCommand(h) ==
  /\ At(h, "remember")
  /\ cmd[h].key \notin keys
  /\ Remember(cmd[h].key)
  /\ Goto(h, "record")
  /\ UNCHANGED <<saved, audit, expired, cmd, copy, aborts, history>>

\* The key is known: the stored record is returned and nothing is written.
AnswerDuplicate(h) ==
  /\ At(h, "remember")
  /\ cmd[h].key \in keys
  /\ Leave(h)
  /\ UNCHANGED <<store, expired, aborts, performed, performedFor, confirmed>>

RecordCommand(h) ==
  /\ At(h, "record")
  /\ Audit("approval_command_received", cmd[h])
  /\ Checkpoint(h, [copy[h] EXCEPT !.command = cmd[h]])
  /\ Goto(h, "recheck")
  /\ UNCHANGED <<keys, expired, cmd, aborts, history>>

-----------------------------------------------------------------------------
(* _continue_after_approval.                                               *)

RecheckCommand(h) ==
  /\ At(h, "recheck")
  /\ Goto(h, IF Acceptable(copy[h], copy[h].command) THEN "transition" ELSE "reject")
  /\ UNCHANGED <<store, expired, cmd, copy, aborts, history>>

\* Faulty: the phase is not one of the state machine's.
EnterRollback(h) ==
  /\ At(h, "transition")
  /\ Checkpoint(h, [copy[h] EXCEPT !.status = "running", !.phase = "rollback"])
  /\ Goto(h, "execute")
  /\ UNCHANGED <<keys, audit, expired, cmd, aborts, history>>

EnterRemediation(h) ==
  /\ At(h, "transition")
  /\ Checkpoint(h, [copy[h] EXCEPT !.status = "running", !.phase = "remediation"])
  /\ Goto(h, "execute")
  /\ UNCHANGED <<keys, audit, expired, cmd, aborts, history>>

\* Faulty: a rejection executes as well.
MayExecuteAnyDecision(record) ==
  /\ record.command # NoCommand
  /\ Authorised(record, record.command)
  /\ NotificationConfirmed(record)
  /\ ~RequestExpired(record)

\* What _execute_remediation demands of the copy before it claims the key.
MayExecute(record) ==
  /\ record.command # NoCommand
  /\ Authorised(record, record.command)
  /\ NotificationConfirmed(record)
  /\ ~RequestExpired(record)
  /\ record.command.decision = "approve"

CheckExecution(h) ==
  /\ At(h, "execute")
  /\ IF MayExecute(copy[h])
     THEN /\ Goto(h, "claim")
          /\ UNCHANGED copy
     ELSE /\ Goto(h, "report")
          /\ copy' = [copy EXCEPT ![h].result = "refused"]
  /\ UNCHANGED <<store, expired, cmd, aborts, history>>

ClaimRemediation(h) ==
  /\ At(h, "claim")
  /\ RemediationKey \notin keys
  /\ Remember(RemediationKey)
  /\ Goto(h, "invoke")
  /\ UNCHANGED <<saved, audit, expired, cmd, copy, aborts, history>>

SkipDuplicateRemediation(h) ==
  /\ At(h, "claim")
  /\ RemediationKey \in keys
  /\ copy' = [copy EXCEPT ![h].result = "skipped"]
  /\ Goto(h, "report")
  /\ UNCHANGED <<store, expired, cmd, aborts, history>>

\* infra.rollback_deployment or infra.add_database_index: production changes.
InvokeRemediation(h) ==
  /\ At(h, "invoke")
  /\ performed' = performed + 1
  /\ performedFor' = performedFor \cup {copy[h].command}
  /\ Goto(h, "receipt")
  /\ UNCHANGED <<store, expired, cmd, copy, aborts, confirmed, late>>

\* The checkpoint of _invoke_tool, after the call has returned.
RecordReceipt(h) ==
  /\ At(h, "receipt")
  /\ Checkpoint(h, copy[h])
  /\ Goto(h, "verify")
  /\ UNCHANGED <<keys, audit, expired, cmd, aborts, history>>

\* Faulty: a change that was made but not verified counts as executed.
VerdictWithoutVerification(changeConfirmed, verifyConfirmed) ==
  IF changeConfirmed THEN "executed" ELSE "failed"

\* Faulty: an unconfirmed change is reported as if it had not been made.
VerdictRefused(changeConfirmed, verifyConfirmed) ==
  IF changeConfirmed /\ verifyConfirmed THEN "executed" ELSE "refused"

\* The result is executed only if the change and its verification were both
\* confirmed by the providers.
Verdict(changeConfirmed, verifyConfirmed) ==
  IF changeConfirmed /\ verifyConfirmed THEN "executed" ELSE "failed"

VerifyMitigation(h) ==
  /\ At(h, "verify")
  /\ \E changeConfirmed, verifyConfirmed \in BOOLEAN :
       /\ saved' = copy[h]
       /\ copy' = [copy EXCEPT ![h].result =
                                  Verdict(changeConfirmed, verifyConfirmed)]
       /\ confirmed' = (confirmed \/ (changeConfirmed /\ verifyConfirmed))
  /\ Goto(h, "report")
  /\ UNCHANGED <<keys, audit, expired, cmd, aborts, performed, performedFor, late>>

ReportResult(h) ==
  /\ At(h, "report")
  /\ Checkpoint(h, copy[h])
  /\ Goto(h, "conclude")
  /\ UNCHANGED <<keys, audit, expired, cmd, aborts, history>>

EnterPostMortem(h) ==
  /\ At(h, "conclude")
  /\ Checkpoint(h, [copy[h] EXCEPT !.phase = "post_mortem"])
  /\ Goto(h, "publish")
  /\ UNCHANGED <<keys, audit, expired, cmd, aborts, history>>

\* _build_post_mortem looks at the workflow, not at the decision or the result.
PostMortemText ==
  IF Workflow = "live_rollback" THEN "proposed" ELSE "carried_out"

\* The four communication calls each checkpoint the same copy; what they return
\* is not looked at.
PublishPostMortem(h) ==
  /\ At(h, "publish")
  /\ Checkpoint(h, [copy[h] EXCEPT !.postMortem = PostMortemText])
  /\ Goto(h, "complete")
  /\ UNCHANGED <<keys, audit, expired, cmd, aborts, history>>

\* Faulty: the completed record is not saved.
CompleteInMemory(h) ==
  /\ At(h, "complete")
  /\ Leave(h)
  /\ UNCHANGED <<store, expired, aborts, performed, performedFor, confirmed>>

Complete(h) ==
  /\ At(h, "complete")
  /\ saved' = [copy[h] EXCEPT !.status = "completed"]
  /\ Leave(h)
  /\ UNCHANGED <<keys, audit, expired, aborts, performed, performedFor, confirmed>>

-----------------------------------------------------------------------------
(* The environment.                                                        *)

\* Fifteen minutes after the request was made.
Expire ==
  /\ ~expired
  /\ saved.request # NoRequest
  /\ expired' = TRUE
  /\ UNCHANGED <<store, pc, cmd, copy, aborts, history>>

\* A command of another investigation, or a trigger, spends a key.
SpendElsewhere(key) ==
  /\ Remember(key)
  /\ UNCHANGED <<saved, audit, expired, pc, cmd, copy, aborts, history>>

\* The process dies, or the store or a client raises out of the call: the
\* in-memory copy is lost and nothing else happens.  The run is not resumed
\* by a restart.
Abort(p) ==
  /\ aborts < MaxAborts
  /\ ~At(p, "idle")
  /\ aborts' = aborts + 1
  /\ Leave(p)
  /\ UNCHANGED <<store, expired, performed, performedFor, confirmed>>

-----------------------------------------------------------------------------

\* The steps a running thread takes by itself.
RunStep ==
  \/ PostApprovalRequest \/ ParkForApproval \/ FailUnnotifiedRequest
  \/ CloseClients \/ LoadToFail \/ MarkFailed

HandlerStep(h) ==
  \/ LoadState(h) \/ AnswerNotWaiting(h) \/ CheckCommand(h)
  \/ RememberCommand(h) \/ AnswerDuplicate(h) \/ RecordCommand(h)

ContinueStep(h) ==
  \/ RejectCommand(h) \/ RecheckCommand(h) \/ EnterRemediation(h)
  \/ CheckExecution(h) \/ ClaimRemediation(h) \/ SkipDuplicateRemediation(h)
  \/ InvokeRemediation(h) \/ RecordReceipt(h) \/ VerifyMitigation(h)
  \/ ReportResult(h) \/ EnterPostMortem(h) \/ PublishPostMortem(h)
  \/ Complete(h)

Next ==
  \/ RunStep
  \/ RunRaises
  \/ Expire
  \/ \E h \in Handlers : SubmitApproval(h) \/ HandlerStep(h) \/ ContinueStep(h)
  \/ \E k \in SharedKeys : SpendElsewhere(k)
  \/ \E p \in Procs : Abort(p)

Spec == Init /\ [][Next]_vars

\* A thread of the pool that has taken a call runs it to its end.
Fairness ==
  /\ WF_vars(RunStep)
  /\ \A h \in Handlers : WF_vars(HandlerStep(h) \/ ContinueStep(h))

FairSpec == Spec /\ Fairness

-----------------------------------------------------------------------------
(* Properties.                                                             *)

\* However many approval commands race, repeat or die half way, the rollback
\* (or the index migration) of the investigation is invoked at most once.
AtMostOneRemediation == performed <= 1

\* Production changes only for an approve command that names the request and
\* comes from an approver of it, whose arrival the audit table holds and whose
\* idempotency key is spent (resume_with_approval records before it executes).
ChangeIsApproved ==
  \A c \in performedFor :
    /\ c.request = RequestId
    /\ c.approver \in Approvers
    /\ c.decision = "approve"
    /\ c.key \in keys
    /\ [event |-> "approval_command_received", command |-> c] \in audit

\* A command that arrives after the request expired never reaches the tool,
\* whatever the handler loaded and however long it is held up.
NoChangeOnLateCommand ==
  \A h \in Handlers \cap late :
    pc[h] \notin {"remember", "record", "claim", "invoke"}

\* No record, stored or in memory, says executed unless one invocation and its
\* verification were both confirmed by the providers.
ExecutedIsConfirmed ==
  /\ saved.result = "executed" => confirmed /\ performed > 0
  /\ \A p \in Procs : copy[p].result = "executed" => confirmed /\ performed > 0

\* The whole gate implements the one-shot remediation that ADR 0011 asks for:
\* hiding threads, copies and the clock, it receives commands, spends the key
\* once and changes production at most once, for a received approval.
OneShot == INSTANCE OneShotRemediation WITH
  received <- {c \in Commands :
                 [event |-> "approval_command_received", command |-> c] \in audit},
  spent <- RemediationKey \in keys,
  times <- performed,
  changedFor <- performedFor

RemediatesOnce == OneShot!Spec

-----------------------------------------------------------------------------
(* The inductive invariant: what the safety properties above rest on.      *)

\* A handler that has passed the checks of resume_with_approval, one that has
\* recorded its command, and one that has invoked the tool.
Accepted   == {"remember", "record"}
Continuing == {"recheck", "transition", "execute", "claim", "invoke", "receipt",
               "verify", "report", "conclude", "publish", "complete"}

Received(c) == [event |-> "approval_command_received", command |-> c]

\* A busy handler holds a command, and its copy of the record holds the same one
\* once it has been recorded.
CommandHeld ==
  \A h \in Handlers :
    /\ pc[h] # "idle" => cmd[h] \in Commands
    /\ pc[h] \in Continuing => copy[h].command = cmd[h]

\* How far a handler has got tells what was checked and written for its command.
DecisionJustified ==
  \A h \in Handlers :
    /\ h \in late => expired
    /\ pc[h] \in Accepted \cup Continuing =>
         /\ cmd[h].request = RequestId
         /\ cmd[h].approver \in Approvers
         /\ h \notin late
    /\ pc[h] \in {"record"} \cup Continuing => cmd[h].key \in keys
    /\ pc[h] \in Continuing => Received(cmd[h]) \in audit
    /\ pc[h] \in {"claim", "invoke"} => cmd[h].decision = "approve"

\* A handler that may invoke the tool is the only one, it has claimed the key,
\* and nothing was invoked before.
ClaimIsExclusive ==
  /\ performed > 0 => RemediationKey \in keys
  /\ performed = 0 => performedFor = {}
  /\ \A h \in Handlers : At(h, "invoke") =>
       /\ RemediationKey \in keys
       /\ performed = 0
       /\ \A g \in Handlers : At(g, "invoke") => g = h

\* A handler that verifies has invoked the tool.
VerifiesAChange ==
  \A h \in Handlers : pc[h] \in {"receipt", "verify"} => performed > 0

IInv ==
  /\ TypeOK
  /\ CommandHeld
  /\ DecisionJustified
  /\ ClaimIsExclusive
  /\ AtMostOneRemediation
  /\ ChangeIsApproved
  /\ VerifiesAChange
  /\ ExecutedIsConfirmed

-----------------------------------------------------------------------------
(* Properties of commands that are served one at a time, and claims of the *)
(* documents that the code does not meet.                                  *)

\* When commands are served one at a time, the result of a completed
\* investigation tells whether production was changed.
ResultTellsTheChange ==
  saved.status = "completed" =>
    (saved.result \in {"executed", "failed"} <=> performed = 1)

\* A command that was recorded is carried through to a completed
\* investigation, unless the request expires or the call dies first.
DecisionSettles ==
  \A c \in Commands :
    [event |-> "approval_command_received", command |-> c] \in audit
      ~> (saved.status = "completed" \/ expired \/ aborts > 0)

\* CONTEXT.md: a duplicate Remediation Execution returns the existing
\* Remediation Result, so an execution that finds the remediation key taken
\* leaves an executed result on record and does not put its own in its place.
DuplicateKeepsResult ==
  [][saved.result = "executed" => saved'.result # "skipped"]_vars

=============================================================================
