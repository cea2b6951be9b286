----------------------------- MODULE IncidentRun -----------------------------
(***************************************************************************)
(* One run of an Investigation, from its trigger to the status it is left  *)
(* in: the phase controller, the tool plans a model makes inside a phase,  *)
(* the evidence that the calls bring, the subagents, the diagnosis, the    *)
(* approval request, and the remediation and post-mortem after a decision. *)
(*                                                                         *)
(* A run is sequential.  One step is one tool call or one decision of the  *)
(* phase controller; each ends in a checkpoint, so the variables are also  *)
(* what the store holds.  What a tool returns is chosen freely: it fails,  *)
(* it succeeds with what the run looks for, or it succeeds without it.     *)
(* The races around the approval are the subject of ApprovalGate.          *)
(*                                                                         *)
(* A definition whose comment starts with "Faulty" is no part of the       *)
(* model: it is the definition after it with a bug put in, kept to try     *)
(* that the properties notice.                                             *)
(***************************************************************************)
EXTENDS ToolContracts, Sequences

CONSTANTS
  Workflows,    \* which runs: "rollback" and "slow_query" are live incidents,
                \* "replay" is a scenario over recorded payloads, "watch" a Watch
  MaxServices,  \* bound on the affected services
  MaxPlanned,   \* bound on the tools a model plans in one phase
  MaxRepeats    \* bound on required tools that a model lists once more

ASSUME RunAssumption ==
  /\ Workflows \subseteq {"rollback", "slow_query", "replay", "watch"}
  /\ MaxServices \in Nat \ {0}
  /\ MaxPlanned \in Nat \ {0, 1}
  /\ MaxRepeats \in Nat

VARIABLES
  workflow, services,
  pagerduty,  \* PagerDuty is configured; the generic webhook stands in if not
  phase,      \* current_state
  status,
  step,       \* where the phase controller is inside the phase
  pending,    \* the tool calls that the phase still has to make
  repeats,    \* required tools a model listed once more
  facts,      \* artifacts and evidence that decide what happens
  confidence, \* of the diagnosis
  request,    \* there is an approval request
  decision,   \* of the approval command
  changes,    \* history: how often a mutating tool was executed
  refused     \* history: calls the executor refused

control == <<workflow, services, pagerduty>>
verdict == <<confidence, request, decision>>
history == <<changes, refused>>
vars == <<workflow, services, pagerduty, phase, status, step, pending, repeats, facts,
          confidence, request, decision, changes, refused>>

Live == workflow \in {"rollback", "slow_query"}

Statuses == {"running", "waiting_for_approval", "completed",
             "insufficient_confidence", "failed"}

Confidences == {"none", "insufficient", "low", "medium", "high"}

\* Nobody, on call for the account or for the incident, or the configured one.
Scopes == {"none", "account", "incident", "generic_webhook"}

Facts ==
  [change : BOOLEAN,       \* a pull request, deployment or commit artifact
   approver : Scopes,     \* pagerduty_oncall_user, by its scope
   traceFailed : BOOLEAN,  \* a distributed-traces call is on record as failed
   gap : BOOLEAN,          \* a call of an investigator or of readiness failed
   target : BOOLEAN,       \* readiness confirmed an executable rollback target
   metric : BOOLEAN, logs : BOOLEAN, db : BOOLEAN] \* last slow-query answers

Call(agent, tool) == [agent |-> agent, tool |-> tool]

\* free: calls of the model's choice; todo: required calls in the model's order;
\* script: calls in the code's order.
Pending == [free : 0..MaxPlanned, todo : SUBSET Tools,
            script : Seq([agent : Agents, tool : Tools])]

TypeOK ==
  /\ workflow \in Workflows
  /\ services \in 1..MaxServices
  /\ pagerduty \in BOOLEAN
  /\ phase \in Phases
  /\ status \in Statuses
  /\ step \in {"created", "calls", "short", "correlated", "propose", "post",
               "park", "unnotified", "close", "raised", "returned"}
  /\ pending \in Pending
  /\ repeats \in 0..MaxRepeats
  /\ facts \in Facts
  /\ confidence \in Confidences
  /\ request \in BOOLEAN
  /\ decision \in {"none", "approve", "reject"}
  /\ changes \in Nat
  /\ refused \subseteq [agent : Agents, tool : Tools]

NothingPending == [free |-> 0, todo |-> {}, script |-> <<>>]

NoFacts == [change |-> FALSE, approver |-> "none", traceFailed |-> FALSE,
            gap |-> FALSE, target |-> FALSE,
            metric |-> FALSE, logs |-> FALSE, db |-> FALSE]

Init ==
  /\ workflow \in Workflows
  /\ services \in 1..MaxServices
  /\ pagerduty \in BOOLEAN
  /\ phase = "received"
  /\ status = "running"
  /\ step = "created"
  /\ pending = NothingPending
  /\ repeats = 0
  /\ facts = NoFacts
  /\ confidence = "none"
  /\ request = FALSE
  /\ decision = "none"
  /\ changes = 0
  /\ refused = {}

-----------------------------------------------------------------------------
(* Tool calls.                                                             *)

\* The tools that answer with deployments, with commits or with a pull request.
ChangeTools == {"repo.get_deploy_history", "repo.get_rollback_targets",
                "repo.get_recent_commits", "repo.get_commit_author", "repo.blame_file_line",
                "repo.fetch_pr_metadata", "repo.diff_pull_request"}
OnCallTools == {"comms.page_oncall_engineer", "comms.escalate_incident"}
Traces      == "observe.get_distributed_traces"

\* Faulty: the on-call of the whole account is taken for an approver.
AnyOnCall(named) ==
  CASE ~pagerduty           -> "generic_webhook"
    [] pagerduty /\ named   -> "incident"
    [] pagerduty /\ ~named  -> "account"

\* A call that does not carry the incident id returns the on-call of the whole
\* PagerDuty account, which makes nobody an approver of a live incident.
ScopedOnCall(named) ==
  CASE ~pagerduty           -> "generic_webhook"
    [] pagerduty /\ named   -> "incident"
    [] pagerduty /\ ~named  -> "none"

\* _collect_artifacts_from_result (setdefault: the first value stays), the
\* failed calls that the diagnosis looks up, and what the subagents report.
\* "named" says that the payload carries the incident id; "useful" that the
\* answer holds what is looked for.
Learned(c, named, ok, useful) ==
  LET good    == ok /\ useful
      parent  == c.agent = "parent"
      latest(old, tool) ==
        IF parent /\ phase = "triage" /\ c.tool = tool THEN good ELSE old
  IN  [change |-> facts.change \/ (parent /\ good /\ c.tool \in ChangeTools),
       approver |->
         IF parent /\ good /\ c.tool \in OnCallTools /\ facts.approver = "none"
         THEN ScopedOnCall(named) ELSE facts.approver,
       traceFailed |-> facts.traceFailed \/ (c.tool = Traces /\ ~ok),
       gap |-> facts.gap
                 \/ (c.agent \in {"service_investigator", "remediation_readiness"} /\ ~ok),
       target |-> IF c.agent = "remediation_readiness"
                       /\ c.tool = "repo.get_rollback_targets"
                    THEN good ELSE facts.target,
       metric |-> latest(facts.metric, "observe.query_metrics_range"),
       logs   |-> latest(facts.logs, "observe.fetch_service_logs"),
       db     |-> latest(facts.db, "observe.check_db_slow_queries")]

\* _invoke_tool: a refused call is a failed call.
Invoke(c, named) ==
  LET approved == phase = "remediation" /\ c.tool \in MutatingTools
  IN  IF Permitted(c.agent, c.tool, phase, approved)
      THEN /\ \E ok, useful \in BOOLEAN : facts' = Learned(c, named, ok, useful)
           /\ changes' = changes + (IF c.tool \in MutatingTools THEN 1 ELSE 0)
           /\ UNCHANGED refused
      ELSE /\ facts' = Learned(c, named, FALSE, FALSE)
           /\ refused' = refused \cup {c}
           /\ UNCHANGED changes

\* Faulty: what the model answers is not compared with the phase's tools.
AnyTool(p) == Tools

\* The model's answer, filtered.  Only a plan with nothing left in it gives way
\* to the deterministic one, which is one of the plans a model can make.
Plannable(p) == PhaseToolSet(p)

\* Faulty: nobody counts how many calls there are payloads for.
UncountedCall ==
  /\ step \in {"calls", "short"}
  /\ phase \in {"received", "triage", "evidence_collection"}
  /\ \E tool \in Plannable(phase) : Invoke(Call("parent", tool), FALSE)
  /\ pending' = [pending EXCEPT !.free = @ - 1]
  /\ UNCHANGED <<control, phase, status, step, repeats, verdict>>

PlannedCall ==
  /\ step \in {"calls", "short"}
  /\ pending.free > 0
  /\ \E tool \in Plannable(phase) : Invoke(Call("parent", tool), FALSE)
  /\ pending' = [pending EXCEPT !.free = @ - 1]
  /\ UNCHANGED <<control, phase, status, step, repeats, verdict>>

RequiredCall ==
  /\ step = "calls"
  /\ \E tool \in pending.todo :
       /\ Invoke(Call("parent", tool), TRUE)
       /\ pending' = [pending EXCEPT !.todo = @ \ {tool}]
  /\ UNCHANGED <<control, phase, status, step, repeats, verdict>>

ScriptedCall ==
  /\ step \in {"calls", "close"}
  /\ pending.free = 0 /\ pending.todo = {}
  /\ pending.script # <<>>
  /\ Invoke(Head(pending.script), TRUE)
  /\ pending' = [pending EXCEPT !.script = Tail(@)]
  /\ UNCHANGED <<control, phase, status, step, repeats, verdict>>

-----------------------------------------------------------------------------
(* What each phase has to call.                                            *)

Parent(tools) == [i \in DOMAIN tools |-> Call("parent", tools[i])]

Scripted(calls) == [NothingPending EXCEPT !.script = calls]

SlowQueryTools ==
  [received |-> {"comms.create_incident_channel", "comms.post_to_slack",
                 "comms.page_oncall_engineer"},
   triage |-> {"observe.fetch_service_logs", "observe.query_metrics_range",
               "observe.check_db_slow_queries"},
   evidence_collection |->
     {"observe.fetch_alerting_rules", "observe.read_dashboard_snapshot",
      "observe.get_error_rate_timeseries", "observe.read_queue_depth",
      "observe.get_network_latency", "observe.check_uptime_history",
      "observe.get_memory_cpu_usage", "observe.get_distributed_traces",
      "observe.fetch_apm_data"}]

\* _model_ordered_required_tools: the model orders the tools, and may list one
\* twice, but cannot drop any.
ModelOrderedTools(p) == {[NothingPending EXCEPT !.todo = SlowQueryTools[p]]}

RepeatedCall ==
  /\ step = "calls"
  /\ workflow = "slow_query"
  /\ phase \in DOMAIN SlowQueryTools
  /\ repeats < MaxRepeats
  /\ repeats' = repeats + 1
  /\ \E tool \in SlowQueryTools[phase] \ pending.todo :
       Invoke(Call("parent", tool), TRUE)
  /\ UNCHANGED <<control, phase, status, step, pending, verdict>>

\* The calls of a model plan; an incident's triage and evidence have payloads
\* for the first five and ten of them only.
ModelPlan(limit) ==
  {[NothingPending EXCEPT !.free = n] : n \in {n \in 1..MaxPlanned : n <= limit}}

InvestigatorCalls ==
  <<Call("parent", SpawnTool),
    Call("service_investigator", "observe.fetch_service_logs"),
    Call("service_investigator", "repo.get_recent_commits"),
    Call("service_investigator", "repo.get_rollback_targets")>>

\* One investigator per affected service, if there are several.
InvestigateServices ==
  [i \in 1..(IF services > 1 THEN 4 * services ELSE 0) |->
     InvestigatorCalls[((i - 1) % 4) + 1]]

BlastAndReadiness ==
  <<Call("blast_radius", "observe.check_uptime_history"),
    Call("blast_radius", "observe.get_error_rate_timeseries"),
    Call("remediation_readiness", "repo.get_rollback_targets"),
    Call("remediation_readiness", "repo.read_ci_pipeline_status"),
    Call("remediation_readiness", "repo.fetch_test_results")>>

PhaseDone == step = "calls" /\ pending = NothingPending

Enter(p) == phase' = p /\ step' = "calls"

-----------------------------------------------------------------------------
(* Phase controller.                                                       *)

\* An incident takes the first two planned tools for its channel and its
\* acknowledgement (a live one then reads the incident); a plan of one tool
\* raises after its first call.
StartReceived ==
  /\ step = "created"
  /\ \/ /\ workflow = "watch"
        /\ pending' \in ModelPlan(MaxPlanned)
        /\ step' = "calls"
     \/ /\ workflow = "slow_query"
        /\ pending' \in ModelOrderedTools("received")
        /\ step' = "calls"
     \/ /\ workflow \in {"rollback", "replay"}
        /\ pending' =
             [free |-> 2, todo |-> {},
              script |-> IF Live THEN Parent(<<"comms.page_oncall_engineer">>) ELSE <<>>]
        /\ step' = "calls"
     \/ /\ workflow \in {"rollback", "replay"}
        /\ pending' = [NothingPending EXCEPT !.free = 1]
        /\ step' = "short"
  /\ UNCHANGED <<control, phase, status, repeats, facts, verdict, history>>

ShortPlanRaises ==
  /\ step = "short"
  /\ pending = NothingPending
  /\ step' = "raised"
  /\ UNCHANGED <<control, phase, status, pending, repeats, facts, verdict, history>>

\* The receiver marks a live run that raised as failed; a scenario's caller
\* gets the exception and the record stays as it is.
MarkFailed ==
  /\ step = "raised"
  /\ step' = "returned"
  /\ status' = IF Live THEN "failed" ELSE status
  /\ UNCHANGED <<control, phase, pending, repeats, facts, verdict, history>>

StartTriage ==
  /\ PhaseDone /\ phase = "received"
  /\ Enter("triage")
  /\ pending' \in IF workflow = "slow_query" THEN ModelOrderedTools("triage")
                                             ELSE ModelPlan(5)
  /\ UNCHANGED <<control, status, repeats, facts, verdict, history>>

StartEvidenceCollection ==
  /\ PhaseDone /\ phase = "triage"
  /\ Enter("evidence_collection")
  /\ pending' \in IF workflow = "slow_query"
                    THEN ModelOrderedTools("evidence_collection")
                    ELSE ModelPlan(10)
  /\ UNCHANGED <<control, status, repeats, facts, verdict, history>>

\* Faulty: nobody looks for the failed trace.
DiagnosisFromChange ==
  CASE Live /\ ~facts.change -> "insufficient"
    [] Live /\ facts.change  -> "medium"
    [] OTHER                 -> "high"

\* _derive_diagnosis.
Diagnosis ==
  CASE facts.traceFailed              -> "insufficient"
    [] ~facts.traceFailed /\ Live     -> IF facts.change THEN "medium" ELSE "insufficient"
    [] ~facts.traceFailed /\ ~Live    -> "high"

\* Faulty: the status is not set.
FinishWithoutStatus ==
  /\ phase' = "response_proposal"
  /\ pending' = Scripted(Parent(<<"comms.post_to_slack">>))
  /\ step' = "close"
  /\ UNCHANGED status

\* _finish_insufficient_confidence: one message to the channel, and the end.
FinishInsufficient ==
  /\ phase' = "response_proposal"
  /\ status' = "insufficient_confidence"
  /\ pending' = Scripted(Parent(<<"comms.post_to_slack">>))
  /\ step' = "close"

\* A rollback or a replay is diagnosed before its services are investigated.
StartServiceInvestigation ==
  /\ PhaseDone /\ phase = "evidence_collection"
  /\ workflow \in {"rollback", "replay"}
  /\ confidence' = Diagnosis
  /\ IF Diagnosis = "insufficient"
     THEN FinishInsufficient
     ELSE /\ Enter("service_investigation")
          /\ pending' = Scripted(InvestigateServices \o BlastAndReadiness)
          /\ UNCHANGED status
  /\ UNCHANGED <<control, repeats, facts, request, decision, history>>

StartSlowQueryInvestigation ==
  /\ PhaseDone /\ phase = "evidence_collection" /\ workflow = "slow_query"
  /\ Enter("service_investigation")
  /\ pending' = Scripted(InvestigateServices)
  /\ UNCHANGED <<control, status, repeats, facts, verdict, history>>

\* _derive_slow_query_diagnosis: a latency sample and a log line.
SlowQueryDiagnosis ==
  IF facts.metric /\ (facts.logs \/ facts.db) THEN "high" ELSE "insufficient"

\* _reconcile_evidence.  A live readiness report without a target has a blocker.
Reconciled ==
  CASE Live /\ ~facts.change -> "insufficient"
    [] ~Live \/ facts.change ->
         IF facts.gap \/ (Live /\ ~facts.target) THEN "low" ELSE "high"

Correlate ==
  /\ PhaseDone /\ phase = "service_investigation"
  /\ phase' = "correlation"
  /\ step' = "correlated"
  /\ confidence' = IF workflow = "slow_query" THEN SlowQueryDiagnosis ELSE Reconciled
  /\ UNCHANGED <<control, status, pending, repeats, facts, request, decision, history>>

StartProposal ==
  /\ step = "correlated"
  /\ IF confidence = "insufficient"
     THEN FinishInsufficient
     ELSE /\ phase' = "response_proposal"
          /\ step' = "propose"
          /\ UNCHANGED <<status, pending>>
  /\ UNCHANGED <<control, repeats, facts, verdict, history>>

\* _build_recommendation: a live rollback needs the target that readiness
\* confirmed; a replay has a default one, the index migration a fixed one.
Executable == workflow = "rollback" => facts.target

\* _authorized_approver_ids.
SomeApprover == Live => facts.approver # "none"

Propose ==
  /\ step = "propose"
  /\ IF Executable /\ SomeApprover
     THEN step' = "post" /\ UNCHANGED <<phase, status, pending>>
     ELSE FinishInsufficient
  /\ UNCHANGED <<control, repeats, facts, verdict, history>>

\* The request is on record when the posting call is checkpointed.
PostApprovalRequest ==
  /\ step = "post"
  /\ request' = TRUE
  /\ Invoke(Call("parent", "comms.post_to_slack"), TRUE)
  /\ \E confirmed \in BOOLEAN : step' = IF confirmed THEN "park" ELSE "unnotified"
  /\ UNCHANGED <<control, phase, status, pending, repeats, confidence, decision>>

FailUnnotifiedRequest ==
  /\ step = "unnotified"
  /\ status' = "failed"
  /\ request' = FALSE
  /\ step' = "returned"
  /\ UNCHANGED <<control, phase, pending, repeats, facts, confidence, decision, history>>

ParkForApproval ==
  /\ step = "park"
  /\ status' = "waiting_for_approval"
  /\ step' = "returned"
  /\ UNCHANGED <<control, phase, pending, repeats, facts, verdict, history>>

-----------------------------------------------------------------------------
(* After the approval command (see ApprovalGate for how it is accepted).   *)

\* Faulty: a change whose effect is not yet measured is made again.
RemediationCallsAgain ==
  IF workflow = "slow_query"
  THEN <<"infra.add_database_index", "observe.query_metrics_range">>
  ELSE <<"infra.rollback_deployment", "observe.get_error_rate_timeseries",
         "infra.rollback_deployment">>

RemediationCalls ==
  IF workflow = "slow_query"
  THEN <<"infra.add_database_index", "observe.query_metrics_range">>
  ELSE <<"infra.rollback_deployment", "observe.get_error_rate_timeseries">>

\* _execute_remediation: the change and its verification, or nothing.
Remediate(d) == IF d = "approve" THEN Parent(RemediationCalls) ELSE <<>>

\* An approver decides; a scenario that approves by itself does so at once.
\* No fairness is asked of this action.
Decide ==
  /\ status = "waiting_for_approval"
  /\ \E d \in {"approve", "reject"} :
       /\ decision' = d
       /\ pending' = Scripted(Remediate(d))
  /\ status' = "running"
  /\ Enter("remediation")
  /\ UNCHANGED <<control, repeats, facts, confidence, request, history>>

PostMortemCalls ==
  <<"comms.write_post_mortem", "comms.create_jira_ticket",
    "comms.update_runbook", "comms.post_to_slack">>

StartPostMortem ==
  /\ PhaseDone /\ phase = "remediation"
  /\ phase' = "post_mortem"
  /\ step' = "calls"
  /\ pending' = Scripted(Parent(PostMortemCalls))
  /\ UNCHANGED <<control, status, repeats, facts, verdict, history>>

Complete ==
  /\ PhaseDone /\ phase = "post_mortem"
  /\ status' = "completed"
  /\ step' = "returned"
  /\ UNCHANGED <<control, phase, pending, repeats, facts, verdict, history>>

\* The run that lacks confidence has told so and returns.
ReturnInsufficient ==
  /\ step = "close" /\ pending = NothingPending
  /\ step' = "returned"
  /\ UNCHANGED <<control, phase, status, pending, repeats, facts, verdict, history>>

-----------------------------------------------------------------------------
(* A Watch: plans, one look back, one update, and no request.              *)

WatchCorrelates ==
  /\ PhaseDone /\ phase = "evidence_collection" /\ workflow = "watch"
  /\ Enter("correlation")
  /\ pending' = Scripted(Parent(<<"observe.check_uptime_history">>))
  /\ UNCHANGED <<control, status, repeats, facts, verdict, history>>

WatchUpdates ==
  /\ PhaseDone /\ phase = "correlation"
  /\ confidence' = "medium"
  /\ Enter("response_proposal")
  /\ pending' = Scripted(Parent(<<"comms.post_to_slack">>))
  /\ UNCHANGED <<control, status, repeats, facts, request, decision, history>>

WatchEnds ==
  /\ PhaseDone /\ phase = "response_proposal"
  /\ Enter("post_mortem")
  /\ pending' = Scripted(Parent(<<"comms.update_runbook">>))
  /\ UNCHANGED <<control, status, repeats, facts, verdict, history>>

-----------------------------------------------------------------------------

CallStep == PlannedCall \/ RequiredCall \/ RepeatedCall \/ ScriptedCall

PhaseStep ==
  \/ StartReceived \/ ShortPlanRaises \/ MarkFailed
  \/ StartTriage \/ StartEvidenceCollection
  \/ StartServiceInvestigation \/ StartSlowQueryInvestigation
  \/ Correlate \/ StartProposal \/ Propose
  \/ PostApprovalRequest \/ FailUnnotifiedRequest \/ ParkForApproval
  \/ StartPostMortem \/ Complete \/ ReturnInsufficient
  \/ WatchCorrelates \/ WatchUpdates \/ WatchEnds

Next == CallStep \/ PhaseStep \/ Decide

Spec == Init /\ [][Next]_vars

\* The thread that has begun a run, or taken a decision, goes on with it.
Fairness == WF_vars(CallStep \/ PhaseStep)

FairSpec == Spec /\ Fairness

-----------------------------------------------------------------------------
(* Properties.                                                             *)

Settled == {"waiting_for_approval", "completed", "insufficient_confidence", "failed"}

\* Whatever tools the model plans and whatever they return, an approval request
\* rests on evidence: a rollback on a change artifact, on traces of which no
\* call failed (even one repeated with success) and on a confirmed target, an
\* index on a latency sample and a log line.
RequestIsGrounded ==
  request =>
    /\ confidence \notin {"none", "insufficient"}
    /\ workflow = "rollback" => facts.change /\ facts.target
    /\ workflow \in {"rollback", "replay"} => ~facts.traceFailed
    /\ workflow = "slow_query" => facts.metric /\ (facts.logs \/ facts.db)
    /\ workflow # "watch"

\* The approver of a live request is on call for the incident (or configured for
\* the generic webhook), also when the model asked for the account's first.
ApproverIsOnIncident ==
  request /\ Live =>
    facts.approver = IF pagerduty THEN "incident" ELSE "generic_webhook"

\* No tool plan, subagent or step of the controller makes a call that its phase,
\* scope or approval does not allow, so that contracts and controller agree; and
\* production changes only in a run that asked and was told to, never after a
\* rejection, in a Watch or without confidence.
CallsAreAllowed ==
  /\ refused = {}
  /\ changes > 0 => decision = "approve" /\ request

\* Seen by who reads the record, the run follows the life cycle that an
\* investigation promises: through every plan, failure and early end its phase
\* goes forward, only the decision on its request lets it into remediation,
\* production is changed once, and what has ended stays as it ended.
Lifecycle == INSTANCE InvestigationLifecycle

FollowsLifecycle == Lifecycle!Spec

\* Every run settles, unless a scenario's short plan raised to its caller.
RunSettles == <>(status \in Settled \/ (step = "returned" /\ ~Live))
==============================================================================
