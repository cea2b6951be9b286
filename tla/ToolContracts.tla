---------------------------- MODULE ToolContracts ----------------------------
(***************************************************************************)
(* The contracts of the tools and the checks of the tool executor: which   *)
(* tool may run in which phase, on whose behalf and with which approval.   *)
(* Of the 52 tools these are the ones that the orchestrator, the           *)
(* deterministic planner or a subagent names, and three (close_incident,   *)
(* escalate_incident, get_commit_author) that only a model would choose.   *)
(***************************************************************************)
EXTENDS Naturals

\* STATE_MACHINE, in order.
PhaseNumber ==
  [received |-> 1, triage |-> 2, evidence_collection |-> 3,
   service_investigation |-> 4, correlation |-> 5, response_proposal |-> 6,
   remediation |-> 7, post_mortem |-> 8]

Phases == DOMAIN PhaseNumber

ObserveTools ==
  {"observe.fetch_service_logs", "observe.query_metrics_range",
   "observe.get_distributed_traces", "observe.check_pod_health",
   "observe.get_error_rate_timeseries", "observe.fetch_apm_data",
   "observe.read_queue_depth", "observe.check_db_slow_queries",
   "observe.get_network_latency", "observe.check_uptime_history",
   "observe.get_memory_cpu_usage", "observe.fetch_alerting_rules",
   "observe.read_dashboard_snapshot"}

RepoTools ==
  {"repo.get_recent_commits", "repo.diff_pull_request", "repo.get_deploy_history",
   "repo.read_ci_pipeline_status", "repo.fetch_test_results",
   "repo.blame_file_line", "repo.get_rollback_targets", "repo.get_feature_flags",
   "repo.fetch_pr_metadata", "repo.get_commit_author", "repo.read_deployment_config"}

SpawnTool     == "infra.spawn_service_investigator"
MutatingTools == {"infra.rollback_deployment", "infra.add_database_index"}

CommsTools ==
  {"comms.post_to_slack", "comms.create_incident_channel",
   "comms.page_oncall_engineer", "comms.write_post_mortem",
   "comms.escalate_incident", "comms.close_incident",
   "comms.create_jira_ticket", "comms.update_runbook"}

Tools == ObserveTools \cup RepoTools \cup {SpawnTool} \cup MutatingTools \cup CommsTools

ReadStates == Phases \ {"received"}

\* build_tool_contracts: the phase_allowlist of each tool.
PhaseAllowlist ==
  [tool \in Tools |->
     CASE tool \in ObserveTools \cup RepoTools -> ReadStates
       [] tool = SpawnTool     -> {"service_investigation"}
       [] tool \in MutatingTools -> {"remediation"}
       [] tool \in CommsTools -> {"received", "response_proposal", "post_mortem"}]

\* What the planner is offered, and filters the model's answer by.
PhaseToolSet(phase) == {tool \in Tools : phase \in PhaseAllowlist[tool]}

-----------------------------------------------------------------------------
(* Who calls: the run itself, or a subagent with its scoped registry.      *)

Agents == {"parent", "service_investigator", "blast_radius", "remediation_readiness"}

Scope(agent) ==
  CASE agent = "parent" -> Tools
    [] agent = "service_investigator" -> ObserveTools \cup RepoTools
    [] agent = "blast_radius" ->
         {"observe.check_uptime_history", "observe.get_error_rate_timeseries",
          "observe.query_metrics_range"}
    [] agent = "remediation_readiness" ->
         {"repo.fetch_test_results", "repo.get_rollback_targets",
          "repo.read_ci_pipeline_status", "repo.read_deployment_config"}

\* ToolExecutor.invoke and RealTool.execute: scope, phase, approval.
Permitted(agent, tool, phase, approved) ==
  /\ tool \in Scope(agent)
  /\ phase \in PhaseAllowlist[tool]
  /\ tool \in MutatingTools => approved
==============================================================================
