---------------------------- MODULE MCIncidentRun ----------------------------
(***************************************************************************)
(* Small instances of IncidentRun for TLC.                                 *)
(***************************************************************************)
EXTENDS IncidentRun, TLC

AllWorkflows == {"rollback", "slow_query", "replay", "watch"}
==============================================================================
