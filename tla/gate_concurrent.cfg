\* Two handler threads race four commands; one call may die half way.
SPECIFICATION Spec
CONSTANTS
  h1 = h1
  h2 = h2
  Handlers = {h1, h2}
  Runner = Runner
  Commands <- RacingCommands
  NoCommand = NoCommand
  RequestId = "approval-1"
  NoRequest = NoRequest
  Approvers <- OnCall
  RemediationKey = "remediation"
  SharedKeys <- NoKeys
  Workflow = "live_rollback"
  MaxAborts = 1
SYMMETRY HandlerSymmetry
INVARIANTS
  TypeOK
  AtMostOneRemediation
  ChangeIsApproved
  NoChangeOnLateCommand
  ExecutedIsConfirmed
PROPERTY
  RemediatesOnce
