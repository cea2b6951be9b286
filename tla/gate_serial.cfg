\* Commands served one at a time by one handler thread; one call may die half way.
SPECIFICATION FairSpec
CONSTANTS
  h1 = h1
  Handlers = {h1}
  Runner = Runner
  Commands <- AllCommands
  NoCommand = NoCommand
  RequestId = "approval-1"
  NoRequest = NoRequest
  Approvers <- OnCall
  RemediationKey = "remediation"
  SharedKeys <- TakenKeys
  Workflow = "live_rollback"
  MaxAborts = 1
INVARIANT
  ResultTellsTheChange
PROPERTY
  DecisionSettles
