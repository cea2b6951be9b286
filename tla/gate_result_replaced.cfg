\* Two handler threads race two approvals that carry different keys.
SPECIFICATION Spec
CONSTANTS
  h1 = h1
  h2 = h2
  Handlers = {h1, h2}
  Runner = Runner
  Commands <- TwoApprovals
  NoCommand = NoCommand
  RequestId = "approval-1"
  NoRequest = NoRequest
  Approvers <- OnCall
  RemediationKey = "remediation"
  SharedKeys <- NoKeys
  Workflow = "live_rollback"
  MaxAborts = 0
PROPERTY
  DuplicateKeepsResult
