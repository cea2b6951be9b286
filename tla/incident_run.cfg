\* All four workflows; one or two services, plans of up to three tools, one repeat.
SPECIFICATION FairSpec
CONSTANTS
  Workflows <- AllWorkflows
  MaxServices = 2
  MaxPlanned = 3
  MaxRepeats = 1
INVARIANTS
  TypeOK
  RequestIsGrounded
  ApproverIsOnIncident
  CallsAreAllowed
PROPERTIES
  FollowsLifecycle
  RunSettles
CHECK_DEADLOCK FALSE
