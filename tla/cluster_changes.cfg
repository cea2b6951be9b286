\* Three templates, so that a rollout can come between the target and its
\* rollback, and two attempts of the rollback.
SPECIFICATION Spec
CONSTANTS
  a = a
  b = b
  c = c
  Templates = {a, b, c}
  MaxRevision = 5
  MaxAttempts = 2
INVARIANTS
  TypeOK
  RetryIsHarmless
  VerifiedIsLive
PROPERTIES
  ApprovedTemplateDeployed
