\* Two callers, a handler of two requests, two attempts, a breaker that opens
\* at the second failure and one request per window.
SPECIFICATION FairSpec
CONSTANTS
  c1 = c1
  c2 = c2
  Callers = {c1, c2}
  Requests = 2
  MaxAttempts = 2
  Threshold = 2
  Limit = 1
INVARIANTS
  TypeOK
  SuccessIsComplete
  OnlyOutagesOpen
  OpenSheds
PROPERTY
  Recovers
