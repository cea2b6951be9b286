\* Two servers, four kinds of PagerDuty delivery, one run by the operator, one
\* crash and one failure that cannot be recorded.
SPECIFICATION FairSpec
CONSTANTS
  s1 = s1
  s2 = s2
  Servers = {s1, s2}
  Messages <- PagerDuty
  Incidents <- SomeIncidents
  NoIncident = NoIncident
  i1 = i1
  i2 = i2
  Ids = {i1, i2}
  NoId = NoId
  MaxRuns = 1
  MaxCrashes = 1
  MaxOutages = 1
INVARIANTS
  TypeOK
  OneInvestigationPerTrigger
PROPERTY
  AcceptedSettles
