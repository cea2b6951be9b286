\* One server, retried deliveries of one incident, one crash.
SPECIFICATION FairSpec
CONSTANTS
  s1 = s1
  Servers = {s1}
  Messages <- OneAlert
  Incidents <- OneIncident
  NoIncident = NoIncident
  i1 = i1
  Ids = {i1}
  NoId = NoId
  MaxRuns = 0
  MaxCrashes = 1
  MaxOutages = 0
PROPERTY
  DuplicateReturnsInvestigation
