\* Two requests, every operation and failure, fair scheduling.
SPECIFICATION FairSpec
CONSTANTS
  d1 = d1
  d2 = d2
  q1 = q1
  r1 = r1
  r2 = r2
  r3 = r3
  None = None
  Devices <- OneDevice
  CodeOf <- SameCode
  Queries = {q1}
  Requests <- Two
  Operations = {"create", "find", "list", "update", "delete"}
  Faults <- AllFaults
  MaxCommits = 2
PROPERTIES
  EveryRequestEnds
  CachesConverge
