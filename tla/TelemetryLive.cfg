\* Two requests of every operation, no rule, fair scheduling.
SPECIFICATION FairSpec
CONSTANTS
  a1 = a1
  p1 = p1
  p2 = p2
  r1 = r1
  r2 = r2
  None = None
  Points <- TwoPoints
  At <- TwoDays
  DayOf <- DayOfAt
  ChunkSize = 1
  Rules <- NoRule
  Settings <- Limits
  Breaches <- OverLimit
  Severities = {"warning", "critical"}
  SeverityOf <- Grade
  Requests <- Two
  Operations = {"ingest", "find", "range", "delete"}
  Faults = {"scylla", "cache", "crash"}
  DayLength = 2
  Zones <- TwoZones
  Moments <- Hours
INVARIANTS
  LatestInWindow
PROPERTIES
  LatestConverges
  GoneKeysVanish
  ForgottenForGood
