\* Two requests, two points of one instant, in one list or in two, one
\* rule of two settings, every failure.
SPECIFICATION Spec
CONSTANTS
  a1 = a1
  p1 = p1
  p2 = p2
  r1 = r1
  r2 = r2
  None = None
  Points <- TwoPoints
  At <- OneHour
  DayOf <- DayOfAt
  ChunkSize = 1
  Rules <- OneRule
  Settings <- Limits
  Breaches <- OverLimit
  Severities = {"warning", "critical"}
  SeverityOf <- Grade
  Requests <- Two
  Operations = {"ingest", "delete"}
  Faults <- AllFaults
  DayLength = 2
  Zones <- TwoZones
  Moments <- Hours
SYMMETRY RequestSymmetry
INVARIANTS
  TypeOK
  AlertsComplete
  CountNeedsEvent
  QueryMissesOnlyEnds
PROPERTIES
  ReopenedOnlyByRedelivery
  ImplementsLog
