\* Three requests on one device, every failure.
SPECIFICATION Spec
CONSTANTS
  d1 = d1
  d2 = d2
  q1 = q1
  r1 = r1
  r2 = r2
  r3 = r3
  None = None
  Devices <- OneDevice
  CodeOf <- SameCode
  Queries = {q1}
  Requests <- Three
  Operations = {"create", "find", "update", "delete"}
  Faults <- AllFaults
  MaxCommits = 3
SYMMETRY RequestSymmetry
INVARIANTS
  TypeOK
  DeviceCoherent
  OneFlightPerDevice
  QuietReadsAreFresh
PROPERTIES
  GoneForGood
