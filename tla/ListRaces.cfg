\* Two requests, two ids of one device_code, one cached page, every failure.
SPECIFICATION Spec
CONSTANTS
  d1 = d1
  d2 = d2
  q1 = q1
  r1 = r1
  r2 = r2
  r3 = r3
  None = None
  Devices <- TwoDevices
  CodeOf <- SameCode
  Queries = {q1}
  Requests <- Two
  Operations = {"create", "list", "update", "delete"}
  Faults <- AllFaults
  MaxCommits = 3
SYMMETRY RequestSymmetry
INVARIANTS
  ListCoherent
  CodesUnique
PROPERTIES
  ImplementsDirectory
