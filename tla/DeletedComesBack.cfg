\* An update that writes after a delete, no failure.
SPECIFICATION Spec
CONSTANTS
  d1 = d1
  d2 = d2
  q1 = q1
  r1 = r1
  r2 = r2
  r3 = r3
  None = None
  Devices <- OneDevice
  CodeOf <- SameCode
  Queries = {q1}
  Requests <- Two
  Operations = {"create", "update", "delete"}
  Faults = {}
  MaxCommits = 3
SYMMETRY RequestSymmetry
PROPERTIES
  DeletedStaysDeleted
