\* Two requests on one rule of one device, every failure.
SPECIFICATION Spec
CONSTANTS
  r1 = r1
  r2 = r2
  None = None
  Invalid = Invalid
  Devices = {d1}
  Rules = {x1}
  Settings = {s1, s2}
  Requests <- Two
  Faults = {"postgres", "ack"}
  MaxWrites = 4
SYMMETRY RequestSymmetry
INVARIANTS
  TypeOK
  RulesHaveDevices
  ChangesKept
PROPERTIES
  NoLateRevival
