\* One rule of one device, no failure.
SPECIFICATION Spec
CONSTANTS
  r1 = r1
  r2 = r2
  None = None
  Invalid = Invalid
  Devices = {d1}
  Rules = {x1}
  Settings = {s1, s2}
  Requests <- Two
  Faults = {}
  MaxWrites = 4
PROPERTIES
  CreatedAsAsked
