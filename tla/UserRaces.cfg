\* Two requests on two users with two names and two emails, every failure.
SPECIFICATION Spec
CONSTANTS
  r1 = r1
  r2 = r2
  n1 = n1
  n2 = n2
  e1 = e1
  e2 = e2
  None = None
  Users = {u1, u2}
  Names <- TwoNames
  Emails <- TwoEmails
  Roles = {o1}
  Requests <- TwoRequests
  Updates <- SomeUpdates
  Faults = {"postgres", "ack"}
  MaxWrites = 3
SYMMETRY Symmetries
INVARIANTS
  TypeOK
  UniqueColumns
  ChangesKept
PROPERTIES
  InnocentSavesPass
