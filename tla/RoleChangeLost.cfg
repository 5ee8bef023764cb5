\* One user with one name and email, two roles, no failure.
SPECIFICATION Spec
CONSTANTS
  r1 = r1
  r2 = r2
  n1 = n1
  n2 = n2
  e1 = e1
  e2 = e2
  None = None
  Users = {u1}
  Names = {n1}
  Emails = {e1}
  Roles = {o1, o2}
  Requests <- TwoRequests
  Updates <- AllUpdates
  Faults = {}
  MaxWrites = 3
PROPERTIES
  RoleChangeApplies
