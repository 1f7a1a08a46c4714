CONSTANTS
  Users = {u1, u2}
  Orgs = {o1}
  Workers = {w1, w2}
  None = None
  w1 = w1
  w2 = w2
  o1 = o1
  o2 = o2
  Mixes <- RemoveMixes
  MaxOrgs = 1
  MaxPending = 2
SPECIFICATION Spec
SYMMETRY Symmetry
CHECK_DEADLOCK FALSE
PROPERTY OwnerIrremovable
