CONSTANTS
  Users = {u1, u2, u3}
  Orgs = {o1, o2}
  Workers = {w1, w2}
  None = None
  w1 = w1
  w2 = w2
  o1 = o1
  o2 = o2
  Mixes <- AllMixes
  MaxOrgs = 1
  MaxPending = 2
SPECIFICATION Spec
SYMMETRY Symmetry
CHECK_DEADLOCK FALSE
INVARIANTS
  TypeOK
  CapsHold
  NeverStuck
PROPERTIES
  SeatNeedsNomination
  KeepsAnOwner
  GuardPassesSeat
