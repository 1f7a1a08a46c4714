CONSTANTS
  Codes = {c1}
  Pairs = {p1, p2}
  Clients = {a}
  Users = {u}
  Workers = {w1, w2}
  None = None
  CodeTtl = 0
  AccessTtl = 0
  RefreshTtl = 0
  MaxTime = 1
  DbFaults = TRUE
SPECIFICATION Spec
SYMMETRY Symmetry
INVARIANTS
    DeliveredPersisted
    CascadeReachesAccess
PROPERTY
    ImplementsSingleUseGrants
