CONSTANTS
  Codes = {c1}
  Pairs = {p1, p2, p3}
  Clients = {a}
  Users = {u}
  Workers = {w1, w2}
  None = None
  CodeTtl = 0
  AccessTtl = 0
  RefreshTtl = 0
  MaxTime = 0
  DbFaults = FALSE
SPECIFICATION CascadeSpec
SYMMETRY Symmetry
INVARIANT CascadeRevokesFamily
