CONSTANTS
  Codes = {d1}
  Clients = {a}
  Users = {u}
  Workers = {w1, w2}
  None = None
  Lifetime = 2
  Interval = 1
  Backoff = 1
  MaxInterval = 3
  MaxTime = 3
  DbFaults = FALSE
SPECIFICATION Spec
SYMMETRY Symmetry
INVARIANT SingleRedemption
CHECK_DEADLOCK FALSE
