CONSTANTS
  Access = {a}
  Refresh = {r}
  Workers = {w1, w2}
  None = None
  MaxTtl = 2
  NegTtl = 2
  Delay = 2
  Lag = 1
  Settings <- AllSettings
SPECIFICATION Spec
SYMMETRY Symmetry
INVARIANTS
  TypeOK
  StaleBound
  ExpiryBound
  RefreshRevocationImmediate
  RefillRaceClosed
