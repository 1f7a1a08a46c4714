CONSTANTS
  Codes = {d1}
  Clients = {a, b}
  Users = {u, v}
  Workers = {w1, w2}
  None = None
  Lifetime = 2
  Interval = 1
  Backoff = 1
  MaxInterval = 3
  MaxTime = 3
  DbFaults = TRUE
SPECIFICATION FairSpec
INVARIANTS
  TypeOK
  RedemptionPerApproval
  IssuedToApprover
PROPERTIES
  ApprovalSticks
  Answered
