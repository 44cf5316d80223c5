SPECIFICATION Spec
CONSTANTS
  c1 = c1
  c2 = c2
  p1 = p1
  Ctx = {c1, c2}
  Id = {1, 2}
  Amount = {1, 2}
  Phone = {p1}
  Paid <- MCPaid
  Claims <- TwoTransfers
  MaxAttempts = 1
  Patient = FALSE
  Durable = {}
  MaxRestarts = 0
  NoId = NoId
  NoPhone = NoPhone
  None = None
INVARIANT TransfersInARowServed
