SPECIFICATION FairSpec
CONSTANTS
  c1 = c1
  c2 = c2
  p1 = p1
  Ctx = {c1, c2}
  Id = {1, 2, 3}
  Amount = {1, 2, 3}
  Phone = {p1}
  Paid <- MCPaid
  Claims <- HonestClaims
  MaxAttempts = 1
  Patient = TRUE
  Durable = {}
  MaxRestarts = 0
  NoId = NoId
  NoPhone = NoPhone
  None = None
INVARIANTS
  TypeOK
  UsedIsOrdered
  SessionTracksQueue
PROPERTIES
  PaidConcludes
  WaitingEnds
