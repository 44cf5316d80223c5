SPECIFICATION FairSpec
CONSTANTS
  c1 = c1
  c2 = c2
  p1 = p1
  Ctx = {c1, c2}
  Id = {1, 2}
  Amount = {1, 2}
  Phone = {p1}
  Paid <- MCPaid
  Claims <- RivalClaims
  MaxAttempts = 2
  Patient = FALSE
  Durable = {"pending", "queue"}
  MaxRestarts = 1
  NoId = NoId
  NoPhone = NoPhone
  None = None
INVARIANTS
  StoresExclusive
  Evidence
  OneCommandPerPayment
  ProcessingHasCommand
  FirstPaidFirstDispatched
  AttemptsBounded
PROPERTIES
  EndsOnce
  RequestedIsAsked
  KeepsPromise
  ProcessingEnds
