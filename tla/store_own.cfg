SPECIFICATION FairSpec
CONSTANTS
  c1 = c1
  Ctx = {c1}
  Id = {1}
  Paid <- MCPaid
  Claims <- OwnClaims
  MaxSent <- OwnSent
  MaxReports <- MCReports
  MaxHandlers = 3
  MaxCrashes = 1
  None = None
INVARIANTS
  TypeOK
  OrderedOnce
  PaymentKept
PROPERTIES
  OnlyCrashUnindexes
  WaitingEnds
CHECK_DEADLOCK FALSE
