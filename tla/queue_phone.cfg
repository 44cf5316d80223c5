SPECIFICATION Spec
CONSTANTS
  Commands = 2
  Dest <- SameDest
  Amounts <- DistinctAmounts
  MaxAttempts = 2
  OnePoll = TRUE
  MaxHandlers = 2
  None = None
INVARIANTS
  TypeOK
  HandedBounded
  CompletedIsDelivered
  LeavesAnnounced
  FirstEnqueuedFirstHanded
CHECK_DEADLOCK FALSE
