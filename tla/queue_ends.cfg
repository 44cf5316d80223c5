SPECIFICATION FairSpec
CONSTANTS
  Commands = 1
  Dest <- SameDest
  Amounts <- DistinctAmounts
  MaxAttempts = 2
  OnePoll = TRUE
  MaxHandlers = 3
  None = None
PROPERTIES
  EveryCommandEnds
CHECK_DEADLOCK FALSE
