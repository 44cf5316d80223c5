SPECIFICATION Spec
CONSTANTS
  None = None
  Requests = {r1, r2}
  Instants = {1, 2, 3}
INVARIANT
  OneCurrentPrice
CHECK_DEADLOCK FALSE
