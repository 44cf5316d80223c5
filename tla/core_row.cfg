SPECIFICATION Spec
CONSTANTS
  a = a
  b = b
  w = w
  i = i
  j = j
  alice = alice
  bob = bob
  Id = {i, j}
  Msg = {a, b}
  Ctx = {alice, bob}
  PaymentOf <- RowPayment
  From <- RowFrom
  RightAmount <- AllButWrong
  Slot = {s1, s2}
  MaxReports = 2
  None = None
INVARIANTS
  EnqueuedOnce
CHECK_DEADLOCK FALSE
