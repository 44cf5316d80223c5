SPECIFICATION Spec
CONSTANTS
  a = a
  b = b
  w = w
  i = i
  j = j
  alice = alice
  bob = bob
  Id = {i}
  Msg = {a}
  Ctx = {alice, bob}
  PaymentOf <- RivalPayment
  From <- RivalFrom
  RightAmount <- AllButWrong
  Slot = {s1, s2}
  MaxReports = 1
  None = None
INVARIANTS
  ConfirmedHasOrder
CHECK_DEADLOCK FALSE
