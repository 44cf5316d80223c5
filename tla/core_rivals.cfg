SPECIFICATION Spec
CONSTANTS
  a = a
  b = b
  w = w
  i = i
  j = j
  alice = alice
  bob = bob
  Id = {i, j}
  Msg = {a, b, w}
  Ctx = {alice, bob}
  PaymentOf <- RivalPayment
  From <- RivalFrom
  RightAmount <- AllButWrong
  Slot = {s1, s2}
  MaxReports = 2
  None = None
INVARIANTS
  TypeOK
  OneCustomerServed
  PaidBeforeCommand
  UsedIsDelivered
  SavedReplyIsTrue
  AnnouncedIsRecorded
SYMMETRY SlotSymmetry
CHECK_DEADLOCK FALSE
