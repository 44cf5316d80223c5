SPECIFICATION Spec
CONSTANTS
  None = None
  p1 = p1
  p2 = p2
  d1 = d1
  d2 = d2
  t1 = t1
  t2 = t2
  h1 = h1
  h1Spaced = h1Spaced
  h2 = h2
  Payments = {p1, p2}
  Amount <- Amounts
  Devices = {d1, d2}
  Token <- OwnToken
  ApiKey = t2
  Headers = {h1, h1Spaced, h2}
  Presents <- Read
  Unreadable = Unreadable
  Reseller = Reseller
  Phones = {n1, n2}
  Keys <- AllKeys
  MaxRequests = 2
  Window = 2
  Skew = 3
  Offset = 7
  ServerOffset = 0
  MaxTime = 2
  MaxAsked = 4
INVARIANTS
  WindowBound
  ClaimIsPayment
  ReportIsPayment
