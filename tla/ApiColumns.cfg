SPECIFICATION ApiSpec
CONSTANTS
  None = None
  u1 = u1
  u2 = u2
  o1 = o1
  o2 = o2
  o3 = o3
  c1 = c1
  c2 = c2
  w1 = w1
  w2 = w2
  w3 = w3
  lower1 = lower1
  long2 = long2
  short2 = short2
  blank = blank
  id1 = id1
  id2 = id2
  NoId = NoId
  Customers <- TwoCustomers
  Orders <- TwoOrders
  Codes <- Strings
  Workers <- TwoWorkers
  Requests <- CleanRequests
  MaxTime = 0
  SeededUsers <- OneCustomer
  SeededOrders <- Created
  SeededCoupons <- Nothing
  Calls <- MixedCalls
  Ids <- TwoIds
  Canonical <- UpperCase
  Length <- Lengths
  Blank = blank
  MaxLength = 2
  MaxInteger = 2
  LongEmails <- NoAddress
INVARIANTS
  EveryErrorRendered
