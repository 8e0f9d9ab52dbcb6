SPECIFICATION Spec
CONSTANTS
  None = None
  u1 = u1
  u2 = u2
  o1 = o1
  o2 = o2
  o3 = o3
  c1 = c1
  c2 = c2
  w1 = w1
  w2 = w2
  w3 = w3
  Customers <- TwoCustomers
  Orders <- TwoOrders
  Codes <- OneCode
  Workers <- TwoWorkers
  Requests <- SeedingRequests
  MaxTime = 0
  SeededUsers <- NoUsers
  SeededOrders <- Nothing
  SeededCoupons <- Nothing
INVARIANTS
  SingleUseAgrees
  AnswerInv
PROPERTIES
  ImplementsLedger
