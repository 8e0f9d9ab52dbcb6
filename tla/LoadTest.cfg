SPECIFICATION LoadSpec
CONSTANTS
  None = None
  u1 = u1
  u2 = u2
  u3 = u3
  o1 = o1
  o2 = o2
  o3 = o3
  c1 = c1
  c2 = c2
  w1 = w1
  w2 = w2
  w3 = w3
  Customers <- ThreeCustomers
  Orders <- ThreeOrders
  Codes <- OneCode
  Workers <- ThreeWorkers
  Requests <- ScriptRequests
  MaxTime = 0
  SeededUsers <- NoUsers
  SeededOrders <- Nothing
  SeededCoupons <- Nothing
  Contenders = 3
  Capacity = 1
  Concurrency = 2
  Code = c1
  CustomerOf <- MadeCustomers
  OrderOf <- MadeOrders
CHECK_DEADLOCK FALSE
INVARIANTS
  VerdictTrue
PROPERTIES
  ScriptEnds
  RequestsEnd
