SPECIFICATION ClientsSpec
CONSTANTS
  None = None
  u1 = u1
  u2 = u2
  o1 = o1
  o2 = o2
  o3 = o3
  c1 = c1
  c2 = c2
  w1 = w1
  w2 = w2
  w3 = w3
  k1 = k1
  k2 = k2
  k3 = k3
  Customers <- TwoCustomers
  Orders <- TwoOrders
  Codes <- TwoCodes
  Workers <- TwoWorkers
  Requests <- WishedRequests
  MaxTime = 0
  SeededUsers <- TwoCustomers
  SeededOrders <- TwoOwnOrders
  SeededCoupons <- BothKinds
  Clients <- ThreeClients
  Goal <- Wishes
  MaxTimeouts = 1
  MaxCrashes = 1
INVARIANTS
  HeardTrue
PROPERTIES
  OneFirstTime
  EveryClientAnswered
  RequestsEnd
