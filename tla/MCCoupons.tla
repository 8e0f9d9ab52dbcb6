----------------------------- MODULE MCCoupons ------------------------------
(***************************************************************************)
(* Small instances of the service for TLC: the tables it starts with and   *)
(* the requests clients send, one group of definitions per scenario.  Each *)
(* configuration picks a group.                                            *)
(***************************************************************************)
EXTENDS LedgerRefinement, CouponInvariant, TLC

CONSTANTS u1, u2, o1, o2, o3, c1, c2, w1, w2, w3

TwoCustomers == {u1, u2}
TwoOrders    == {o1, o2}
ThreeOrders  == {o1, o2, o3}
OneCode      == {c1}
TwoCodes     == {c1, c2}
TwoWorkers   == {w1, w2}
ThreeWorkers == {w1, w2, w3}
WorkerSymmetry == Permutations(Workers)

Coupon(c, type, max, expires) ==
  [code |-> c, type |-> type, max_redemptions |-> max, redeemed_count |-> 0,
   expires_at |-> expires]

Owner == o1 :> u1 @@ o2 :> u1 @@ o3 :> u2

OwnRedemptions == {r \in RedeemRequest : r.customer = Owner[r.order]}

\* Contention: three workers, three orders (two of one customer), one coupon.
StandardForOne  == c1 :> Coupon(c1, "STANDARD", 1, 0)
StackableForTwo == c1 :> Coupon(c1, "STACKABLE", 2, 0)
ContentionRequests == OwnRedemptions \cup CancelRequest

\* Errors: two workers, a STANDARD and a STACKABLE coupon that share orders;
\* o3 does not exist and neither may c2, customers name each other's orders.
TwoOwners == o1 :> u1 @@ o2 :> u2
BothKinds == c1 :> Coupon(c1, "STANDARD", 1, 0)
               @@ c2 :> Coupon(c2, "STACKABLE", 1, 0)
AllServiceRequests == RedeemRequest \cup CancelRequest \cup QueryRequest

\* Expiry: the clock runs past expires_at while requests wait.  A customer
\* with two orders finds the slot taken by the other one or by another
\* customer.
ExpiringCoupon == c1 :> Coupon(c1, "STANDARD", 1, 1)

\* The same with the orders of one customer only.
TwoOwnOrders   == o1 :> u1 @@ o2 :> u1
ExpiryRequests == {r \in RedeemRequest : r.customer = u1} \cup CancelRequest

\* Seeding: empty tables, filled while redemptions already arrive.
Nothing == << >>
NoUsers == {}
SeedingRequests ==
  UserRequest \cup OrderRequest \cup QueryRequest
    \cup [op : {"create_coupon"}, code : Codes, row :
            {Coupon(c1, "STANDARD", 1, 0), Coupon(c1, "STACKABLE", 2, 0)}]
    \cup {r \in RedeemRequest : r.customer = u1} \cup CancelRequest
=============================================================================
