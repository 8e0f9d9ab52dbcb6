---------------------------- MODULE MCMaintenance -----------------------------
(***************************************************************************)
(* Instance of Maintenance for TLC: two workers, two orders and a STANDARD *)
(* coupon, so that an order that comes back or changes hands and a         *)
(* redemption compete for the customer's only use.                         *)
(***************************************************************************)
EXTENDS Maintenance, MCCoupons

\* Rows of either type with any counter around the caps 1 and 2: not every one
\* passes the CHECK constraint, or keeps the type.
AnyRows ==
  {[Coupon(c1, type, max, 0) EXCEPT !.redeemed_count = n] :
     type \in CouponType, max \in 1 .. 2, n \in 0 .. 3}

\* Both orders start as the same customer's, and the same requests name them.
WorkerOrderSymmetry == WorkerSymmetry \cup Permutations(Orders)
=============================================================================
