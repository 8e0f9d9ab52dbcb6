------------------------------- MODULE Schema -------------------------------
(***************************************************************************)
(* The database schema of redemption/models.py: the rows of the orders and *)
(* coupons tables, and the constraints Postgres enforces on them whatever  *)
(* the application does.  A coupon is named by its unique code, which      *)
(* stands for the primary key too; an order by its client-chosen id.       *)
(* None is Python's None and SQL's NULL, and the entry of an absent row.   *)
(***************************************************************************)
EXTENDS Integers, FiniteSets

CONSTANTS Customers,   \* ids of customers, created or not
          Orders,      \* order ids a client may use, created or not
          Codes,       \* normalised coupon codes, created or not
          None

CouponType == {"STANDARD", "STACKABLE"}

OrderStatus == {"PLACED", "CANCELLED"}

\* The columns of a coupon that the rules of redemption read.  Instants are
\* naturals: only their order matters.
CouponRow == [code : Codes, type : CouponType, max_redemptions : Nat \ {0},
              redeemed_count : Nat, expires_at : Nat]

\* A Coupon instance in a worker's memory: its counter is a Python int, and
\* only saving it is subject to the column's constraints.
CouponInstance == [code : Codes, type : CouponType,
                   max_redemptions : Nat \ {0}, redeemed_count : Int,
                   expires_at : Nat]

OrderRow == [user : Customers, coupon : Codes \cup {None},
             status : OrderStatus, is_single_use : BOOLEAN]

ASSUME NoneAssumption ==
  /\ None \notin OrderRow
  /\ None \notin CouponInstance
  /\ None \notin Codes

ASSUME OrdersAssumption == IsFiniteSet(Orders)

\* The slots a coupon has left.
remaining(cpn) == cpn.max_redemptions - cpn.redeemed_count

\* coupon_redeemed_within_cap, and the CHECK (>= 0) of PositiveIntegerField.
RedeemedWithinCap(cpn) ==
  /\ cpn.redeemed_count >= 0
  /\ cpn.redeemed_count <= cpn.max_redemptions

\* An order that uses coupon c: the rows has_active_redemption selects.
Active(row, c) ==
  /\ row # None
  /\ row.coupon = c
  /\ row.status = "PLACED"

\* The rows in the partial unique index; one without a coupon, the key being
\* NULL, is in nobody's way.
InIndex(row) ==
  /\ row # None
  /\ row.status = "PLACED"
  /\ row.is_single_use
  /\ row.coupon # None

\* uniq_standard_coupon_active_per_user: does storing row as order o clash
\* with an entry of the partial unique index?
ViolatesUniqStandard(table, o, row) ==
  /\ InIndex(row)
  /\ \E p \in Orders \ {o} :
       /\ InIndex(table[p])
       /\ table[p].coupon = row.coupon
       /\ table[p].user = row.user
=============================================================================
