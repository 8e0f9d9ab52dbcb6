----------------------------- MODULE Maintenance ------------------------------
(***************************************************************************)
(* The service beside hand-written UPDATEs.  README "How the invariant is  *)
(* actually held" counts the CHECK constraints and the partial unique      *)
(* index as layers of their own, which no writer can get past; within the  *)
(* service they are never reached (BackstopsUnreached), so it takes        *)
(* another writer to see what each layer stops.                            *)
(*                                                                         *)
(* A foreign UPDATE is one autocommitted statement that changes one row.   *)
(* It waits for the lock of that row, and the constraints judge it like    *)
(* any other; one that waits or is refused has no effect, so only the      *)
(* others are steps.  It may store any row but for three restrictions: a   *)
(* coupon keeps its code and its type, an order's is_single_use goes with  *)
(* its coupon's type (AgreesWithType), and no STANDARD coupon is attached  *)
(* to a live order (such an UPDATE checks its foreign key at its COMMIT,   *)
(* behind its index entry, and can be in a deadlock with a redemption).    *)
(***************************************************************************)
EXTENDS CouponSystem

CONSTANT Rows    \* the coupon rows an administrator may store

ASSUME RowsAssumption == Rows \subseteq CouponRow

\* tests/test_capacity.py: Coupon.objects.filter(pk=...).update(...) moves the
\* counter; a campaign is enlarged, cut down or prolonged the same way.
UpdateCoupon(c, row) ==
  /\ coupons[c] # None
  /\ couponLock[c] = None
  /\ row.code = c /\ row.type = coupons[c].type
  /\ RedeemedWithinCap(row)
  /\ coupons' = [coupons EXCEPT ![c] = row]
  /\ UNCHANGED <<users, orders, locks, now, pc, client, instance, saved, resp>>

\* An index entry that a worker has written and not yet committed makes a
\* clashing writer wait for its transaction.
AwaitsEntry(row) ==
  /\ InIndex(row)
  /\ \E w \in Workers :
       /\ {"coupon", "is_single_use"} \subseteq saved[w]
       /\ InIndex(order[w])
       /\ order[w].coupon = row.coupon
       /\ order[w].user = row.user

\* The one duty of a writer of orders: no constraint ties is_single_use to the
\* type it repeats, and a live order without the flag is not in the index.
AgreesWithType(row) ==
  row.coupon # None =>
    row.is_single_use = (coupons[row.coupon].type = "STANDARD")

\* tests/test_load_multiprocess.py: Order.objects.filter(pk=...).update(...)
\* attaches a coupon, which waits for the coupon's lock (the foreign key).  An
\* order is detached, closed, put back to PLACED, coupon and all, or handed to
\* another customer, by somebody who does not know about the counter.
UpdateOrder(o, row) ==
  /\ orders[o] # None
  /\ orderLock[o] = None
  /\ row.user \in users
  /\ row.coupon \notin {None, orders[o].coupon} =>
       /\ coupons[row.coupon] # None
       /\ couponLock[row.coupon] = None
       /\ ~InIndex(row)
  /\ AgreesWithType(row)
  /\ ~AwaitsEntry(row)
  /\ ~ViolatesUniqStandard(orders, o, row)
  /\ orders' = [orders EXCEPT ![o] = row]
  /\ UNCHANGED <<users, coupons, locks, now, pc, client, instance, saved,
                 resp>>

ForeignUpdate ==
  \/ \E c \in Codes, row \in Rows : UpdateCoupon(c, row)
  \/ \E o \in Orders, row \in OrderRow : UpdateOrder(o, row)

MaintainedNext == Next \/ ForeignUpdate

MaintainedSpec == Init /\ [][MaintainedNext]_vars

-----------------------------------------------------------------------------
\* README layers 2 and 3: beside any such UPDATEs a stored counter is within
\* its cap, and no customer holds a STANDARD coupon on two live orders, even
\* when an order comes back, or changes hands, between the per-customer check
\* of a redemption and its write.
ConstraintsHold ==
  /\ \A c \in Codes : coupons[c] # None =>
       coupons[c].redeemed_count \in 0 .. coupons[c].max_redemptions
  /\ \A o, p \in Orders :
       /\ orders[o] # None /\ orders[p] # None
       /\ orders[o].status = "PLACED" /\ orders[p].status = "PLACED"
       /\ orders[o].coupon # None
       /\ orders[o].coupon = orders[p].coupon
       /\ orders[o].user = orders[p].user
       /\ coupons[orders[o].coupon].type = "STANDARD"
       => o = p

\* How far a counter is from the live orders it should count.
Drift(c) == coupons[c].redeemed_count - Cardinality(Holders(c))

\* The services are neutral: a counter that somebody else has moved away from
\* its orders is taken as it is, and no step of a worker (a redemption the
\* index refuses after its counter was saved among them) moves it further.
DriftKept ==
  pc' # pc => \A c \in Codes : coupons[c] # None => Drift(c)' = Drift(c)

ServicesKeepDrift == [][DriftKept]_vars

\* The one untranslated database error the foreign writers can provoke: a
\* cancellation that would take a counter below zero, which it can only do
\* when the stored counter has lost orders.  A redemption never fails so,
\* however cap and counter are moved between its statements.
RawErrorsOnlyOnDrift ==
  \A w \in Workers :
    pc[w] = "rollback" /\ resp[w].reason = "SERVER_ERROR" =>
      /\ req[w].op = "cancel"
      /\ Drift(coupon[w].code) < 0
=============================================================================
