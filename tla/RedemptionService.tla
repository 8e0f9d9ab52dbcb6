------------------------- MODULE RedemptionService --------------------------
(***************************************************************************)
(* services/redemption.py: CouponRedemptionService.redeem, one action per *)
(* database statement.  Every statement is followed by the local checks    *)
(* the code makes on what it read.                                         *)
(***************************************************************************)
EXTENDS Sessions

\* Broken: redeem does not look at the status of the order.
RedeemAnyStatus(w) ==
  LET r   == req[w]
      row == orders[r.order]
  IN  /\ At(w, "redeem", "lockOrder")
      /\ LockOrder(w, r.order)
      /\ IF row = None
         THEN Raise(w, "ORDER_NOT_FOUND")
         ELSE IF row.user # r.customer
         THEN Raise(w, "ORDER_OWNERSHIP_MISMATCH")
         ELSE /\ Goto(w, IF row.coupon # None THEN "lockAttached"
                                              ELSE "lockCoupon")
              /\ UNCHANGED resp
      /\ UNCHANGED <<tables, couponLock, now, client, coupon, rule, saved>>

\* redeem locks the order and checks it can carry this customer's coupon.
RedeemLockOrder(w) ==
  LET r   == req[w]
      row == orders[r.order]
  IN  /\ At(w, "redeem", "lockOrder")
      /\ LockOrder(w, r.order)
      /\ \/ /\ row = None
            /\ Raise(w, "ORDER_NOT_FOUND")
         \/ /\ row # None
            /\ row.user # r.customer
            /\ Raise(w, "ORDER_OWNERSHIP_MISMATCH")
         \/ /\ row # None
            /\ row.user = r.customer
            /\ row.status # "PLACED"
            /\ Raise(w, "ORDER_NOT_PLACED")
         \/ /\ row # None
            /\ row.user = r.customer
            /\ row.status = "PLACED"
            /\ Goto(w, IF row.coupon # None THEN "lockAttached"
                                            ELSE "lockCoupon")
            /\ UNCHANGED resp
      /\ UNCHANGED <<tables, couponLock, now, client, coupon, rule, saved>>

\* _replay: the order already carries a coupon, which must be the one asked
\* for; the answer reports the counter as it is now.
RedeemReplay(w) ==
  LET row == coupons[order[w].coupon]
  IN  /\ At(w, "redeem", "lockAttached")
      /\ LockCoupon(w, order[w].coupon)
      /\ \/ /\ row = None \/ row.code # req[w].code
            /\ Raise(w, "ORDER_ALREADY_HAS_COUPON")
         \/ /\ row # None
            /\ row.code = req[w].code
            /\ Return(w, Success(remaining(row), TRUE))
      /\ UNCHANGED <<tables, orderLock, now, client, order, rule, saved>>

\* redeem locks the coupon named by the request.
RedeemLockCoupon(w) ==
  LET row == coupons[req[w].code]
  IN  /\ At(w, "redeem", "lockCoupon")
      /\ LockCoupon(w, req[w].code)
      /\ \/ /\ row = None
            /\ Raise(w, "COUPON_NOT_FOUND")
         \/ /\ row # None
            /\ Goto(w, "policies")
            /\ UNCHANGED resp
      /\ UNCHANGED <<tables, orderLock, now, client, order, rule, saved>>

\* One turn of the loop over for_type(coupon.type).  The expiry rule reads
\* the clock and the single-use rule the orders table at this very step.
RedeemEnforcePolicy(w) ==
  LET policies == for_type(coupon[w].type)
      policy   == policies[rule[w]]
      refused  == Refuses(policy, coupon[w], req[w].customer, orders, now)
  IN  /\ At(w, "redeem", "policies")
      /\ \/ /\ refused
            /\ Raise(w, PolicyError[policy])
            /\ UNCHANGED rule
         \/ /\ ~refused
            /\ rule[w] < Len(policies)
            /\ rule' = [rule EXCEPT ![w] = @ + 1]
            /\ UNCHANGED <<pc, resp>>
         \/ /\ ~refused
            /\ rule[w] = Len(policies)
            /\ Goto(w, "saveCount")
            /\ UNCHANGED <<rule, resp>>
      /\ UNCHANGED <<tables, locks, now, client, order, coupon, saved>>

\* coupon.redeemed_count += 1, saved.
RedeemSaveCount(w) ==
  /\ At(w, "redeem", "saveCount")
  /\ SaveRedeemedCount(w, coupon[w].redeemed_count + 1, "attachCoupon")
  /\ UNCHANGED <<tables, locks, now, client, order, rule>>

\* Broken: attach_coupon leaves is_single_use at its default.
AttachedWithoutFlag(w) == [order[w] EXCEPT !.coupon = coupon[w].code]

\* The order instance attach_coupon saves.
Attached(w) ==
  [order[w] EXCEPT !.coupon = coupon[w].code,
                   !.is_single_use = (coupon[w].type = "STANDARD")]

\* attach_coupon, the unique index consulted by the UPDATE, and the payload
\* that the service returns from inside the transaction.
RedeemAttachCoupon(w) ==
  /\ At(w, "redeem", "attachCoupon")
  /\ order' = [order EXCEPT ![w] = Attached(w)]
  /\ IF ViolatesUniqStandard(orders, req[w].order, Attached(w))
     THEN Raise(w, "CUSTOMER_ALREADY_REDEEMED") /\ UNCHANGED saved
     ELSE /\ saved' = [saved EXCEPT ![w] = @ \cup {"coupon", "is_single_use"}]
          /\ Return(w, Success(remaining(coupon[w]), FALSE))
  /\ UNCHANGED <<tables, locks, now, client, coupon, rule>>

\* Broken: redeem locks the coupon first and the order second.
RedeemLockCouponFirst(w) ==
  LET row == orders[req[w].order]
  IN  \/ /\ At(w, "redeem", "lockOrder")
         /\ coupon[w] = None
         /\ LockCoupon(w, req[w].code)
         /\ UNCHANGED <<tables, orderLock, now, pc, client, order, rule, saved,
                        resp>>
      \/ /\ At(w, "redeem", "lockOrder")
         /\ coupon[w] # None
         /\ LockOrder(w, req[w].order)
         /\ IF row # None /\ row.status = "PLACED" /\ row.coupon = None
            THEN Goto(w, "policies") /\ UNCHANGED resp
            ELSE Raise(w, "ORDER_NOT_PLACED")
         /\ UNCHANGED <<tables, couponLock, now, client, coupon, rule, saved>>

RedeemLock(w) == RedeemLockOrder(w) \/ RedeemReplay(w) \/ RedeemLockCoupon(w)

RedeemStep(w) ==
  RedeemEnforcePolicy(w) \/ RedeemSaveCount(w) \/ RedeemAttachCoupon(w)
=============================================================================
