------------------------ MODULE CancellationService -------------------------
(***************************************************************************)
(* services/cancellation.py: OrderCancellationService.cancel, one action *)
(* per database statement.                                                 *)
(***************************************************************************)
EXTENDS Sessions

\* cancel locks the order; an order without a coupon skips the coupon.
CancelLockOrder(w) ==
  LET row == orders[req[w].order]
  IN  /\ At(w, "cancel", "lockOrder")
      /\ LockOrder(w, req[w].order)
      /\ \/ /\ row = None
            /\ Raise(w, "ORDER_NOT_FOUND")
         \/ /\ row # None
            /\ row.coupon # None
            /\ Goto(w, "lockAttached")
            /\ UNCHANGED resp
         \/ /\ row # None
            /\ row.coupon = None
            /\ row.status = "PLACED"
            /\ Goto(w, "markCancelled")
            /\ UNCHANGED resp
         \/ /\ row # None
            /\ row.coupon = None
            /\ row.status = "CANCELLED"
            /\ Return(w, Success(None, TRUE))
      /\ UNCHANGED <<tables, couponLock, now, client, coupon, rule, saved>>

\* _remaining: a coupon-less order reports no slots.
RemainingOf(cpn) == IF cpn = None THEN None ELSE remaining(cpn)

\* Broken: a second cancellation releases the slot again.
CancelReleasesAgain(w) ==
  /\ At(w, "cancel", "lockAttached")
  /\ LockCoupon(w, order[w].coupon)
  /\ Goto(w, "saveCount")
  /\ UNCHANGED <<tables, orderLock, now, client, order, rule, saved, resp>>

\* cancel and _already_cancelled lock the attached coupon.  A cancelled order
\* only reports the slots left; a placed one goes on to release its own.
CancelLockCoupon(w) ==
  LET row == coupons[order[w].coupon]
  IN  /\ At(w, "cancel", "lockAttached")
      /\ LockCoupon(w, order[w].coupon)
      /\ IF order[w].status = "CANCELLED"
         THEN Return(w, Success(RemainingOf(row), TRUE))
         ELSE IF row = None
              THEN Raise(w, "COUPON_NOT_FOUND")
              ELSE Goto(w, "saveCount") /\ UNCHANGED resp
      /\ UNCHANGED <<tables, orderLock, now, client, order, rule, saved>>

\* coupon.redeemed_count -= 1, saved.
CancelSaveCount(w) ==
  /\ At(w, "cancel", "saveCount")
  /\ SaveRedeemedCount(w, coupon[w].redeemed_count - 1, "markCancelled")
  /\ UNCHANGED <<tables, locks, now, client, order, rule>>

\* Broken: a status the enumeration does not have.
CancelMisspelt(w) ==
  /\ At(w, "cancel", "markCancelled")
  /\ order' = [order EXCEPT ![w].status = "CANCELED"]
  /\ saved' = [saved EXCEPT ![w] = @ \cup {"status"}]
  /\ Return(w, Success(RemainingOf(coupon[w]), FALSE))
  /\ UNCHANGED <<tables, locks, now, client, coupon, rule>>

\* mark_cancelled, and the payload returned from inside the transaction.
CancelMarkCancelled(w) ==
  /\ At(w, "cancel", "markCancelled")
  /\ order' = [order EXCEPT ![w].status = "CANCELLED"]
  /\ saved' = [saved EXCEPT ![w] = @ \cup {"status"}]
  /\ Return(w, Success(RemainingOf(coupon[w]), FALSE))
  /\ UNCHANGED <<tables, locks, now, client, coupon, rule>>

CancelLock(w) == CancelLockOrder(w) \/ CancelLockCoupon(w)

CancelStep(w) == CancelSaveCount(w) \/ CancelMarkCancelled(w)
=============================================================================
