------------------------- MODULE CouponQueryService -------------------------
(***************************************************************************)
(* services/coupon_query.py: GET /coupons/<code>, one unlocked read.       *)
(***************************************************************************)
EXTENDS Sessions

\* get_by_code reads the committed row, whoever holds its lock.
QueryReadCoupon(w) ==
  LET row == coupons[req[w].code]
  IN  /\ At(w, "query", "readCoupon")
      /\ Reply(w, IF row = None THEN Error("COUPON_NOT_FOUND")
                                ELSE Success(remaining(row), FALSE))
      /\ UNCHANGED <<tables, locks, now, client, instance, saved>>
=============================================================================
