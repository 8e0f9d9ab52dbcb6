-------------------------- MODULE CouponInvariant ---------------------------
(***************************************************************************)
(* The inductive invariant behind the safety properties of CouponSystem:   *)
(* what each worker knows at each statement, and why the locks it holds    *)
(* keep that true whatever the other workers do.                           *)
(***************************************************************************)
EXTENDS CouponSystem

\* The statements of each handler.
Serves(op, label) ==
  \/ label = "respond"
  \/ op \in {"redeem", "cancel"}
       /\ label \in {"lockOrder", "lockAttached", "saveCount", "commit",
                     "rollback"}
  \/ op = "redeem" /\ label \in {"lockCoupon", "policies", "attachCoupon"}
  \/ op = "cancel" /\ label = "markCancelled"
  \/ op = "query" /\ label = "readCoupon"
  \/ op = "create_user" /\ label = "insertUser"
  \/ op = "create_coupon" /\ label = "insertCoupon"
  \/ op = "create_order" /\ label \in {"checkUser", "insertOrder"}

\* A worker is idle, or at a statement of the handler of its request.
ControlOK(w) ==
  IF pc[w] = "idle" THEN req[w] = None
  ELSE req[w] # None /\ Serves(req[w].op, pc[w])

\* The statements between the order lock and the end of the transaction.
Writing == {"saveCount", "attachCoupon", "markCancelled", "commit"}
Guarded == {"lockAttached", "lockCoupon", "policies"} \cup Writing

\* A worker has the instances its next statement uses, their rows exist, and
\* it saves only from statements that follow a lock.
InstancesOK(w) ==
  /\ pc[w] \in Guarded => order[w] # None /\ orders[req[w].order] # None
  /\ pc[w] = "lockAttached" => order[w].coupon # None
  /\ pc[w] \in {"policies", "saveCount", "attachCoupon"} =>
       coupon[w] # None /\ coupons[coupon[w].code] # None
  /\ pc[w] = "policies" => rule[w] <= Len(for_type(coupon[w].type))
  /\ pc[w] \notin {"policies", "saveCount", "attachCoupon", "markCancelled",
                   "commit", "rollback"} => rule[w] = 1
  /\ pc[w] \notin {"attachCoupon", "markCancelled", "commit", "rollback"} =>
       saved[w] = {}
  /\ "redeemed_count" \in saved[w] =>
       /\ coupon[w] # None
       /\ coupons[coupon[w].code] # None
       /\ RedeemedWithinCap(coupon[w])

\* The part of the invariant that type correctness rests on.  It says nothing
\* of locks, and holds even of a service that takes none.
TypeInv ==
  /\ TypeOK
  /\ \A w \in Workers : ControlOK(w) /\ InstancesOK(w)

-----------------------------------------------------------------------------
\* A row lock belongs to a transaction that is still open on that row, which
\* exists: no row, no lock.
LocksOK(w) ==
  /\ \A o \in Orders : orderLock[o] = w =>
       /\ pc[w] \in Guarded \cup {"rollback"}
       /\ req[w].order = o
       /\ orders[o] # None
  /\ \A c \in Codes : couponLock[c] = w =>
       /\ pc[w] \in {"policies", "rollback"} \cup Writing
       /\ coupon[w] # None
       /\ coupon[w].code = c
       /\ coupons[c] # None

\* What a worker has read and answered at each statement.
MemoryOK(w) ==
  /\ pc[w] \notin Guarded \cup {"rollback"} => order[w] = None
  /\ pc[w] \notin {"policies", "rollback"} \cup Writing => coupon[w] = None
  /\ pc[w] \in {"commit", "rollback", "respond"} <=> resp[w] # None

\* The order row under the worker's lock, and the instance it read from it.
OrderHeld(w) ==
  /\ orderLock[req[w].order] = w
  /\ pc[w] # "commit" => order[w] = orders[req[w].order]

\* An order that can still take a coupon of the customer who asks.
OrderFree(w) ==
  LET row == orders[req[w].order]
  IN  row.status = "PLACED" /\ row.coupon = None /\ row.user = req[w].customer

\* The row of coupon c under the worker's lock, and its instance, which is
\* fresh until the counter is changed by delta and saved.
CouponHeld(w, c) ==
  /\ coupon[w] # None
  /\ coupon[w].code = c
  /\ coupons[c] # None
  /\ couponLock[c] = w

Fresh(w) == coupon[w] = coupons[coupon[w].code]

Counted(w, delta) ==
  LET row == coupons[coupon[w].code]
  IN  /\ coupon[w] = [row EXCEPT !.redeemed_count = @ + delta]
      /\ RedeemedWithinCap(coupon[w])

\* The order instance of a redemption about to commit.
OrderAttached(w) ==
  /\ saved[w] = {"redeemed_count", "coupon", "is_single_use"}
  /\ ~resp[w].replayed
  /\ order[w] = [orders[req[w].order] EXCEPT
                   !.coupon = coupon[w].code,
                   !.is_single_use = (coupon[w].type = "STANDARD")]

\* A redemption at each of its statements.
RedeemOK(w) ==
  LET row   == orders[req[w].order]
      holds == CouponHeld(w, req[w].code)
  IN  /\ pc[w] = "lockAttached" =>
           row.status = "PLACED" /\ row.user = req[w].customer
      /\ pc[w] = "lockCoupon" => OrderFree(w)
      /\ pc[w] = "policies" => OrderFree(w) /\ holds /\ Fresh(w)
      /\ pc[w] = "saveCount" =>
           OrderFree(w) /\ holds /\ Fresh(w) /\ ~Exhausted(coupon[w])
      /\ pc[w] = "attachCoupon" =>
           /\ OrderFree(w) /\ holds /\ Counted(w, 1)
           /\ saved[w] = {"redeemed_count"}
      /\ pc[w] = "commit" =>
           \/ saved[w] = {} /\ resp[w].replayed
           \/ OrderFree(w) /\ holds /\ Counted(w, 1) /\ OrderAttached(w)

\* The counter a cancellation lowers is that of the attached coupon, if any.
Lowered(w) ==
  LET row == orders[req[w].order]
  IN  IF row.coupon = None
      THEN coupon[w] = None /\ "redeemed_count" \notin saved[w]
      ELSE /\ CouponHeld(w, row.coupon)
           /\ Counted(w, -1)
           /\ "redeemed_count" \in saved[w]

\* The order instance of a cancellation about to commit.
OrderCancelled(w) ==
  /\ saved[w] \subseteq {"redeemed_count", "status"}
  /\ "status" \in saved[w]
  /\ order[w] = [orders[req[w].order] EXCEPT !.status = "CANCELLED"]

\* A cancellation at each of its statements.
CancelOK(w) ==
  LET row == orders[req[w].order]
  IN  /\ pc[w] = "saveCount" =>
           /\ row.status = "PLACED" /\ row.coupon # None
           /\ CouponHeld(w, row.coupon) /\ Fresh(w)
      /\ pc[w] = "markCancelled" =>
           /\ row.status = "PLACED" /\ Lowered(w)
           /\ saved[w] \subseteq {"redeemed_count"}
      /\ pc[w] = "commit" =>
           \/ saved[w] = {}
           \/ row.status = "PLACED" /\ Lowered(w) /\ OrderCancelled(w)

\* What a transaction relies on while it is open.
TransactionOK(w) ==
  pc[w] \in Guarded =>
    /\ OrderHeld(w)
    /\ req[w].op = "redeem" => RedeemOK(w)
    /\ req[w].op = "cancel" => CancelOK(w)

WorkerOK(w) == LocksOK(w) /\ MemoryOK(w) /\ TransactionOK(w)

\* What the row locks guarantee, and would even beside writers who know none
\* of the services' rules, as long as they wait for the locks.
HeldInv == TypeInv /\ \A w \in Workers : WorkerOK(w)

\* A redemption of a STANDARD coupon past the per-customer rule.
CustomerChecked(w) ==
  /\ \/ pc[w] = "policies" /\ rule[w] = 3
     \/ pc[w] \in {"saveCount", "attachCoupon"}
     \/ pc[w] = "commit" /\ saved[w] # {}
  /\ req[w].op = "redeem"
  /\ coupon[w].type = "STANDARD"

\* No write of a transaction that fails has reached the database.
CleanRollback(w) ==
  pc[w] = "rollback" => saved[w] = {} /\ resp[w].reason # "SERVER_ERROR"

\* What only the services' own discipline guarantees: whoever adds an order to
\* a coupon holds the coupon's lock and counts it.
ServiceOK(w) ==
  /\ CustomerChecked(w) => ~AlreadyUsed(coupon[w], req[w].customer, orders)
  /\ CleanRollback(w)

\* What every commit must restore of the committed tables.
TablesOK == SingleUseAgrees /\ CountMatchesHolders /\ RedemptionLimits

\* The inductive invariant: it holds of every reachable state, and every step
\* from any state where it holds keeps it.
IInv == HeldInv /\ (\A w \in Workers : ServiceOK(w)) /\ TablesOK

-----------------------------------------------------------------------------
(* What the workers answer.  IInv is about rows and instances; what the    *)
(* rest of the invariant says of the answers, the clock and the customers  *)
(* rests on it, and not the other way round.                               *)

\* A redemption whose coupon was not expired when the expiry rule looked.
PastExpiry(w) ==
  /\ \/ pc[w] = "policies" /\ rule[w] > 1
     \/ pc[w] \in {"saveCount", "attachCoupon"}
     \/ pc[w] = "commit" /\ saved[w] # {}
  /\ req[w].op = "redeem"

\* A request arrived no later than now; one the expiry rule let pass, no later
\* than expires_at.
InTime(w) ==
  /\ arrived[w] <= now
  /\ PastExpiry(w) => arrived[w] <= coupon[w].expires_at

PolicyReasons ==
  {"COUPON_EXPIRED", "COUPON_EXHAUSTED", "CUSTOMER_ALREADY_REDEEMED"}

\* The rows that a policy refused are still locked, and bear the refusal out.
RefusalOK(w) ==
  LET cpn  == coupon[w]
      used == cpn.type = "STANDARD"
                /\ AlreadyUsed(cpn, req[w].customer, orders)
  IN  /\ orderLock[req[w].order] = w
      /\ orders[req[w].order].coupon = None
      /\ CouponHeld(w, req[w].code)
      /\ Fresh(w)
      /\ resp[w].reason # "COUPON_EXPIRED" => arrived[w] <= cpn.expires_at
      /\ resp[w].reason = "COUPON_EXHAUSTED" => Exhausted(cpn) /\ ~used
      /\ resp[w].reason = "CUSTOMER_ALREADY_REDEEMED" => used

\* What a redemption or cancellation that answers OK has made of its order.
Done(w) ==
  LET row == orders[req[w].order]
  IN  /\ req[w].op = "redeem" => row # None /\ row.coupon = req[w].code
      /\ req[w].op = "cancel" => row # None /\ row.status = "CANCELLED"

\* An answer waiting for COMMIT is a replay if nothing was saved, and reports
\* the slots that the coupon will have left.
CommitOK(w) ==
  LET row == orders[req[w].order]
  IN  /\ resp[w].reason = "OK"
      /\ resp[w].replayed <=> saved[w] = {}
      /\ saved[w] # {} => resp[w].remaining = RemainingOf(coupon[w])
      /\ saved[w] = {} =>
           /\ Done(w)
           /\ row.coupon = None => resp[w].remaining = None
           /\ row.coupon # None =>
                /\ couponLock[row.coupon] = w
                /\ resp[w].remaining = remaining(coupons[row.coupon])

AnswerOK(w) ==
  /\ pc[w] = "insertOrder" => req[w].customer \in users
  /\ InTime(w)
  /\ pc[w] = "rollback" =>
       /\ resp[w].reason # "OK" /\ resp[w].remaining = None
       /\ req[w].op = "redeem" /\ resp[w].reason \in PolicyReasons =>
            RefusalOK(w)
  /\ pc[w] = "commit" => CommitOK(w)
  /\ pc[w] = "respond" /\ resp[w].reason = "OK" => Done(w)

\* The invariant behind the answers, inductive as a whole.
AnswerInv == IInv /\ \A w \in Workers : AnswerOK(w)
=============================================================================
