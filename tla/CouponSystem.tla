---------------------------- MODULE CouponSystem ----------------------------
(***************************************************************************)
(* The whole service: every worker runs every handler of api/views.py over *)
(* the same tables, and the properties that make the service correct.      *)
(***************************************************************************)
EXTENDS RedemptionService, CancellationService, CouponQueryService,
        SeedingServices

\* Statements that may wait for a row lock, and statements that never do.
LockStep(w) == RedeemLock(w) \/ CancelLock(w)

LocalStep(w) ==
  \/ RedeemStep(w)
  \/ CancelStep(w)
  \/ QueryReadCoupon(w)
  \/ SeedingStep(w)
  \/ Commit(w)
  \/ Rollback(w)
  \/ Respond(w)

Next ==
  \/ \E w \in Workers :
       \/ \E r \in Requests : Receive(w, r)
       \/ LockStep(w)
       \/ LocalStep(w)
       \/ Crash(w)
  \/ Tick

Spec == Init /\ [][Next]_vars

\* A worker the operating system schedules keeps running, and Postgres grants
\* a row lock to its waiters in turn, so a lock that is released again and
\* again is granted in the end.  Nothing makes requests, crashes or the clock
\* happen.
Fairness ==
  \A w \in Workers : WF_vars(LocalStep(w)) /\ SF_vars(LockStep(w))

-----------------------------------------------------------------------------
Labels == {"idle", "lockOrder", "lockAttached", "lockCoupon", "policies",
           "saveCount", "attachCoupon", "markCancelled", "commit", "rollback",
           "respond", "readCoupon", "insertUser", "insertCoupon", "checkUser",
           "insertOrder"}

Columns == {"redeemed_count", "coupon", "is_single_use", "status"}

\* Every variable holds a value of its column, instance or lock.
TypeOK ==
  /\ users \subseteq Customers
  /\ orders \in [Orders -> OrderRow \cup {None}]
  /\ coupons \in [Codes -> CouponRow \cup {None}]
  /\ \A c \in Codes : coupons[c] # None => coupons[c].code = c
  /\ orderLock \in [Orders -> Workers \cup {None}]
  /\ couponLock \in [Codes -> Workers \cup {None}]
  /\ now \in 0 .. MaxTime
  /\ pc \in [Workers -> Labels]
  /\ req \in [Workers -> Requests \cup {None}]
  /\ arrived \in [Workers -> 0 .. MaxTime]
  /\ order \in [Workers -> OrderRow \cup {None}]
  /\ coupon \in [Workers -> CouponInstance \cup {None}]
  /\ rule \in [Workers -> 1 .. 3]
  /\ saved \in [Workers -> SUBSET Columns]
  /\ resp \in [Workers -> Answer \cup {None}]

\* The live orders that carry coupon c: the redemptions in force.
Holders(c) == {o \in Orders : Active(orders[o], c)}

\* README "How the invariant is actually held": at every instant the stored
\* counter of a coupon is the number of live orders that carry it, so no
\* interleaving of redemptions, cancellations, replays and crashes loses or
\* invents a slot.
CountMatchesHolders ==
  \A c \in Codes : coupons[c] # None =>
    coupons[c].redeemed_count = Cardinality(Holders(c))

\* What a coupon promises, counted on orders and not on its own counter: at
\* most max_redemptions live orders carry it, and at most one per customer if
\* it is STANDARD.
RedemptionLimits ==
  \A c \in Codes : coupons[c] # None =>
    /\ Cardinality(Holders(c)) <= coupons[c].max_redemptions
    /\ coupons[c].type = "STANDARD" =>
         \A o, p \in Holders(c) : orders[o].user = orders[p].user => o = p

\* redemption.py calls the unique-index error "unreachable while the coupon
\* lock is held": no transaction ever fails on a CHECK constraint, nor after
\* it has written, which is where the index would refuse it.
BackstopsUnreached ==
  \A w \in Workers :
    pc[w] = "rollback" => saved[w] = {} /\ resp[w].reason # "SERVER_ERROR"

\* A worker past the policies: it will write, trusting what they checked.
Redeeming(w) ==
  /\ pc[w] \in {"saveCount", "attachCoupon", "commit"}
  /\ req[w].op = "redeem"
  /\ resp[w] # None => ~resp[w].replayed

\* customer_usage.py and capacity.py rest on the caller's coupon lock: what
\* they checked is still true of the committed tables at every later step up
\* to and including the commit (no time-of-check to time-of-use gap).
ChecksStillHold ==
  \A w \in Workers : Redeeming(w) =>
    LET row == coupons[req[w].code]
    IN  /\ ~Exhausted(row)
        /\ row.type = "STANDARD" => ~AlreadyUsed(row, req[w].customer, orders)

\* The order lock does for the order what the coupon lock does for the
\* coupon: an order about to be attached is still live, unattached and its
\* customer's.
OrderStillFree ==
  \A w \in Workers : Redeeming(w) =>
    LET row == orders[req[w].order]
    IN  /\ row.status = "PLACED"
        /\ row.coupon = None
        /\ row.user = req[w].customer

\* The row a worker's next statement waits for, if another worker has it.
Blocker(w) ==
  IF pc[w] = "lockOrder" THEN orderLock[req[w].order]
  ELSE IF pc[w] = "lockCoupon" THEN couponLock[req[w].code]
  ELSE IF pc[w] = "lockAttached" THEN couponLock[order[w].coupon]
  ELSE None

\* README "a deadlock cycle is impossible": in no group of workers does every
\* one wait for a lock that another of the group holds.
NoDeadlock ==
  \A W \in SUBSET Workers : W # {} => \E w \in W : Blocker(w) \notin W

\* is_single_use is a copy of the coupon's type taken at redemption; the
\* unique index means what it should only while the two agree.
SingleUseAgrees ==
  \A o \in Orders : orders[o] # None /\ orders[o].coupon # None =>
    /\ coupons[orders[o].coupon] # None
    /\ orders[o].is_single_use = (coupons[orders[o].coupon].type = "STANDARD")

\* The retry of a redemption that took effect (its answer may have been lost)
\* is never refused by a policy: the customer is not told that the coupon is
\* expired, exhausted or used when it is on that very order.
RetryNotRefused ==
  \A w \in Workers :
    /\ pc[w] = "rollback"
    /\ req[w].op = "redeem"
    /\ resp[w].reason \in {"COUPON_EXPIRED", "COUPON_EXHAUSTED",
                           "CUSTOMER_ALREADY_REDEEMED"}
    => orders[req[w].order].coupon = None

\* registry.py "Rule order is deliberate and reported to the caller as the
\* first failure": a request is told the coupon is used up only if it came in
\* time, and that no slots are left only if its customer could have had one.
\* The committed rows bear the refusal out while the locks are held.
RefusalIsMostSpecific ==
  \A w \in Workers :
    pc[w] = "rollback" /\ req[w].op = "redeem" =>
      LET row  == coupons[req[w].code]
          used == row.type = "STANDARD"
                    /\ AlreadyUsed(row, req[w].customer, orders)
      IN  /\ resp[w].reason = "COUPON_EXHAUSTED" =>
               /\ Cardinality(Holders(row.code)) = row.max_redemptions
               /\ ~used
               /\ arrived[w] <= row.expires_at
          /\ resp[w].reason = "CUSTOMER_ALREADY_REDEEMED" =>
               /\ used
               /\ arrived[w] <= row.expires_at

\* expiry.py: a redemption that takes effect was asked for no later than
\* expires_at, however long it then waited for locks.
NoLateRedemption ==
  \A w \in Workers : Redeeming(w) =>
    arrived[w] <= coupons[req[w].code].expires_at

\* expiry.py:12 "A request arriving exactly at expires_at is allowed; only now
\* strictly after expires_at is expired.", and test_expiry.py:42 "... allowed,
\* not rejected.": such a request is not answered COUPON_EXPIRED.  The two
\* halves of the first sentence agree only while the clock stands still.
AllowedAtExpiry ==
  \A w \in Workers :
    resp[w] # None /\ resp[w].reason = "COUPON_EXPIRED" =>
      arrived[w] # coupons[req[w].code].expires_at

-----------------------------------------------------------------------------
\* An order's history: it never disappears or changes hands, a cancelled
\* order stays cancelled, and a coupon is attached once, to an order that is
\* live and stays so in that step (cancellation keeps the coupon on record).
OrdersGrow ==
  \A o \in Orders : orders[o] # None =>
    /\ orders'[o] # None
    /\ orders'[o].user = orders[o].user
    /\ orders[o].status = "CANCELLED" => orders'[o] = orders[o]
    /\ orders[o].coupon # None => orders'[o].coupon = orders[o].coupon
    /\ orders'[o].coupon # orders[o].coupon => orders'[o].status = "PLACED"

OrderHistory == [][OrdersGrow]_vars

\* The COMMIT of a redemption or cancellation that then answers OK, and not as
\* a replay.
Succeeds(w) ==
  /\ pc[w] = "commit" /\ pc'[w] = "respond"
  /\ req[w].op \in {"redeem", "cancel"}
  /\ resp'[w].reason = "OK" /\ ~resp'[w].replayed

\* An order changes only when a redemption or cancellation of it succeeds, and
\* a coupon row only in the same step as an order that carries it: rejections,
\* replays, rollbacks and crashes leave no trace in the orders or the
\* counters, and a counter is never committed without its order.
SuccessWrites ==
  /\ \A o \in Orders : orders[o] # None /\ orders'[o] # orders[o] =>
       \E w \in Workers : Succeeds(w) /\ req[w].order = o
  /\ \A c \in Codes : coupons[c] # None /\ coupons'[c] # coupons[c] =>
       \E o \in Orders :
         orders[o] # None /\ orders'[o] # orders[o] /\ orders'[o].coupon = c

OnlySuccessWrites == [][SuccessWrites]_vars

\* The remaining slots an OK answer reports are those of the committed row
\* at the very step that ends its transaction (or its read).
ExactAnswer(w) ==
  /\ pc[w] # "respond" /\ pc'[w] = "respond"
  /\ resp'[w].remaining # None
  => \E c \in Codes :
       /\ coupons'[c] # None
       /\ IF req[w].op \in {"redeem", "cancel"}
          THEN orders'[req[w].order].coupon = c
          ELSE req[w].code = c
       /\ resp'[w].remaining = remaining(coupons'[c])

AnswerExact == [][\A w \in Workers : ExactAnswer(w)]_vars

\* A request that a worker takes up is answered, or its worker crashes.
RequestsEnd ==
  \A w \in Workers : pc[w] # "idle" ~> pc[w] = "idle"
=============================================================================
