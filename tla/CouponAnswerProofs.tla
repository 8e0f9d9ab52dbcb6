------------------------- MODULE CouponAnswerProofs -------------------------
(***************************************************************************)
(* What the answers of the service are worth.  The first part says what a  *)
(* step of one worker can do to the tables and to the others; the second   *)
(* that AnswerInv is inductive; the third derives the action properties    *)
(* and the properties of refusals and deadlines; the last that the service *)
(* implements the ledger.                                                  *)
(***************************************************************************)
EXTENDS LedgerRefinement, CouponSafetyProofs

\* No row goes away, no order changes hands, comes back from cancellation or
\* loses its coupon, and no customer is forgotten.
LEMMA TablesGrow ==
  ASSUME TypeInv, NEW w \in Workers, Writes(w)
  PROVE  OrdersGrow /\ users \subseteq users'
<1>1. CASE UNCHANGED tables \/ UserAdded(w) \/ CouponAdded(w)
  BY <1>1 DEF tables, UserAdded, CouponAdded, OrdersGrow
<1>2. CASE OrderAdded(w)
  BY <1>2 DEF OrderAdded, OrdersGrow, TypeInv, TypeOK
<1>3. CASE Written(w)
  <2>1. CASE Redeems(w)
    BY <1>3, <2>1 DEF Redeems, Written, OrdersGrow
  <2>2. CASE Cancels(w)
    BY <1>3, <2>2 DEF Cancels, Written, OrdersGrow
  <2> QED
    BY <1>3, <2>1, <2>2 DEF Written
<1> QED
  BY <1>1, <1>2, <1>3 DEF Writes

-----------------------------------------------------------------------------
(* What a step of one worker is to the others.                             *)

\* It moves none of them, takes none of their locks, and changes neither the
\* rows under these locks nor the orders that count for a coupon under one.
Apart(w) ==
  /\ Others(w) /\ Kept(w)
  /\ now' = now
  /\ \A v \in Workers \ {w} :
       /\ arrived'[v] = arrived[v]
       /\ \A c \in Codes, o \in Orders :
            couponLock[c] = v /\ Active(orders[o], c) => Active(orders'[o], c)

\* A locked coupon loses no holder to a step of another worker.
LEMMA HoldersStay ==
  ASSUME TypeInv, NEW w \in Workers, Writes(w), NEW v \in Workers \ {w},
         NEW c \in Codes, couponLock[c] = v,
         NEW o \in Orders, Active(orders[o], c)
  PROVE  Active(orders'[o], c)
<1>1. CASE UNCHANGED tables \/ UserAdded(w) \/ CouponAdded(w)
  BY <1>1 DEF tables, UserAdded, CouponAdded
<1>2. CASE OrderAdded(w)
  BY <1>2 DEF OrderAdded, Active, TypeInv, TypeOK
<1>3. CASE Written(w) /\ Redeems(w)
  BY <1>3, NoneAssumption DEF Redeems, Active
<1>4. CASE Written(w) /\ Cancels(w)
  BY <1>4, NoneAssumption DEF Cancels, Active
<1> QED
  BY <1>1, <1>2, <1>3, <1>4 DEF Writes, Written

\* A worker's steps do not move the clock, nor any other request's arrival.
LEMMA ClockStays ==
  ASSUME TypeInv, NEW w \in Workers, WorkerStep(w)
  PROVE  /\ now' = now
         /\ \A v \in Workers \ {w} : arrived'[v] = arrived[v]
<1>1. CASE LockStep(w)
  BY <1>1 DEF LockStep, RedeemLock, CancelLock, RedeemLockOrder, RedeemReplay,
       RedeemLockCoupon, CancelLockOrder, CancelLockCoupon, client
<1>2. CASE RedeemStep(w) \/ CancelStep(w)
  BY <1>2 DEF RedeemStep, CancelStep, RedeemEnforcePolicy, RedeemSaveCount,
       RedeemAttachCoupon, CancelSaveCount, CancelMarkCancelled, client
<1>3. CASE SeedingStep(w) \/ QueryReadCoupon(w)
  BY <1>3 DEF SeedingStep, InsertUser, InsertCoupon, CheckUser, InsertOrder,
       QueryReadCoupon, client
<1>4. CASE (\E r \in Requests : Receive(w, r)) \/ Respond(w) \/ Crash(w)
  BY <1>4 DEF Receive, Respond, Crash, Clear, TypeInv, TypeOK
<1>5. CASE Rollback(w) \/ Commit(w)
  BY <1>5 DEF Rollback, Commit, client
<1> QED
  BY <1>1, <1>2, <1>3, <1>4, <1>5 DEF WorkerStep, LocalStep

\* The others do not notice a worker's step.
LEMMA StepApart ==
  ASSUME HeldInv, NEW w \in Workers, WorkerStep(w)
  PROVE  Apart(w)
<1>1. TypeInv /\ Sound(w) /\ Writes(w)
  BY HeldStep, StepWrites DEF HeldInv
<1>2. \A v \in Workers \ {w}, c \in Codes, o \in Orders :
        couponLock[c] = v /\ Active(orders[o], c) => Active(orders'[o], c)
  BY <1>1, HoldersStay
<1> QED
  BY <1>1, <1>2, ClockStays DEF Apart, Sound

-----------------------------------------------------------------------------
(* What a worker knows of its answer survives a step of another.           *)

\* A refusal stays borne out while its locks are held.
LEMMA RefusalStays ==
  ASSUME TypeInv, NEW w \in Workers, NEW v \in Workers \ {w}, Apart(w),
         OrdersGrow, req[v].order \in Orders, req[v].code \in Codes,
         orders[req[v].order] # None, RefusalOK(v)
  PROVE  RefusalOK(v)'
<1> DEFINE o        == req[v].order
           cpn      == coupon[v]
           customer == req[v].customer
<1>1. /\ req'[v] = req[v] /\ coupon'[v] = cpn /\ resp'[v] = resp[v]
      /\ arrived'[v] = arrived[v]
  BY DEF Apart, Others
<1>2. orderLock'[o] = v /\ orders'[o] = orders[o]
  BY DEF RefusalOK, Apart, Kept
<1>3. /\ CouponHeld(v, req[v].code) /\ cpn.code = req[v].code
      /\ couponLock[cpn.code] = v /\ cpn.code \in Codes
  BY DEF RefusalOK, CouponHeld
<1>4. CouponHeld(v, req[v].code)' /\ Fresh(v)'
  BY <1>1, <1>3, OthersUntouched, CouponStays DEF RefusalOK, Apart
<1>5. \A p \in Orders : Active(orders'[p], cpn.code) <=>
                        Active(orders[p], cpn.code)
  BY <1>3 DEF Apart, Kept
<1>6. \A p \in Orders : Active(orders[p], cpn.code) =>
                        orders'[p].user = orders[p].user
  BY DEF OrdersGrow, Active
<1>7. AlreadyUsed(cpn, customer, orders') <=> AlreadyUsed(cpn, customer, orders)
  BY <1>5, <1>6 DEF AlreadyUsed
<1> QED
  BY <1>1, <1>2, <1>4, <1>7 DEF RefusalOK

\* What a request has done stays done, whoever steps.
LEMMA DoneStays ==
  ASSUME TypeInv, NEW w \in Workers, pc[w] \notin {"idle"}, req'[w] = req[w],
         OrdersGrow, Done(w)
  PROVE  Done(w)'
<1>1. req[w] \in Requests
  BY DEF TypeInv, TypeOK, ControlOK
<1>2. req[w].op = "redeem" => req[w].order \in Orders /\ req[w].code # None
  BY <1>1, RequestFields, NoneAssumption
<1>3. req[w].op = "cancel" => req[w].order \in Orders
  BY <1>1, RequestFields
<1> QED
  BY <1>2, <1>3 DEF Done, OrdersGrow

\* So does the answer of a transaction about to commit.
LEMMA CommitStays ==
  ASSUME HeldInv, NEW w \in Workers, NEW v \in Workers \ {w}, Apart(w),
         OrdersGrow, pc[v] = "commit", CommitOK(v)
  PROVE  CommitOK(v)'
<1> DEFINE row == orders[req[v].order]
<1>1. /\ req'[v] = req[v] /\ coupon'[v] = coupon[v] /\ resp'[v] = resp[v]
      /\ saved'[v] = saved[v]
  BY DEF Apart, Others
<1>2. TypeInv /\ TransactionOK(v)
  BY DEF HeldInv, WorkerOK
<1>3. req[v] \in Requests /\ req[v].op \in {"redeem", "cancel"}
  BY <1>2 DEF TypeInv, TypeOK, ControlOK, Serves
<1>4. req[v].order \in Orders /\ orderLock[req[v].order] = v
  BY <1>2, <1>3, RequestFields DEF TransactionOK, OrderHeld, Guarded, Writing
<1>5. row' = row
  BY <1>1, <1>4 DEF Apart, Kept
<1>6. row # None /\ row.coupon # None => row.coupon \in Codes
  BY <1>2, <1>4 DEF TypeInv, TypeOK, OrderRow
<1>7. row # None
  BY <1>2 DEF TypeInv, InstancesOK, Guarded, Writing
<1>8. row.coupon # None /\ couponLock[row.coupon] = v =>
        /\ couponLock'[row.coupon] = v
        /\ coupons'[row.coupon] = coupons[row.coupon]
  BY <1>6, <1>7 DEF Apart, Kept
<1>9. Done(v) => Done(v)'
  BY <1>1, <1>2, DoneStays
<1> QED
  BY <1>1, <1>5, <1>8, <1>9 DEF CommitOK

\* A worker's answer is as good after a step of another.
LEMMA OthersAnswer ==
  ASSUME HeldInv, NEW w \in Workers, NEW v \in Workers \ {w}, Apart(w),
         OrdersGrow, users \subseteq users', AnswerOK(v)
  PROVE  AnswerOK(v)'
<1>1. /\ pc'[v] = pc[v] /\ req'[v] = req[v] /\ coupon'[v] = coupon[v]
      /\ rule'[v] = rule[v] /\ saved'[v] = saved[v] /\ resp'[v] = resp[v]
      /\ arrived'[v] = arrived[v] /\ now' = now
  BY DEF Apart, Others
<1>2. TypeInv
  BY DEF HeldInv
<1>3. pc'[v] = "insertOrder" => req'[v].customer \in users'
  BY <1>1 DEF AnswerOK
<1>4. InTime(v)'
  BY <1>1 DEF AnswerOK, InTime, PastExpiry
<1>5. ASSUME pc[v] = "rollback", req[v].op = "redeem",
             resp[v].reason \in PolicyReasons
      PROVE  RefusalOK(v)'
  <2>1. RefusalOK(v)
    BY <1>5 DEF AnswerOK
  <2>2. req[v].order \in Orders /\ req[v].code \in Codes
    BY <1>2, <1>5, RequestFields DEF TypeInv, TypeOK, ControlOK
  <2>3. orders[req[v].order] # None
    BY <2>1, <2>2 DEF HeldInv, WorkerOK, LocksOK, RefusalOK
  <2> QED
    BY <1>2, <2>1, <2>2, <2>3, RefusalStays
<1>6. pc[v] = "commit" => CommitOK(v)'
  BY CommitStays DEF AnswerOK
<1>7. pc[v] = "respond" /\ resp[v].reason = "OK" => Done(v)'
  BY <1>1, <1>2, DoneStays DEF AnswerOK
<1> QED
  BY <1>1, <1>3, <1>4, <1>5, <1>6, <1>7 DEF AnswerOK

-----------------------------------------------------------------------------
(* What the worker that steps makes of its own answer.                     *)

\* A worker at none of the statements that AnswerOK speaks of.
LEMMA PlainAnswer ==
  ASSUME NEW w \in Workers, arrived'[w] <= now', ~PastExpiry(w)',
         pc'[w] \notin {"insertOrder", "rollback", "commit", "respond"}
  PROVE  AnswerOK(w)'
BY DEF AnswerOK, InTime

\* An error that no policy raises.
LEMMA ErrorAnswer ==
  ASSUME NEW w \in Workers, arrived'[w] <= now', pc'[w] = "rollback",
         NEW reason \in Reason \ (PolicyReasons \cup {"OK"}),
         resp'[w] = Error(reason)
  PROVE  AnswerOK(w)'
BY DEF AnswerOK, InTime, PastExpiry, Error

\* An answer to a request that is neither a redemption nor a cancellation.
LEMMA OtherAnswer ==
  ASSUME NEW w \in Workers, arrived'[w] <= now', pc'[w] = "respond",
         req'[w].op \notin {"redeem", "cancel"}
  PROVE  AnswerOK(w)'
BY DEF AnswerOK, InTime, PastExpiry, Done

\* Requests taken up, answered or cut off.
LEMMA AnswerEnds ==
  ASSUME AnswerInv, NEW w \in Workers,
         (\E r \in Requests : Receive(w, r)) \/ Respond(w) \/ Crash(w)
           \/ Rollback(w)
  PROVE  AnswerOK(w)'
<1>1. TypeInv /\ AnswerOK(w) /\ now \in Nat
  BY TimeAssumption DEF AnswerInv, IInv, HeldInv, TypeInv, TypeOK
<1>2. ASSUME NEW r \in Requests, Receive(w, r)
      PROVE  AnswerOK(w)'
  <2>1. arrived'[w] = now /\ now' = now /\ pc'[w] = FirstStatement[r.op]
    BY <1>1, <1>2 DEF Receive, Goto, TypeInv, TypeOK
  <2>2. FirstStatement[r.op] \in {"lockOrder", "readCoupon", "insertUser",
                                  "insertCoupon", "checkUser"}
    BY RequestFields DEF FirstStatement
  <2>3. ~PastExpiry(w)'
    BY <2>1, <2>2 DEF PastExpiry
  <2> QED
    BY <1>1, <2>1, <2>2, <2>3, PlainAnswer
<1>3. CASE Respond(w) \/ Crash(w)
  <2>1. arrived'[w] = 0 /\ now' = now /\ pc'[w] = "idle"
    BY <1>1, <1>3 DEF Respond, Crash, Clear, Goto, TypeInv, TypeOK
  <2>2. ~PastExpiry(w)'
    BY <2>1 DEF PastExpiry
  <2> QED
    BY <1>1, <2>1, <2>2, PlainAnswer
<1>4. CASE Rollback(w)
  <2>1. /\ pc[w] = "rollback" /\ pc'[w] = "respond"
        /\ UNCHANGED <<arrived, now, resp>>
    BY <1>1, <1>4 DEF Rollback, Goto, client, TypeInv, TypeOK
  <2>2. ~PastExpiry(w)'
    BY <2>1 DEF PastExpiry
  <2> QED
    BY <1>1, <2>1, <2>2 DEF AnswerOK, InTime
<1> QED
  BY <1>2, <1>3, <1>4

\* Steps outside any transaction.
LEMMA AnswerOutside ==
  ASSUME AnswerInv, NEW w \in Workers, SeedingStep(w) \/ QueryReadCoupon(w)
  PROVE  AnswerOK(w)'
<1>1. TypeInv /\ AnswerOK(w)
  BY DEF AnswerInv, IInv, HeldInv
<1>2. UNCHANGED <<now, req, arrived>>
  BY DEF SeedingStep, InsertUser, InsertCoupon, CheckUser, InsertOrder,
         QueryReadCoupon, client
<1>3. arrived'[w] <= now'
  BY <1>1, <1>2 DEF AnswerOK, InTime
<1>4. CASE \E payload : Reply(w, payload)
  <2>1. pc'[w] = "respond"
    BY <1>1, <1>4 DEF Reply, Goto, TypeInv, TypeOK
  <2>2. req[w].op \notin {"redeem", "cancel"}
    BY DEF SeedingStep, InsertUser, InsertCoupon, CheckUser, InsertOrder,
           QueryReadCoupon, At
  <2> QED
    BY <1>2, <1>3, <2>1, <2>2, OtherAnswer
<1>5. CASE CheckUser(w) /\ req[w].customer \in users /\ Goto(w, "insertOrder")
  <2>1. pc'[w] = "insertOrder" /\ users' = users
    BY <1>1, <1>5 DEF CheckUser, Goto, tables, TypeInv, TypeOK
  <2> QED
    BY <1>2, <1>3, <1>5, <2>1 DEF AnswerOK, InTime, PastExpiry
<1> QED
  BY <1>4, <1>5 DEF SeedingStep, InsertUser, InsertCoupon, CheckUser,
                    InsertOrder, QueryReadCoupon

\* The order lock of a redemption.
LEMMA AnswerRedeemLockOrder ==
  ASSUME AnswerInv, NEW w \in Workers, RedeemLockOrder(w)
  PROVE  AnswerOK(w)'
<1>1. TypeInv /\ AnswerOK(w)
  BY DEF AnswerInv, IInv, HeldInv
<1>2. UNCHANGED <<now, arrived>>
  BY DEF RedeemLockOrder, client
<1>3. arrived'[w] <= now'
  BY <1>1, <1>2 DEF AnswerOK, InTime
<1>4. CASE \E reason \in {"ORDER_NOT_FOUND", "ORDER_OWNERSHIP_MISMATCH",
                          "ORDER_NOT_PLACED"} : Raise(w, reason)
  <2>1. PICK reason \in Reason \ (PolicyReasons \cup {"OK"}) : Raise(w, reason)
    BY <1>4 DEF Reason, PolicyReasons
  <2>2. pc'[w] = "rollback" /\ resp'[w] = Error(reason)
    BY <1>1, <2>1 DEF Raise, Goto, TypeInv, TypeOK
  <2> QED
    BY <1>3, <2>2, ErrorAnswer
<1>5. CASE \E label \in {"lockAttached", "lockCoupon"} : Goto(w, label)
  <2>1. pc'[w] \in {"lockAttached", "lockCoupon"}
    BY <1>1, <1>5 DEF Goto, TypeInv, TypeOK
  <2> QED
    BY <1>3, <2>1, PlainAnswer DEF PastExpiry
<1> QED
  BY <1>4, <1>5 DEF RedeemLockOrder

\* A replay reports the counter of the coupon it has just locked.
LEMMA AnswerRedeemReplay ==
  ASSUME AnswerInv, NEW w \in Workers, RedeemReplay(w)
  PROVE  AnswerOK(w)'
<1> DEFINE c   == order[w].coupon
           row == coupons[c]
           o   == req[w].order
<1>1. TypeInv /\ AnswerOK(w) /\ TransactionOK(w)
  BY DEF AnswerInv, IInv, HeldInv, WorkerOK
<1>2. UNCHANGED <<orders, coupons, now, req, arrived, saved>>
  BY DEF RedeemReplay, client, tables
<1>3. arrived'[w] <= now'
  BY <1>1, <1>2 DEF AnswerOK, InTime
<1>4. /\ pc[w] = "lockAttached" /\ req[w].op = "redeem"
      /\ order[w] = orders[o] /\ orders[o] # None /\ c \in Codes
      /\ saved[w] = {}
  BY <1>1 DEF RedeemReplay, At, TransactionOK, OrderHeld, Guarded, InstancesOK,
              TypeInv, TypeOK, OrderRow
<1>5. CASE Raise(w, "ORDER_ALREADY_HAS_COUPON")
  <2>1. pc'[w] = "rollback" /\ resp'[w] = Error("ORDER_ALREADY_HAS_COUPON")
    BY <1>1, <1>5 DEF Raise, Goto, TypeInv, TypeOK
  <2>2. "ORDER_ALREADY_HAS_COUPON" \in Reason \ (PolicyReasons \cup {"OK"})
    BY DEF Reason, PolicyReasons
  <2> QED
    BY <1>3, <2>1, <2>2, ErrorAnswer
<1>6. CASE row # None /\ row.code = req[w].code
           /\ Return(w, Success(remaining(row), TRUE))
  <2>1. pc'[w] = "commit" /\ resp'[w] = Success(remaining(row), TRUE)
    BY <1>1, <1>6 DEF Return, Goto, TypeInv, TypeOK
  <2>2. /\ resp'[w].reason = "OK" /\ resp'[w].replayed = TRUE
        /\ resp'[w].remaining = remaining(row)
    BY <2>1 DEF Success
  <2>3. couponLock'[c] = w
    BY <1>1, <1>4, <1>6 DEF RedeemReplay, LockCoupon, TypeInv, TypeOK
  <2>4. c = req[w].code /\ orders[o].coupon = c /\ c # None
    BY <1>1, <1>4, <1>6, NoneAssumption DEF TypeInv, TypeOK
  <2>5. Done(w)'
    BY <1>2, <1>4, <2>4 DEF Done
  <2>6. CommitOK(w)'
    BY <1>2, <1>4, <2>2, <2>3, <2>4, <2>5 DEF CommitOK
  <2> QED
    BY <1>2, <1>3, <1>4, <2>1, <2>6 DEF AnswerOK, InTime, PastExpiry
<1> QED
  BY <1>5, <1>6 DEF RedeemReplay

\* The coupon lock of a redemption: no rule has been asked yet.
LEMMA AnswerRedeemLockCoupon ==
  ASSUME AnswerInv, NEW w \in Workers, RedeemLockCoupon(w)
  PROVE  AnswerOK(w)'
<1>1. TypeInv /\ AnswerOK(w)
  BY DEF AnswerInv, IInv, HeldInv
<1>2. UNCHANGED <<now, arrived, rule>>
  BY DEF RedeemLockCoupon, client
<1>3. arrived'[w] <= now'
  BY <1>1, <1>2 DEF AnswerOK, InTime
<1>4. CASE Raise(w, "COUPON_NOT_FOUND")
  <2>1. pc'[w] = "rollback" /\ resp'[w] = Error("COUPON_NOT_FOUND")
    BY <1>1, <1>4 DEF Raise, Goto, TypeInv, TypeOK
  <2>2. "COUPON_NOT_FOUND" \in Reason \ (PolicyReasons \cup {"OK"})
    BY DEF Reason, PolicyReasons
  <2> QED
    BY <1>3, <2>1, <2>2, ErrorAnswer
<1>5. CASE Goto(w, "policies")
  <2>1. pc'[w] = "policies"
    BY <1>1, <1>5 DEF Goto, TypeInv, TypeOK
  <2>2. rule'[w] = 1
    BY <1>1, <1>2 DEF RedeemLockCoupon, At, InstancesOK, TypeInv
  <2> QED
    BY <1>3, <2>1, <2>2, PlainAnswer DEF PastExpiry
<1> QED
  BY <1>4, <1>5 DEF RedeemLockCoupon

\* Which rule is which in the rule set of a type.
LEMMA WhichRule ==
  ASSUME NEW type \in CouponType, NEW i \in 1 .. Len(for_type(type))
  PROVE  LET policy == for_type(type)[i]
         IN  /\ policy \in Rules
             /\ policy = "expiry" <=> i = 1
             /\ policy = "single_use" => type = "STANDARD"
             /\ policy = "capacity" /\ type = "STANDARD" => i = 3
BY DEF for_type, CouponType, Rules

\* The refusal of a policy is borne out by the locked rows; a coupon that the
\* expiry rule lets pass now was not expired when the request arrived.
LEMMA AnswerRedeemEnforcePolicy ==
  ASSUME AnswerInv, NEW w \in Workers, RedeemEnforcePolicy(w)
  PROVE  AnswerOK(w)'
<1> DEFINE cpn      == coupon[w]
           policies == for_type(cpn.type)
           policy   == policies[rule[w]]
           refused  == Refuses(policy, cpn, req[w].customer, orders, now)
<1>1. TypeInv /\ TransactionOK(w) /\ AnswerOK(w)
  BY DEF AnswerInv, IInv, HeldInv, WorkerOK
<1>2. UNCHANGED <<orders, coupons, orderLock, couponLock, now, req, arrived,
                  coupon, saved>>
  BY DEF RedeemEnforcePolicy, tables, locks, client
<1>3. /\ pc[w] = "policies" /\ req[w].op = "redeem"
      /\ cpn \in CouponInstance
      /\ rule[w] \in 1 .. Len(policies)
      /\ arrived[w] \in Nat /\ now \in Nat /\ arrived[w] <= now
  BY <1>1, RuleCount, TimeAssumption
     DEF RedeemEnforcePolicy, At, InstancesOK, TypeInv, TypeOK, AnswerOK, InTime
<1>4. cpn.type \in CouponType /\ cpn.expires_at \in Nat
  BY <1>3 DEF CouponInstance
<1>5. /\ OrderHeld(w) /\ OrderFree(w) /\ CouponHeld(w, req[w].code)
      /\ Fresh(w) /\ cpn = coupons[req[w].code]
  BY <1>1, <1>3 DEF TransactionOK, RedeemOK, Guarded, Fresh, CouponHeld
<1>6. /\ policy \in Rules
      /\ policy = "expiry" <=> rule[w] = 1
      /\ policy = "single_use" => cpn.type = "STANDARD"
      /\ policy = "capacity" /\ cpn.type = "STANDARD" => rule[w] = 3
  BY <1>3, <1>4, WhichRule
<1>7. rule[w] > 1 => arrived[w] <= cpn.expires_at
  BY <1>1, <1>3 DEF AnswerOK, InTime, PastExpiry
<1>8. CASE refused /\ Raise(w, PolicyError[policy])
  <2>1. /\ pc'[w] = "rollback" /\ resp'[w] = Error(PolicyError[policy])
    BY <1>1, <1>8 DEF Raise, Goto, TypeInv, TypeOK
  <2>2. resp'[w].reason = PolicyError[policy] /\ resp'[w].remaining = None
    BY <2>1 DEF Error
  <2>3. /\ resp'[w].reason \in PolicyReasons
        /\ resp'[w].reason = "COUPON_EXPIRED" <=> policy = "expiry"
        /\ resp'[w].reason = "COUPON_EXHAUSTED" <=> policy = "capacity"
        /\ resp'[w].reason = "CUSTOMER_ALREADY_REDEEMED"
             <=> policy = "single_use"
    BY <1>6, <2>2 DEF PolicyError, PolicyReasons, Rules
  <2>4. policy = "capacity" =>
          /\ Exhausted(cpn)
          /\ cpn.type = "STANDARD" =>
               ~AlreadyUsed(cpn, req[w].customer, orders)
    <3>1. policy = "capacity" => Exhausted(cpn)
      BY <1>8 DEF Refuses
    <3>2. ASSUME policy = "capacity", cpn.type = "STANDARD"
          PROVE  ~AlreadyUsed(cpn, req[w].customer, orders)
      <4>1. CustomerChecked(w)
        BY <1>3, <1>6, <3>2 DEF CustomerChecked
      <4> QED
        BY <4>1 DEF AnswerInv, IInv, ServiceOK
    <3> QED
      BY <3>1, <3>2
  <2>5. policy = "single_use" =>
          cpn.type = "STANDARD" /\ AlreadyUsed(cpn, req[w].customer, orders)
    BY <1>6, <1>8 DEF Refuses
  <2>6. policy # "expiry" => arrived[w] <= cpn.expires_at
    BY <1>3, <1>6, <1>7
  <2>7. /\ orderLock[req[w].order] = w /\ orders[req[w].order].coupon = None
        /\ CouponHeld(w, req[w].code)' /\ Fresh(w)'
    BY <1>2, <1>5 DEF OrderHeld, OrderFree, CouponHeld, Fresh
  <2> HIDE DEF cpn, policy, policies, refused
  <2>8. RefusalOK(w)'
    BY <1>2, <2>3, <2>4, <2>5, <2>6, <2>7 DEF RefusalOK, cpn
  <2>9. resp'[w].reason # "OK"
    BY <2>3 DEF PolicyReasons
  <2> QED
    BY <1>2, <1>3, <2>1, <2>2, <2>8, <2>9 DEF AnswerOK, InTime, PastExpiry
<1>9. CASE ~refused
  <2>1. arrived[w] <= cpn.expires_at
    <3>1. policy = "expiry" => now <= cpn.expires_at
      BY <1>3, <1>4, <1>9 DEF Refuses, Expired
    <3> QED
      BY <1>3, <1>4, <1>6, <1>7, <3>1
  <2>2. pc'[w] \in {"policies", "saveCount"}
    BY <1>1, <1>3, <1>9 DEF RedeemEnforcePolicy, Goto, TypeInv, TypeOK
  <2> QED
    BY <1>2, <1>3, <2>1, <2>2 DEF AnswerOK, InTime
<1> QED
  BY <1>8, <1>9 DEF RedeemEnforcePolicy

\* The counter saved: the coupon's expiry is untouched.
LEMMA AnswerSaveCount ==
  ASSUME AnswerInv, NEW w \in Workers, pc[w] = "saveCount",
         UNCHANGED <<now, req, arrived>>,
         NEW count, NEW next \in {"attachCoupon", "markCancelled"},
         SaveRedeemedCount(w, count, next),
         next = "attachCoupon" => req[w].op = "redeem",
         coupon[w] \in CouponInstance
  PROVE  AnswerOK(w)'
<1>1. TypeInv /\ AnswerOK(w) /\ TransactionOK(w)
  BY DEF AnswerInv, IInv, HeldInv, WorkerOK
<1>2. arrived'[w] <= now'
  BY <1>1 DEF AnswerOK, InTime
<1>3. coupon'[w].expires_at = coupon[w].expires_at
  BY <1>1 DEF SaveRedeemedCount, TypeInv, TypeOK, CouponInstance
<1>4. CASE Raise(w, "SERVER_ERROR")
  <2>1. pc'[w] = "rollback" /\ resp'[w] = Error("SERVER_ERROR")
    BY <1>1, <1>4 DEF Raise, Goto, TypeInv, TypeOK
  <2>2. "SERVER_ERROR" \in Reason \ (PolicyReasons \cup {"OK"})
    BY DEF Reason, PolicyReasons
  <2> QED
    BY <1>2, <2>1, <2>2, ErrorAnswer
<1>5. CASE Goto(w, next)
  <2>1. pc'[w] = next
    BY <1>1, <1>5 DEF Goto, TypeInv, TypeOK
  <2>2. next = "attachCoupon" => arrived[w] <= coupon[w].expires_at
    BY <1>1 DEF AnswerOK, InTime, PastExpiry
  <2> QED
    BY <1>2, <1>3, <2>1, <2>2 DEF AnswerOK, InTime, PastExpiry
<1> QED
  BY <1>4, <1>5 DEF SaveRedeemedCount

\* The row attached: the unique index refuses nothing, since the per-customer
\* rule has passed, and the payload reports the counter just saved.
LEMMA AnswerRedeemAttachCoupon ==
  ASSUME AnswerInv, NEW w \in Workers, RedeemAttachCoupon(w)
  PROVE  AnswerOK(w)'
<1>1. TypeInv /\ AnswerOK(w) /\ TransactionOK(w) /\ ServiceOK(w) /\ HeldInv
  BY DEF AnswerInv, IInv, HeldInv, WorkerOK
<1>2. /\ UNCHANGED <<now, req, arrived, coupon>>
      /\ pc[w] = "attachCoupon" /\ req[w].op = "redeem"
  BY DEF RedeemAttachCoupon, client, At
<1>3. /\ arrived'[w] <= now' /\ arrived[w] <= coupon[w].expires_at
      /\ coupon[w] # None /\ saved[w] = {"redeemed_count"}
  BY <1>1, <1>2 DEF AnswerOK, InTime, PastExpiry, TransactionOK, RedeemOK,
                    CouponHeld, Guarded, Writing
<1>4. ~Raise(w, "CUSTOMER_ALREADY_REDEEMED") \/ saved' # saved
  <2> SUFFICES ASSUME Raise(w, "CUSTOMER_ALREADY_REDEEMED") PROVE FALSE
    OBVIOUS
  <2>1. pc'[w] = "rollback"
    BY <1>1 DEF Raise, Goto, TypeInv, TypeOK
  <2>2. coupon[w].type = "STANDARD"
          /\ AlreadyUsed(coupon[w], req[w].customer, orders)
    BY <1>1, <2>1, HeldRedeemAttachCoupon
  <2> QED
    BY <1>1, <1>2, <2>2 DEF ServiceOK, CustomerChecked
<1>5. /\ saved' = [saved EXCEPT ![w] = @ \cup {"coupon", "is_single_use"}]
      /\ Return(w, Success(remaining(coupon[w]), FALSE))
  BY <1>4 DEF RedeemAttachCoupon
<1>6. /\ pc'[w] = "commit" /\ saved'[w] # {}
      /\ resp'[w] = Success(remaining(coupon[w]), FALSE)
  BY <1>1, <1>5 DEF Return, Goto, TypeInv, TypeOK
<1>7. CommitOK(w)'
  BY <1>2, <1>3, <1>6 DEF CommitOK, Success, RemainingOf
<1> QED
  BY <1>2, <1>3, <1>6, <1>7 DEF AnswerOK, InTime, PastExpiry

\* A cancellation that finds its order cancelled, without a coupon, answers at
\* once; otherwise it goes on.
LEMMA AnswerCancelLockOrder ==
  ASSUME AnswerInv, NEW w \in Workers, CancelLockOrder(w)
  PROVE  AnswerOK(w)'
<1> DEFINE row == orders[req[w].order]
<1>1. TypeInv /\ AnswerOK(w)
  BY DEF AnswerInv, IInv, HeldInv
<1>2. /\ UNCHANGED <<orders, now, req, arrived, saved>>
      /\ pc[w] = "lockOrder" /\ req[w].op = "cancel"
  BY DEF CancelLockOrder, client, tables, At
<1>3. arrived'[w] <= now' /\ saved[w] = {}
  BY <1>1, <1>2 DEF AnswerOK, InTime, TypeInv, InstancesOK
<1>4. CASE Raise(w, "ORDER_NOT_FOUND")
  <2>1. pc'[w] = "rollback" /\ resp'[w] = Error("ORDER_NOT_FOUND")
    BY <1>1, <1>4 DEF Raise, Goto, TypeInv, TypeOK
  <2>2. "ORDER_NOT_FOUND" \in Reason \ (PolicyReasons \cup {"OK"})
    BY DEF Reason, PolicyReasons
  <2> QED
    BY <1>3, <2>1, <2>2, ErrorAnswer
<1>5. CASE \E label \in {"lockAttached", "markCancelled"} : Goto(w, label)
  <2>1. pc'[w] \in {"lockAttached", "markCancelled"}
    BY <1>1, <1>5 DEF Goto, TypeInv, TypeOK
  <2> QED
    BY <1>3, <2>1, PlainAnswer DEF PastExpiry
<1>6. CASE /\ row # None /\ row.coupon = None /\ row.status = "CANCELLED"
           /\ Return(w, Success(None, TRUE))
  <2>1. pc'[w] = "commit" /\ resp'[w] = Success(None, TRUE)
    BY <1>1, <1>6 DEF Return, Goto, TypeInv, TypeOK
  <2>2. /\ resp'[w].reason = "OK" /\ resp'[w].replayed = TRUE
        /\ resp'[w].remaining = None
    BY <2>1 DEF Success
  <2>3. CommitOK(w)'
    BY <1>2, <1>3, <1>6, <2>2 DEF CommitOK, Done
  <2> QED
    BY <1>2, <1>3, <2>1, <2>3 DEF AnswerOK, InTime, PastExpiry
<1> QED
  BY <1>4, <1>5, <1>6 DEF CancelLockOrder

\* A cancellation that finds its order cancelled reports the counter of the
\* coupon it has just locked, which exists since an order carries it.
LEMMA AnswerCancelLockCoupon ==
  ASSUME AnswerInv, NEW w \in Workers, CancelLockCoupon(w)
  PROVE  AnswerOK(w)'
<1> DEFINE c   == order[w].coupon
           row == coupons[c]
           o   == req[w].order
<1>1. TypeInv /\ AnswerOK(w) /\ TransactionOK(w) /\ TablesOK
  BY DEF AnswerInv, IInv, HeldInv, WorkerOK
<1>2. /\ UNCHANGED <<orders, coupons, now, req, arrived, saved>>
      /\ pc[w] = "lockAttached" /\ req[w].op = "cancel" /\ req[w] \in Requests
  BY <1>1 DEF CancelLockCoupon, client, tables, At, TypeInv, TypeOK, ControlOK
<1>3. arrived'[w] <= now' /\ saved[w] = {}
  BY <1>1, <1>2 DEF AnswerOK, InTime, TypeInv, InstancesOK
<1>4. order[w] = orders[o] /\ orders[o] # None /\ c # None /\ c \in Codes
  BY <1>1, <1>2 DEF TransactionOK, OrderHeld, Guarded, InstancesOK, TypeInv,
                    TypeOK, OrderRow
<1>5. row # None
  BY <1>1, <1>2, <1>4, RequestFields DEF TablesOK, SingleUseAgrees
<1>6. CASE order[w].status = "CANCELLED"
           /\ Return(w, Success(RemainingOf(row), TRUE))
  <2>1. pc'[w] = "commit" /\ resp'[w] = Success(remaining(row), TRUE)
    BY <1>1, <1>5, <1>6 DEF Return, Goto, RemainingOf, TypeInv, TypeOK
  <2>2. /\ resp'[w].reason = "OK" /\ resp'[w].replayed = TRUE
        /\ resp'[w].remaining = remaining(row)
    BY <2>1 DEF Success
  <2>3. couponLock'[c] = w
    BY <1>1, <1>4, <1>5 DEF CancelLockCoupon, LockCoupon, TypeInv, TypeOK
  <2>4. CommitOK(w)'
    BY <1>2, <1>3, <1>4, <1>6, <2>2, <2>3 DEF CommitOK, Done
  <2> QED
    BY <1>2, <1>3, <2>1, <2>4 DEF AnswerOK, InTime, PastExpiry
<1>7. CASE order[w].status # "CANCELLED" /\ Goto(w, "saveCount")
  <2>1. pc'[w] = "saveCount"
    BY <1>1, <1>7 DEF Goto, TypeInv, TypeOK
  <2> QED
    BY <1>2, <1>3, <2>1, PlainAnswer DEF PastExpiry
<1> QED
  BY <1>5, <1>6, <1>7 DEF CancelLockCoupon

\* The order marked: the payload reports the counter just saved, if any.
LEMMA AnswerCancelMarkCancelled ==
  ASSUME AnswerInv, NEW w \in Workers, CancelMarkCancelled(w)
  PROVE  AnswerOK(w)'
<1>1. TypeInv /\ AnswerOK(w)
  BY DEF AnswerInv, IInv, HeldInv
<1>2. UNCHANGED <<now, req, arrived, coupon>> /\ req[w].op = "cancel"
  BY DEF CancelMarkCancelled, client, At
<1>3. arrived'[w] <= now'
  BY <1>1, <1>2 DEF AnswerOK, InTime
<1>4. /\ pc'[w] = "commit" /\ saved'[w] # {}
      /\ resp'[w] = Success(RemainingOf(coupon[w]), FALSE)
  BY <1>1 DEF CancelMarkCancelled, Return, Goto, TypeInv, TypeOK
<1>5. CommitOK(w)'
  BY <1>2, <1>4 DEF CommitOK, Success
<1> QED
  BY <1>2, <1>3, <1>4, <1>5 DEF AnswerOK, InTime, PastExpiry

\* COMMIT makes the answer true.
LEMMA AnswerCommit ==
  ASSUME AnswerInv, NEW w \in Workers, Commit(w)
  PROVE  AnswerOK(w)'
<1>1. HeldInv /\ TypeInv /\ AnswerOK(w)
  BY DEF AnswerInv, IInv, HeldInv
<1>2. /\ pc[w] = "commit" /\ pc'[w] = "respond"
      /\ UNCHANGED <<now, req, arrived, resp>>
  BY <1>1 DEF Commit, Goto, client, TypeInv, TypeOK
<1>3. arrived'[w] <= now' /\ CommitOK(w)
  BY <1>1, <1>2 DEF AnswerOK, InTime
<1>4. Done(w)'
  <2>1. CASE saved[w] = {}
    BY <1>1, <1>2, <1>3, <2>1, CommitReads DEF CommitOK, Done
  <2>2. CASE saved[w] # {} /\ req[w].op = "redeem"
    BY <1>1, <1>2, <2>2, CommitRedeems DEF Redeems, Done
  <2>3. CASE saved[w] # {} /\ req[w].op = "cancel"
    BY <1>1, <1>2, <2>3, CommitCancels DEF Cancels, Done
  <2> QED
    BY <1>1, <2>1, <2>2, <2>3, CommitInstalls
<1> QED
  BY <1>2, <1>3, <1>4 DEF AnswerOK, InTime, PastExpiry

-----------------------------------------------------------------------------
(* AnswerInv, and the properties it implies.                               *)

\* What the worker that steps leaves of its own answer.
LEMMA OwnAnswer ==
  ASSUME AnswerInv, NEW w \in Workers, WorkerStep(w)
  PROVE  AnswerOK(w)'
<1>1. CASE (\E r \in Requests : Receive(w, r)) \/ Respond(w) \/ Crash(w)
             \/ Rollback(w)
  BY <1>1, AnswerEnds
<1>2. CASE SeedingStep(w) \/ QueryReadCoupon(w)
  BY <1>2, AnswerOutside
<1>3. CASE LockStep(w)
  BY <1>3, AnswerRedeemLockOrder, AnswerRedeemReplay, AnswerRedeemLockCoupon,
     AnswerCancelLockOrder, AnswerCancelLockCoupon
     DEF LockStep, RedeemLock, CancelLock
<1>4. CASE RedeemSaveCount(w) \/ CancelSaveCount(w)
  <2>1. pc[w] = "saveCount" /\ coupon[w] \in CouponInstance
    BY <1>4 DEF RedeemSaveCount, CancelSaveCount, At, AnswerInv, IInv, HeldInv,
                TypeInv, TypeOK, InstancesOK
  <2>2. CASE RedeemSaveCount(w)
    <3>1. /\ UNCHANGED <<now, req, arrived>> /\ req[w].op = "redeem"
          /\ SaveRedeemedCount(w, coupon[w].redeemed_count + 1, "attachCoupon")
      BY <2>2 DEF RedeemSaveCount, At, client
    <3> QED
      BY <2>1, <3>1, AnswerSaveCount
  <2>3. CASE CancelSaveCount(w)
    <3>1. /\ UNCHANGED <<now, req, arrived>>
          /\ SaveRedeemedCount(w, coupon[w].redeemed_count - 1, "markCancelled")
      BY <2>3 DEF CancelSaveCount, client
    <3> QED
      BY <2>1, <3>1, AnswerSaveCount
  <2> QED
    BY <1>4, <2>2, <2>3
<1>5. CASE RedeemEnforcePolicy(w) \/ RedeemAttachCoupon(w)
             \/ CancelMarkCancelled(w)
  BY <1>5, AnswerRedeemEnforcePolicy, AnswerRedeemAttachCoupon,
     AnswerCancelMarkCancelled
<1>6. CASE Commit(w)
  BY <1>6, AnswerCommit
<1> QED
  BY <1>1, <1>2, <1>3, <1>4, <1>5, <1>6
     DEF WorkerStep, LocalStep, RedeemStep, CancelStep

\* No request has arrived and nothing is answered.
THEOREM AnswerInit == Init => AnswerInv
<1> SUFFICES ASSUME Init, NEW w \in Workers PROVE AnswerOK(w)
  BY SafeInit DEF AnswerInv
<1>1. pc[w] = "idle" /\ arrived[w] = 0 /\ now = 0
  BY DEF Init
<1> QED
  BY <1>1 DEF AnswerOK, InTime, PastExpiry

\* Time passes, or nothing happens.
LEMMA AnswerTick ==
  ASSUME AnswerInv, Tick \/ UNCHANGED vars, NEW w \in Workers
  PROVE  AnswerOK(w)'
<1>1. /\ UNCHANGED <<users, orders, coupons, orderLock, couponLock, pc, req,
                     arrived, order, coupon, rule, saved, resp>>
      /\ now' = now \/ now' = now + 1
  BY DEF Tick, vars, tables, locks, client, instance
<1>2. arrived[w] \in Nat /\ now \in Nat /\ arrived[w] <= now
  BY TimeAssumption DEF AnswerInv, IInv, HeldInv, TypeInv, TypeOK, AnswerOK,
                        InTime
<1>3. InTime(w)'
  <2>1. arrived'[w] <= now'
    BY <1>1, <1>2
  <2> QED
    BY <1>1, <2>1 DEF AnswerInv, AnswerOK, InTime, PastExpiry
<1>4. pc'[w] = "insertOrder" => req'[w].customer \in users'
  BY <1>1 DEF AnswerInv, AnswerOK
<1>5. RefusalOK(w)' <=> RefusalOK(w)
  BY <1>1 DEF RefusalOK, CouponHeld, Fresh
<1>6. (Done(w)' <=> Done(w)) /\ (CommitOK(w)' <=> CommitOK(w))
  BY <1>1 DEF Done, CommitOK
<1> QED
  BY <1>1, <1>3, <1>4, <1>5, <1>6 DEF AnswerInv, AnswerOK

\* Every step of the service, and every stuttering step, keeps AnswerInv.
THEOREM AnswerStep == AnswerInv /\ [Next]_vars => AnswerInv'
<1> SUFFICES ASSUME AnswerInv, [Next]_vars PROVE AnswerInv'
  OBVIOUS
<1>1. IInv' /\ HeldInv /\ TypeInv
  BY SafeStep DEF AnswerInv, IInv, HeldInv
<1>2. ASSUME NEW w \in Workers, WorkerStep(w), NEW v \in Workers
      PROVE  AnswerOK(v)'
  <2>1. Apart(w) /\ OrdersGrow /\ users \subseteq users'
    BY <1>1, <1>2, StepApart, StepWrites, TablesGrow
  <2>2. CASE v = w
    BY <1>2, <2>2, OwnAnswer
  <2>3. CASE v # w
    BY <1>1, <1>2, <2>1, <2>3, OthersAnswer DEF AnswerInv
  <2> QED
    BY <2>2, <2>3
<1>3. \A v \in Workers : AnswerOK(v)'
  BY <1>2, NextSteps, AnswerTick
<1> QED
  BY <1>1, <1>3 DEF AnswerInv

\* Every answer of the service, and every instant, deadline and customer it
\* rests on, is as AnswerInv says in every reachable state.
THEOREM AnswersCorrect == Spec => []AnswerInv
BY AnswerInit, AnswerStep, PTL DEF Spec

\* No redemption goes through whose request came after expires_at, however
\* long it has waited since.
THEOREM DeadlineCorrect == Spec => []NoLateRedemption
<1>1. AnswerInv => NoLateRedemption
  <2> SUFFICES ASSUME AnswerInv, NEW w \in Workers, Redeeming(w)
               PROVE  arrived[w] <= coupons[req[w].code].expires_at
    BY DEF NoLateRedemption
  <2>1. IInv /\ AnswerOK(w) /\ MemoryOK(w)
    BY DEF AnswerInv, IInv, HeldInv, WorkerOK
  <2>2. pc[w] = "commit" => saved[w] # {}
    BY <2>1 DEF Redeeming, MemoryOK, AnswerOK, CommitOK
  <2>3. PastExpiry(w)
    BY <2>2 DEF Redeeming, PastExpiry
  <2>4. coupon[w].expires_at = coupons[req[w].code].expires_at
    BY <2>1, RedeemingKnows
  <2> QED
    BY <2>1, <2>3, <2>4 DEF AnswerOK, InTime
<1> QED
  BY <1>1, AnswersCorrect, PTL

\* A policy refuses no order that already carries a coupon: the retry of a
\* redemption that took effect is never told that it was too late or too much.
THEOREM RetryCorrect == Spec => []RetryNotRefused
<1>1. AnswerInv => RetryNotRefused
  BY DEF AnswerInv, AnswerOK, RefusalOK, PolicyReasons, RetryNotRefused
<1> QED
  BY <1>1, AnswersCorrect, PTL

\* A refusal names the most specific rule, and the committed rows bear it out.
THEOREM RefusalsCorrect == Spec => []RefusalIsMostSpecific
<1>1. ASSUME AnswerInv, NEW w \in Workers, pc[w] = "rollback",
             req[w].op = "redeem",
             resp[w].reason \in {"COUPON_EXHAUSTED",
                                 "CUSTOMER_ALREADY_REDEEMED"}
      PROVE  LET row  == coupons[req[w].code]
                 used == row.type = "STANDARD"
                           /\ AlreadyUsed(row, req[w].customer, orders)
             IN  /\ row.code = req[w].code
                 /\ resp[w].reason = "COUPON_EXHAUSTED" =>
                      Cardinality(Holders(row.code)) = row.max_redemptions
                 /\ resp[w].reason = "COUPON_EXHAUSTED" <=> ~used
                 /\ arrived[w] <= row.expires_at
  <2> DEFINE c   == req[w].code
             row == coupons[c]
  <2>1. RefusalOK(w) /\ TypeInv /\ TablesOK
    BY <1>1 DEF AnswerInv, IInv, HeldInv, AnswerOK, PolicyReasons
  <2>2. c \in Codes
    BY <1>1, <2>1, RequestFields DEF TypeInv, TypeOK, ControlOK
  <2>3. coupon[w] = row /\ row # None /\ row.code = c /\ row \in CouponRow
    BY <2>1, <2>2 DEF RefusalOK, CouponHeld, Fresh, TypeInv, TypeOK
  <2>4. resp[w].reason = "COUPON_EXHAUSTED" =>
          Cardinality(Holders(row.code)) = row.max_redemptions
    <3>1. row.redeemed_count = Cardinality(Holders(c))
      BY <2>1, <2>2, <2>3 DEF TablesOK, CountMatchesHolders
    <3>2. Cardinality(Holders(c)) <= row.max_redemptions
      BY <2>1, <2>2, <2>3 DEF TablesOK, RedemptionLimits
    <3>3. resp[w].reason = "COUPON_EXHAUSTED" => Exhausted(row)
      BY <2>1, <2>3 DEF RefusalOK
    <3> QED
      BY <2>3, <3>1, <3>2, <3>3 DEF Exhausted, CouponRow
  <2> QED
    BY <1>1, <2>1, <2>3, <2>4 DEF RefusalOK
<1>2. AnswerInv => RefusalIsMostSpecific
  BY <1>1 DEF RefusalIsMostSpecific
<1> QED
  BY <1>2, AnswersCorrect, PTL

-----------------------------------------------------------------------------
(* What a step may do.                                                     *)

\* No order's history is ever rewritten.
THEOREM HistoryKept == Spec => OrderHistory
<1>1. IInv /\ [Next]_vars => [OrdersGrow]_vars
  <2> SUFFICES ASSUME IInv, [Next]_vars, ~UNCHANGED vars PROVE OrdersGrow
    OBVIOUS
  <2>1. CASE \E w \in Workers : WorkerStep(w)
    BY <2>1, StepWrites, TablesGrow DEF IInv, HeldInv
  <2>2. CASE Tick
    BY <2>2 DEF Tick, tables, OrdersGrow
  <2> QED
    BY <2>1, <2>2, NextSteps
<1> QED
  BY <1>1, SafetyCorrect, PTL DEF Spec, OrderHistory

\* What a step that changes a row which was there already is, and leaves: a
\* COMMIT that succeeds, and its order changed with its coupon.
LEMMA ChangeSucceeds ==
  ASSUME AnswerInv, [Next]_vars,
         \/ \E o \in Orders : orders[o] # None /\ orders'[o] # orders[o]
         \/ \E c \in Codes : coupons[c] # None /\ coupons'[c] # coupons[c]
  PROVE  \E w \in Workers :
           /\ Succeeds(w)
           /\ req[w].order \in Orders /\ orders[req[w].order] # None
           /\ orders'[req[w].order] # orders[req[w].order]
           /\ \A p \in Orders \ {req[w].order} : orders'[p] = orders[p]
           /\ \A c \in Codes : coupons'[c] # coupons[c] =>
                orders'[req[w].order].coupon = c
<1>1. PICK w \in Workers : WorkerStep(w)
  BY NextSteps DEF Tick, vars, tables
<1>2. HeldInv /\ TypeInv
  BY DEF AnswerInv, IInv, HeldInv
<1>3. Writes(w)
  BY <1>1, <1>2, StepWrites
<1>4. ~OrderAdded(w) /\ ~CouponAdded(w)
  BY <1>2 DEF OrderAdded, CouponAdded, TypeInv, TypeOK
<1>5. Written(w)
  BY <1>3, <1>4 DEF Writes, UserAdded, tables
<1>6. Commit(w) /\ saved[w] # {}
  BY <1>5 DEF Written
<1>7. pc[w] = "commit" /\ req[w].op \in {"redeem", "cancel"}
  BY <1>2, <1>6, CommitInstalls
<1>8. pc'[w] = "respond" /\ resp' = resp
  BY <1>2, <1>6 DEF Commit, Goto, TypeInv, TypeOK
<1>9. resp[w].reason = "OK" /\ ~resp[w].replayed
  BY <1>6, <1>7 DEF AnswerInv, AnswerOK, CommitOK
<1>10. Succeeds(w)
  BY <1>7, <1>8, <1>9 DEF Succeeds
<1>11. CASE Redeems(w)
  <2>1. /\ req[w].order \in Orders /\ orders[req[w].order] # None
        /\ orders[req[w].order].coupon = None
        /\ req[w].code \in Codes
        /\ orders'[req[w].order].coupon = req[w].code
        /\ \A p \in Orders \ {req[w].order} : orders'[p] = orders[p]
        /\ \A d \in Codes \ {req[w].code} : coupons'[d] = coupons[d]
    BY <1>11 DEF Redeems
  <2> QED
    BY <1>10, <2>1, NoneAssumption
<1>12. CASE Cancels(w)
  <2>1. /\ req[w].order \in Orders /\ orders[req[w].order] # None
        /\ orders[req[w].order].status = "PLACED"
        /\ orders'[req[w].order].status = "CANCELLED"
        /\ orders'[req[w].order].coupon = orders[req[w].order].coupon
        /\ \A p \in Orders \ {req[w].order} : orders'[p] = orders[p]
        /\ \A d \in Codes \ {orders[req[w].order].coupon} :
             coupons'[d] = coupons[d]
    BY <1>12 DEF Cancels
  <2> QED
    BY <1>10, <2>1
<1> QED
  BY <1>5, <1>11, <1>12 DEF Written

\* An order that exists changes only at the COMMIT of a redemption or
\* cancellation that then answers OK, and not as a replay, and a counter only
\* together with the order that carries its coupon.
THEOREM WritesCorrect == Spec => OnlySuccessWrites
<1>1. AnswerInv /\ [Next]_vars => [SuccessWrites]_vars
  <2> SUFFICES ASSUME AnswerInv, [Next]_vars PROVE SuccessWrites
    OBVIOUS
  <2>1. ASSUME NEW o \in Orders, orders[o] # None, orders'[o] # orders[o]
        PROVE  \E w \in Workers : Succeeds(w) /\ req[w].order = o
    BY <2>1, ChangeSucceeds
  <2>2. ASSUME NEW c \in Codes, coupons[c] # None, coupons'[c] # coupons[c]
        PROVE  \E o \in Orders : /\ orders[o] # None /\ orders'[o] # orders[o]
                                 /\ orders'[o].coupon = c
    BY <2>2, ChangeSucceeds
  <2> QED
    BY <2>1, <2>2 DEF SuccessWrites
<1> QED
  BY <1>1, AnswersCorrect, PTL DEF Spec, OnlySuccessWrites

\* A statement goes on with the request it serves.
LEMMA StatementStays ==
  ASSUME TypeInv, NEW w \in Workers,
         LockStep(w) \/ (pc[w] # "respond" /\ LocalStep(w))
  PROVE  req' = req /\ pc'[w] # "idle"
<1>1. CASE LockStep(w)
  BY <1>1 DEF LockStep, RedeemLock, CancelLock, RedeemLockOrder, RedeemReplay,
       RedeemLockCoupon, CancelLockOrder, CancelLockCoupon, Raise, Return, Goto,
       client, TypeInv, TypeOK
<1>2. CASE RedeemStep(w) \/ CancelStep(w)
  BY <1>2 DEF RedeemStep, CancelStep, RedeemEnforcePolicy, RedeemSaveCount,
       RedeemAttachCoupon, CancelSaveCount, CancelMarkCancelled,
       SaveRedeemedCount, At, Raise, Return, Goto, client, TypeInv, TypeOK
<1>3. CASE SeedingStep(w) \/ QueryReadCoupon(w)
  BY <1>3 DEF SeedingStep, InsertUser, InsertCoupon, CheckUser, InsertOrder,
       QueryReadCoupon, Reply, Goto, client, TypeInv, TypeOK
<1>4. CASE Commit(w) \/ Rollback(w)
  BY <1>4 DEF Commit, Rollback, Goto, client, TypeInv, TypeOK
<1> QED
  BY <1>1, <1>2, <1>3, <1>4 DEF LocalStep, Respond

\* The step that ends a transaction or a lone statement is the one that
\* reaches "respond"; every other statement stays inside.
LEMMA StatementInside ==
  ASSUME TypeInv, NEW w \in Workers,
         (\E r \in Requests : Receive(w, r)) \/ LockStep(w) \/ RedeemStep(w)
           \/ CancelStep(w) \/ Respond(w) \/ Crash(w)
  PROVE  pc'[w] # "respond"
<1>1. ASSUME NEW r \in Requests, Receive(w, r) PROVE pc'[w] # "respond"
  <2>1. FirstStatement[r.op] # "respond"
    BY RequestFields DEF FirstStatement
  <2> QED
    BY <1>1, <2>1 DEF Receive, Goto, TypeInv, TypeOK
<1>2. CASE LockStep(w)
  BY <1>2 DEF LockStep, RedeemLock, CancelLock, RedeemLockOrder, RedeemReplay,
       RedeemLockCoupon, CancelLockOrder, CancelLockCoupon, Raise, Return, Goto,
       TypeInv, TypeOK
<1>3. CASE RedeemStep(w) \/ CancelStep(w)
  BY <1>3 DEF RedeemStep, CancelStep, RedeemEnforcePolicy, RedeemSaveCount,
       RedeemAttachCoupon, CancelSaveCount, CancelMarkCancelled,
       SaveRedeemedCount, At, Raise, Return, Goto, TypeInv, TypeOK
<1>4. CASE Respond(w) \/ Crash(w)
  BY <1>4 DEF Respond, Crash, Clear, Goto, TypeInv, TypeOK
<1> QED
  BY <1>1, <1>2, <1>3, <1>4

\* The slots a redemption or cancellation reports are those its COMMIT leaves.
LEMMA ExactCommit ==
  ASSUME AnswerInv, NEW w \in Workers, Commit(w), resp[w].remaining # None
  PROVE  \E c \in Codes :
           /\ coupons'[c] # None
           /\ orders'[req[w].order].coupon = c
           /\ resp[w].remaining = remaining(coupons'[c])
<1> DEFINE o == req[w].order
<1>1. HeldInv /\ TypeInv /\ TablesOK /\ AnswerOK(w)
  BY DEF AnswerInv, IInv, HeldInv
<1>2. /\ pc[w] = "commit" /\ req[w].op \in {"redeem", "cancel"}
      /\ o \in Orders /\ orders[o] # None /\ orders[o] \in OrderRow
  BY <1>1, CommitInstalls
<1>3. CommitOK(w)
  BY <1>1, <1>2 DEF AnswerOK
<1>4. CASE saved[w] = {}
  <2> DEFINE c == orders[o].coupon
  <2>1. UNCHANGED <<orders, coupons>>
    BY <1>1, <1>4, CommitReads
  <2>2. c # None /\ resp[w].remaining = remaining(coupons[c])
    BY <1>3, <1>4 DEF CommitOK
  <2>3. c \in Codes /\ coupons[c] # None
    BY <1>1, <1>2, <2>2 DEF OrderRow, TablesOK, SingleUseAgrees
  <2> QED
    BY <2>1, <2>2, <2>3
<1>5. CASE saved[w] # {} /\ req[w].op = "redeem"
  <2>1. Redeems(w) /\ resp[w].remaining = RemainingOf(coupon[w])
    BY <1>1, <1>3, <1>5, CommitRedeems DEF CommitOK
  <2> QED
    BY <2>1 DEF Redeems, RemainingOf
<1>6. CASE saved[w] # {} /\ req[w].op = "cancel"
  <2>1. Cancels(w) /\ resp[w].remaining = RemainingOf(coupon[w])
    BY <1>1, <1>3, <1>6, CommitCancels DEF CommitOK
  <2> QED
    BY <2>1 DEF Cancels, RemainingOf
<1> QED
  BY <1>2, <1>4, <1>5, <1>6

\* So are those that a query or a new coupon reports.
LEMMA ExactOutside ==
  ASSUME TypeInv, NEW w \in Workers, SeedingStep(w) \/ QueryReadCoupon(w),
         pc'[w] = "respond", resp'[w].remaining # None
  PROVE  /\ req[w].op \notin {"redeem", "cancel"}
         /\ req[w].code \in Codes
         /\ coupons'[req[w].code] # None
         /\ resp'[w].remaining = remaining(coupons'[req[w].code])
<1>1. CASE InsertUser(w) \/ CheckUser(w) \/ InsertOrder(w)
  <2>1. pc[w] # "respond"
    BY <1>1 DEF InsertUser, CheckUser, InsertOrder, At
  <2>2. \/ \E payload \in {Success(None, FALSE), Error("USER_ALREADY_EXISTS"),
                           Error("USER_NOT_FOUND"),
                           Error("ORDER_ALREADY_EXISTS")} :
             resp' = [resp EXCEPT ![w] = payload]
        \/ Goto(w, "insertOrder")
    BY <1>1 DEF InsertUser, CheckUser, InsertOrder, Reply
  <2>3. resp'[w].remaining = None
    BY <2>2 DEF Success, Error, Goto, TypeInv, TypeOK
  <2> QED
    BY <2>3
<1>2. CASE InsertCoupon(w)
  <2>1. req[w].op = "create_coupon" /\ req[w] \in Requests
    BY <1>2 DEF InsertCoupon, At, TypeInv, TypeOK, ControlOK
  <2>2. /\ req[w].code \in Codes /\ req[w].row \in CouponRow
    BY <2>1, RequestFields
  <2>3. resp'[w] # Error("COUPON_ALREADY_EXISTS")
    BY DEF Error
  <2>4. /\ coupons' = [coupons EXCEPT ![req[w].code] = req[w].row]
        /\ resp'[w] = Success(remaining(req[w].row), FALSE)
    BY <1>2, <2>3 DEF InsertCoupon, Reply, TypeInv, TypeOK
  <2>5. coupons'[req[w].code] = req[w].row
    BY <2>2, <2>4 DEF TypeInv, TypeOK
  <2>6. req[w].row # None
    BY <2>2, NoneAssumption DEF CouponRow, CouponInstance
  <2> QED
    BY <2>1, <2>2, <2>4, <2>5, <2>6 DEF Success
<1>3. CASE QueryReadCoupon(w)
  <2>1. req[w].op = "query" /\ req[w] \in Requests /\ coupons' = coupons
    BY <1>3 DEF QueryReadCoupon, At, tables, TypeInv, TypeOK, ControlOK
  <2>2. req[w].code \in Codes
    BY <2>1, RequestFields
  <2>3. resp'[w] = IF coupons[req[w].code] = None THEN Error("COUPON_NOT_FOUND")
                   ELSE Success(remaining(coupons[req[w].code]), FALSE)
    BY <1>3 DEF QueryReadCoupon, Reply, TypeInv, TypeOK
  <2> QED
    BY <2>1, <2>2, <2>3 DEF Success, Error
<1> QED
  BY <1>1, <1>2, <1>3 DEF SeedingStep

\* Every number of slots the service reports is the committed row's, at the
\* step that ends the transaction or the read.
THEOREM ExactCorrect == Spec => AnswerExact
<1>1. AnswerInv /\ [Next]_vars => [\A w \in Workers : ExactAnswer(w)]_vars
  <2> SUFFICES ASSUME AnswerInv, [Next]_vars, NEW w \in Workers,
                      pc[w] # "respond", pc'[w] = "respond",
                      resp'[w].remaining # None
               PROVE  \E c \in Codes :
                        /\ coupons'[c] # None
                        /\ IF req[w].op \in {"redeem", "cancel"}
                           THEN orders'[req[w].order].coupon = c
                           ELSE req[w].code = c
                        /\ resp'[w].remaining = remaining(coupons'[c])
    BY DEF ExactAnswer
  <2>1. HeldInv /\ TypeInv /\ AnswerOK(w)
    BY DEF AnswerInv, IInv, HeldInv
  <2>2. PICK v \in Workers : WorkerStep(v)
    BY NextSteps DEF Tick, vars
  <2>3. v = w
    BY <2>1, <2>2, StepApart DEF Apart, Others
  <2>4. CASE Commit(w)
    <3>1. resp' = resp /\ req[w].op \in {"redeem", "cancel"}
      BY <2>1, <2>4, CommitInstalls DEF Commit
    <3> QED
      BY <2>4, <3>1, ExactCommit
  <2>5. CASE Rollback(w)
    BY <2>1, <2>5 DEF Rollback, AnswerOK
  <2>6. CASE SeedingStep(w) \/ QueryReadCoupon(w)
    BY <2>1, <2>6, ExactOutside
  <2> QED
    BY <2>1, <2>2, <2>3, <2>4, <2>5, <2>6, StatementInside
       DEF WorkerStep, LocalStep
<1> QED
  BY <1>1, AnswersCorrect, PTL DEF Spec, AnswerExact

-----------------------------------------------------------------------------
(* The ledger.  Each write of a table is one operation of CouponLedger,     *)
(* with its guard; every other step leaves the ledger as it is.            *)

\* The ledger and the terms that the tables show.
entries == [o \in Orders |-> EntryOf(orders[o])]
offers  == [c \in Codes |-> TermsOf(coupons[c])]

\* An order row is an entry, and no row is none.
LEMMA EntryFields ==
  ASSUME NEW row \in OrderRow
  PROVE  /\ EntryOf(row) \in Ledger!Entry /\ EntryOf(row) # None
         /\ EntryOf(row) = [user |-> row.user, coupon |-> row.coupon,
                            live |-> row.status = "PLACED"]
         /\ EntryOf(row).user = row.user /\ EntryOf(row).coupon = row.coupon
         /\ EntryOf(row).live <=> row.status = "PLACED"
<1>1. row # None
  BY NoneAssumption
<1>2. EntryOf(row) = [user |-> row.user, coupon |-> row.coupon,
                      live |-> row.status = "PLACED"]
  BY <1>1 DEF EntryOf
<1>3. EntryOf(row) \in Ledger!Entry
  BY <1>2 DEF OrderRow, Ledger!Entry
<1>4. EntryOf(row) # None
  BY <1>3, LedgerAssumption
<1>5. EntryOf(row).user = row.user /\ EntryOf(row).coupon = row.coupon
  BY <1>2
<1>6. EntryOf(row).live <=> row.status = "PLACED"
  <2> DEFINE live == row.status = "PLACED"
  <2>1. EntryOf(row) = [user |-> row.user, coupon |-> row.coupon, live |-> live]
    BY <1>2
  <2>2. live \in BOOLEAN
    OBVIOUS
  <2> HIDE DEF live
  <2>3. EntryOf(row).live = live
    BY <2>1, <2>2
  <2> QED
    BY <2>2, <2>3 DEF live
<1> QED
  BY <1>2, <1>3, <1>4, <1>5, <1>6, Zenon

\* A coupon row offers its type and cap, whatever its counter.
LEMMA TermsFields ==
  ASSUME NEW row \in CouponRow
  PROVE  /\ TermsOf(row) \in Ledger!Terms /\ TermsOf(row) # None
         /\ TermsOf(row) = [type |-> row.type, cap |-> row.max_redemptions]
         /\ TermsOf(row).type = row.type
         /\ TermsOf(row).cap = row.max_redemptions
<1>1. row # None
  BY NoneAssumption DEF CouponRow, CouponInstance
<1>2. TermsOf(row) = [type |-> row.type, cap |-> row.max_redemptions]
  BY <1>1 DEF TermsOf
<1>3. TermsOf(row) \in Ledger!Terms
  BY <1>2 DEF CouponRow, CouponType, Ledger!Terms
<1> QED
  BY <1>2, <1>3, LedgerAssumption

\* Closing an entry.
LEMMA EntryClosed ==
  ASSUME NEW u, NEW c, NEW live, NEW closed, NEW entry,
         entry = [user |-> u, coupon |-> c, live |-> live]
  PROVE  [entry EXCEPT !.live = closed]
           = [user |-> u, coupon |-> c, live |-> closed]
OBVIOUS

\* An absent row is an absent entry.
LEMMA NoneShown == EntryOf(None) = None /\ TermsOf(None) = None
BY DEF EntryOf, TermsOf

\* The ledger counts as the service does.
LEMMA CountedAlike ==
  ASSUME NEW S
  PROVE  Ledger!Cardinality(S) = Cardinality(S)
BY DEF Ledger!Cardinality, Cardinality

\* The orders that carry a coupon in the ledger are its holders.
LEMMA CarriersAre ==
  ASSUME TypeInv, NEW c \in Codes
  PROVE  Ledger!Carriers(c) = Holders(c)
<1>1. ASSUME NEW o \in Orders
      PROVE  /\ entries[o] # None <=> orders[o] # None
             /\ orders[o] # None =>
                  /\ entries[o].coupon = orders[o].coupon
                  /\ entries[o].live <=> orders[o].status = "PLACED"
  <2>1. orders[o] \in OrderRow \cup {None} /\ entries[o] = EntryOf(orders[o])
    BY DEF TypeInv, TypeOK, entries
  <2> QED
    BY <2>1, EntryFields, NoneShown
<1> QED
  BY <1>1 DEF Ledger!Carriers, Holders, Active, entries


-----------------------------------------------------------------------------
(* One write of a table, one operation of the ledger.                      *)

\* Coupons that keep their type and cap show offers that stay, whatever becomes
\* of the counter.
LEMMA OffersStay ==
  ASSUME TypeInv, TypeInv',
         \A c \in Codes : coupons'[c] = coupons[c] \/
           /\ coupons[c] # None /\ coupons'[c] # None
           /\ coupons'[c].type = coupons[c].type
           /\ coupons'[c].max_redemptions = coupons[c].max_redemptions
  PROVE  offers' = offers
<1>1. ASSUME NEW c \in Codes PROVE TermsOf(coupons'[c]) = TermsOf(coupons[c])
  <2>1. CASE coupons'[c] = coupons[c]
    BY <2>1
  <2>2. CASE coupons'[c] # coupons[c]
    BY <2>2 DEF TermsOf
  <2> QED
    BY <2>1, <2>2
<1> QED
  BY <1>1 DEF offers

\* One row that changes shows one entry that changes.
LEMMA OneEntry ==
  ASSUME NEW o \in Orders, \A p \in Orders \ {o} : orders'[p] = orders[p]
  PROVE  entries' = [entries EXCEPT ![o] = EntryOf(orders'[o])]
BY DEF entries

\* A customer registers.
LEMMA LedgerRegisters ==
  ASSUME NEW w \in Workers, UserAdded(w)
  PROVE  Ledger!Register(req[w].customer)
BY DEF UserAdded, Ledger!Register

\* A coupon is issued, on the terms of its row.
LEMMA LedgerIssues ==
  ASSUME TypeInv, NEW w \in Workers, CouponAdded(w)
  PROVE  Ledger!Issue(req[w].code)
<1> DEFINE c == req[w].code
<1>1. /\ c \in Codes /\ coupons[c] = None /\ req[w].row \in CouponRow
      /\ coupons' = [coupons EXCEPT ![c] = req[w].row]
      /\ UNCHANGED <<users, orders>>
  BY DEF CouponAdded
<1>2. /\ coupons'[c] = req[w].row
      /\ \A d \in Codes \ {c} : coupons'[d] = coupons[d]
  BY <1>1 DEF TypeInv, TypeOK
<1>3. offers[c] = None /\ offers'[c] \in Ledger!Terms
  BY <1>1, <1>2, NoneShown, TermsFields DEF offers
<1>4. offers' = [offers EXCEPT ![c] = offers'[c]]
  <2>1. \A d \in Codes \ {c} : TermsOf(coupons'[d]) = TermsOf(coupons[d])
    BY <1>2
  <2>2. offers'[c] = TermsOf(coupons'[c])
    BY <1>1 DEF offers
  <2> QED
    BY <1>1, <2>1, <2>2 DEF offers
<1> QED
  BY <1>1, <1>3, <1>4 DEF Ledger!Issue, offers

\* A customer whom an earlier statement found registered places an order.
LEMMA LedgerPlaces ==
  ASSUME AnswerInv, NEW w \in Workers, OrderAdded(w)
  PROVE  Ledger!Place(req[w].order, req[w].customer)
<1> DEFINE o == req[w].order
           u == req[w].customer
<1>1. TypeInv /\ AnswerOK(w)
  BY DEF AnswerInv, IInv, HeldInv
<1>2. /\ o \in Orders /\ orders[o] = None /\ u \in Customers
      /\ orders' = [orders EXCEPT ![o] = NewOrder(u)]
      /\ UNCHANGED <<users, coupons>>
  BY DEF OrderAdded
<1>3. u \in users
  BY <1>1 DEF OrderAdded, InsertOrder, At, AnswerOK
<1>4. NewOrder(u) \in OrderRow
  BY <1>2 DEF NewOrder, OrderRow, OrderStatus
<1>5. orders'[o] = NewOrder(u) /\ \A p \in Orders \ {o} : orders'[p] = orders[p]
  BY <1>1, <1>2 DEF TypeInv, TypeOK
<1>6. EntryOf(NewOrder(u)) = [user |-> u, coupon |-> None, live |-> TRUE]
  BY <1>4, EntryFields DEF NewOrder
<1>7. entries' = [entries EXCEPT ![o] = [user |-> u, coupon |-> None,
                                         live |-> TRUE]]
  BY <1>2, <1>5, <1>6, OneEntry
<1>8. entries[o] = None
  BY <1>2, NoneShown DEF entries
<1> QED
  BY <1>2, <1>3, <1>7, <1>8 DEF Ledger!Place, entries

\* A redemption's COMMIT: what its locks have kept true since its checks is
\* the guard of the ledger's operation, at this very step.
LEMMA LedgerRedeems ==
  ASSUME IInv, IInv', NEW w \in Workers, Written(w), req[w].op = "redeem"
  PROVE  Ledger!Redeem(req[w].order, req[w].code)
<1> DEFINE o == req[w].order
           c == req[w].code
<1>0. Redeems(w) /\ users' = users
  BY DEF Written
<1>1. TypeInv /\ TypeInv' /\ CountMatchesHolders
  BY DEF IInv, HeldInv, TablesOK
<1>2. /\ o \in Orders /\ c \in Codes
      /\ orders[o] \in OrderRow /\ orders'[o] \in OrderRow
      /\ coupons[c] \in CouponRow /\ coupons[c] # None /\ coupons[c].code = c
      /\ orders[o].status = "PLACED" /\ orders[o].coupon = None
      /\ orders'[o].status = "PLACED" /\ orders'[o].coupon = c
      /\ orders'[o].user = orders[o].user
  BY <1>0, <1>1 DEF Redeems, TypeInv, TypeOK
<1>3. /\ entries[o] # None /\ entries[o].live /\ entries[o].coupon = None
      /\ entries[o].user = orders[o].user
  BY <1>2, EntryFields, Zenon DEF entries
<1>4. /\ offers[c] # None /\ offers[c].cap = coupons[c].max_redemptions
      /\ offers[c].type = coupons[c].type
  BY <1>2, TermsFields DEF offers
<1>5. Ledger!Cardinality(Ledger!Carriers(c)) < offers[c].cap
  <2>1. coupons[c].redeemed_count = Cardinality(Ledger!Carriers(c))
    BY <1>1, <1>2, CarriersAre DEF CountMatchesHolders
  <2>2. coupons[c].redeemed_count + 1 <= coupons[c].max_redemptions
    BY <1>0 DEF Redeems
  <2> QED
    BY <1>2, <1>4, <2>1, <2>2, CountedAlike DEF CouponRow
<1>6. ASSUME offers[c].type = "STANDARD", NEW p \in Ledger!Carriers(c)
      PROVE  entries[p].user # entries[o].user
  <2>1. p \in Orders /\ Active(orders[p], c)
    BY <1>1, <1>2, <1>6, CarriersAre DEF Holders
  <2>2. orders[p].user # orders[o].user
    <3>1. /\ coupon[w].type = coupons[c].type /\ coupon[w].code = c
          /\ orders[o].user = req[w].customer
      BY <1>0 DEF Redeems
    <3>2. CustomerChecked(w)
      BY <1>1, <1>4, <1>6, <3>1, CommitInstalls
         DEF Written, CustomerChecked, IInv
    <3>3. ~AlreadyUsed(coupon[w], req[w].customer, orders)
      BY <3>2 DEF IInv, ServiceOK
    <3> QED
      BY <2>1, <3>1, <3>3 DEF AlreadyUsed
  <2>3. entries[p].user = orders[p].user
    BY <1>1, <2>1, EntryFields DEF entries, Active, TypeInv, TypeOK
  <2> QED
    BY <1>3, <2>2, <2>3
<1>7. entries' = [entries EXCEPT ![o].coupon = c]
  <2>1. EntryOf(orders'[o]) = [EntryOf(orders[o]) EXCEPT !.coupon = c]
    BY <1>2, EntryFields
  <2>2. \A p \in Orders \ {o} : orders'[p] = orders[p]
    BY <1>0 DEF Redeems
  <2>3. entries' = [entries EXCEPT ![o] = EntryOf(orders'[o])]
    BY <1>2, <2>2, OneEntry
  <2>4. entries[o] = EntryOf(orders[o])
    BY <1>2 DEF entries
  <2> QED
    BY <2>1, <2>3, <2>4
<1>8. offers' = offers
  <2>1. \A d \in Codes : coupons'[d] = coupons[d] \/
          /\ coupons[d] # None /\ coupons'[d] # None
          /\ coupons'[d].type = coupons[d].type
          /\ coupons'[d].max_redemptions = coupons[d].max_redemptions
    BY <1>0 DEF Redeems
  <2> QED
    BY <1>1, <2>1, OffersStay
<1> QED
  BY <1>0, <1>3, <1>4, <1>5, <1>6, <1>7, <1>8
     DEF Ledger!Redeem, entries, offers

\* A cancellation's COMMIT.
LEMMA LedgerCancels ==
  ASSUME IInv, IInv', NEW w \in Workers, Cancels(w), users' = users
  PROVE  Ledger!Cancel(req[w].order)
<1> DEFINE o == req[w].order
<1>1. TypeInv /\ TypeInv'
  BY DEF IInv, HeldInv
<1>2. /\ o \in Orders
      /\ orders[o] \in OrderRow /\ orders'[o] \in OrderRow
      /\ orders[o].status = "PLACED" /\ orders'[o].status # "PLACED"
      /\ orders'[o].user = orders[o].user
      /\ orders'[o].coupon = orders[o].coupon
      /\ \A p \in Orders \ {o} : orders'[p] = orders[p]
  BY <1>1 DEF Cancels, TypeInv, TypeOK
<1>3. entries[o] # None /\ entries[o].live
  BY <1>2, EntryFields, Zenon DEF entries
<1>4. entries' = [entries EXCEPT ![o].live = FALSE]
  <2>1. EntryOf(orders'[o]) = [EntryOf(orders[o]) EXCEPT !.live = FALSE]
    <3>1. EntryOf(orders'[o]) = [user |-> orders[o].user,
                                 coupon |-> orders[o].coupon, live |-> FALSE]
      BY <1>2, EntryFields
    <3>2. EntryOf(orders[o]) = [user |-> orders[o].user,
                                coupon |-> orders[o].coupon, live |-> TRUE]
      BY <1>2, EntryFields
    <3>3. [EntryOf(orders[o]) EXCEPT !.live = FALSE]
            = [user |-> orders[o].user, coupon |-> orders[o].coupon,
               live |-> FALSE]
      <4> DEFINE open   == TRUE
                 closed == FALSE
      <4>1. EntryOf(orders[o]) = [user |-> orders[o].user,
                                  coupon |-> orders[o].coupon, live |-> open]
        BY <3>2
      <4> HIDE DEF open, closed
      <4>2. [EntryOf(orders[o]) EXCEPT !.live = closed]
              = [user |-> orders[o].user, coupon |-> orders[o].coupon,
                 live |-> closed]
        BY <4>1, EntryClosed
      <4> QED
        BY <4>2 DEF closed
    <3> QED
      BY <3>1, <3>3
  <2>2. entries' = [entries EXCEPT ![o] = EntryOf(orders'[o])]
    BY <1>2, OneEntry
  <2>3. entries[o] = EntryOf(orders[o])
    BY <1>2 DEF entries
  <2> QED
    BY <2>1, <2>2, <2>3
<1>5. offers' = offers
  <2>1. \A d \in Codes : coupons'[d] = coupons[d] \/
          /\ coupons[d] # None /\ coupons'[d] # None
          /\ coupons'[d].type = coupons[d].type
          /\ coupons'[d].max_redemptions = coupons[d].max_redemptions
    BY NoneAssumption DEF Cancels
  <2> QED
    BY <1>1, <2>1, OffersStay
<1> QED
  BY <1>3, <1>4, <1>5 DEF Ledger!Cancel, entries, offers

-----------------------------------------------------------------------------
\* The seeded tables show a ledger of live orders without coupons.
LEMMA LedgerInit == Init => Ledger!Init
<1> SUFFICES ASSUME Init PROVE Ledger!Init
  OBVIOUS
<1>1. TypeInv
  BY TypeInit
<1>2. users \subseteq Customers
  BY <1>1 DEF TypeInv, TypeOK
<1>3. ASSUME NEW o \in Orders, entries[o] # None
      PROVE  /\ entries[o] \in Ledger!Entry
             /\ entries[o].live /\ entries[o].coupon = None
  <2>1. orders[o] \in OrderRow /\ entries[o] = EntryOf(orders[o])
    BY <1>1, <1>3, NoneShown DEF TypeInv, TypeOK, entries
  <2>2. orders[o].status = "PLACED" /\ orders[o].coupon = None
    BY <2>1, NoneAssumption DEF Init, NewOrder
  <2> QED
    BY <2>1, <2>2, EntryFields, Zenon
<1>4. ASSUME NEW c \in Codes, offers[c] # None
      PROVE  offers[c] \in Ledger!Terms
  BY <1>1, <1>4, NoneShown, TermsFields DEF TypeInv, TypeOK, offers
<1> QED
  BY <1>2, <1>3, <1>4 DEF Ledger!Init, entries, offers

\* Every step of the service is an operation of the ledger, or none.
LEMMA LedgerStep ==
  AnswerInv /\ [Next]_vars => [Ledger!Next]_<<users, entries, offers>>
<1> SUFFICES ASSUME AnswerInv, [Next]_vars,
                    ~UNCHANGED <<users, entries, offers>>
             PROVE  Ledger!Next
  OBVIOUS
<1>1. IInv /\ HeldInv /\ TypeInv /\ IInv'
  BY SafeStep DEF AnswerInv, IInv, HeldInv
<1>2. ~UNCHANGED tables
  BY DEF tables, entries, offers
<1>3. PICK w \in Workers : WorkerStep(w)
  BY <1>2, NextSteps DEF Tick, vars
<1>4. Writes(w)
  BY <1>1, <1>3, StepWrites
<1>5. CASE UserAdded(w)
  BY <1>5, LedgerRegisters DEF UserAdded, Ledger!Next
<1>6. CASE CouponAdded(w)
  BY <1>1, <1>6, LedgerIssues DEF CouponAdded, Ledger!Next
<1>7. CASE OrderAdded(w)
  BY <1>7, LedgerPlaces DEF OrderAdded, Ledger!Next
<1>8. CASE Written(w) /\ req[w].op = "redeem"
  <2>1. Redeems(w)
    BY <1>8 DEF Written
  <2> QED
    BY <1>1, <1>8, <2>1, LedgerRedeems DEF Redeems, Ledger!Next
<1>9. CASE Written(w) /\ Cancels(w)
  BY <1>1, <1>9, LedgerCancels DEF Written, Cancels, Ledger!Next
<1> QED
  BY <1>2, <1>4, <1>5, <1>6, <1>7, <1>8, <1>9 DEF Writes, Written

\* The service implements the ledger: whatever its workers interleave, what
\* the tables show could have been made by indivisible redemptions,
\* cancellations and creations, one after another.
THEOREM LedgerImplemented == Spec => ImplementsLedger
<1>1. Init => Ledger!Init
  BY LedgerInit
<1>2. AnswerInv /\ [Next]_vars => [Ledger!Next]_<<users, entries, offers>>
  BY LedgerStep
<1> QED
  BY <1>1, <1>2, AnswersCorrect, PTL
     DEF Spec, ImplementsLedger, Ledger!Spec, entries, offers
=============================================================================
