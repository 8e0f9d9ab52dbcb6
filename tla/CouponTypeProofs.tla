-------------------------- MODULE CouponTypeProofs --------------------------
(***************************************************************************)
(* Type correctness of the service, for any workers, requests and tables:  *)
(* TypeInv is inductive, one lemma per action.                             *)
(***************************************************************************)
EXTENDS CouponInvariant, TLAPS

\* A request has the fields its handler reads.
LEMMA RequestFields ==
  ASSUME NEW r \in Requests
  PROVE  /\ r # None
         /\ r.op \in {"redeem", "cancel", "query", "create_user",
                      "create_coupon", "create_order"}
         /\ r.op \in {"redeem", "cancel", "create_order"} => r.order \in Orders
         /\ r.op \in {"redeem", "query", "create_coupon"} => r.code \in Codes
         /\ r.op \in {"redeem", "create_user", "create_order"} =>
              r.customer \in Customers
         /\ r.op = "create_coupon" =>
              /\ r.row \in CouponRow
              /\ r.row.code = r.code
              /\ r.row.redeemed_count = 0
BY RequestsAssumption, WorkersAssumption
   DEF Request, RedeemRequest, CancelRequest, QueryRequest, UserRequest,
       CouponRequest, OrderRequest

\* Answers are well formed.
LEMMA ErrorType ==
  ASSUME NEW reason \in Reason
  PROVE  Error(reason) \in Answer
BY DEF Error, Answer

\* So is a success that reports a number of slots or none.
LEMMA SuccessType ==
  ASSUME NEW left \in Int \cup {None}, NEW replay \in BOOLEAN
  PROVE  Success(left, replay) \in Answer
BY DEF Success, Answer, Reason

\* The slots left are a number.
LEMMA RemainingType ==
  ASSUME NEW row \in CouponRow \cup CouponInstance
  PROVE  remaining(row) \in Int
BY DEF remaining, CouponRow, CouponInstance

\* Every type of coupon has two or three rules.
LEMMA RuleCount ==
  ASSUME NEW type \in CouponType
  PROVE  Len(for_type(type)) \in 2 .. 3
BY DEF for_type, CouponType

-----------------------------------------------------------------------------
\* A step of worker w leaves the other workers where they are.
Others(w) ==
  \A v \in Workers \ {w} :
    /\ pc'[v] = pc[v]
    /\ req'[v] = req[v]
    /\ order'[v] = order[v]
    /\ coupon'[v] = coupon[v]
    /\ rule'[v] = rule[v]
    /\ saved'[v] = saved[v]
    /\ resp'[v] = resp[v]

\* No row is deleted.
RowsStay ==
  /\ \A o \in Orders : orders[o] # None => orders'[o] # None
  /\ \A c \in Codes : coupons[c] # None => coupons'[c] # None

\* For the workers that do not move, TypeInv rests on rows not going away.
LEMMA OthersType ==
  ASSUME TypeInv, NEW w \in Workers, Others(w), RowsStay,
         TypeOK', ControlOK(w)', InstancesOK(w)'
  PROVE  TypeInv'
<1> SUFFICES ASSUME NEW v \in Workers \ {w}
             PROVE  ControlOK(v)' /\ InstancesOK(v)'
  BY DEF TypeInv
<1>1. /\ pc'[v] = pc[v] /\ req'[v] = req[v] /\ order'[v] = order[v]
      /\ coupon'[v] = coupon[v] /\ rule'[v] = rule[v] /\ saved'[v] = saved[v]
  BY DEF Others
<1>2. ControlOK(v) /\ InstancesOK(v)
  BY DEF TypeInv
<1>3. ControlOK(v)'
  BY <1>1, <1>2 DEF ControlOK
<1>4. pc[v] \in Guarded => orders'[req[v].order] # None
  <2> SUFFICES ASSUME pc[v] \in Guarded PROVE orders'[req[v].order] # None
    OBVIOUS
  <2>1. req[v] \in Requests /\ req[v].op \in {"redeem", "cancel"}
    BY <1>2 DEF ControlOK, Serves, TypeInv, TypeOK, Guarded, Writing
  <2>2. req[v].order \in Orders
    BY <2>1, RequestFields
  <2> QED
    BY <1>2, <2>2 DEF InstancesOK, RowsStay
<1>5. coupon[v] # None /\ coupons[coupon[v].code] # None
        => coupons'[coupon[v].code] # None
  BY DEF TypeInv, TypeOK, CouponInstance, RowsStay
<1>6. InstancesOK(v)'
  BY <1>1, <1>2, <1>4, <1>5 DEF InstancesOK
<1> QED
  BY <1>3, <1>6

-----------------------------------------------------------------------------
\* The service starts in a state that TypeInv allows.
THEOREM TypeInit == Init => TypeInv
<1> SUFFICES ASSUME Init PROVE TypeInv
  OBVIOUS
<1>1. TypeOK
  BY SeedAssumption, TimeAssumption
     DEF Init, TypeOK, NewOrder, OrderRow, OrderStatus, Labels
<1>2. \A w \in Workers : ControlOK(w) /\ InstancesOK(w)
  BY DEF Init, ControlOK, InstancesOK, Guarded, Writing
<1> QED
  BY <1>1, <1>2 DEF TypeInv

-----------------------------------------------------------------------------
\* A request taken up puts its worker at the handler's first statement.
LEMMA TypeReceive ==
  ASSUME TypeInv, NEW w \in Workers, NEW r \in Requests, Receive(w, r)
  PROVE  TypeInv'
<1>1. /\ pc' = [pc EXCEPT ![w] = FirstStatement[r.op]]
      /\ req' = [req EXCEPT ![w] = r]
      /\ arrived' = [arrived EXCEPT ![w] = now]
      /\ UNCHANGED <<users, orders, coupons, orderLock, couponLock, now, order,
                     coupon, rule, saved, resp>>
  BY DEF Receive, Goto, tables, locks, instance
<1>2. /\ FirstStatement[r.op] \in Labels \ {"idle"}
      /\ FirstStatement[r.op] \notin Guarded
      /\ Serves(r.op, FirstStatement[r.op])
  BY RequestFields DEF FirstStatement, Labels, Guarded, Writing, Serves
<1>3. TypeOK'
  BY <1>1, <1>2 DEF TypeInv, TypeOK
<1>4. Others(w) /\ RowsStay
  BY <1>1 DEF Others, RowsStay, TypeInv, TypeOK
<1>5. ControlOK(w)'
  BY <1>1, <1>2, RequestFields DEF ControlOK, TypeInv, TypeOK
<1>6. pc'[w] = FirstStatement[r.op] /\ saved'[w] = {} /\ rule'[w] = 1
  BY <1>1 DEF TypeInv, TypeOK, InstancesOK, Receive
<1>7. InstancesOK(w)'
  BY <1>2, <1>6 DEF InstancesOK, Guarded, Writing
<1> QED
  BY <1>3, <1>4, <1>5, <1>7, OthersType

\* An answered request leaves an idle worker with nothing in memory.
LEMMA TypeRespond ==
  ASSUME TypeInv, NEW w \in Workers, Respond(w)
  PROVE  TypeInv'
<1>1. /\ pc' = [pc EXCEPT ![w] = "idle"]
      /\ req' = [req EXCEPT ![w] = None]
      /\ arrived' = [arrived EXCEPT ![w] = 0]
      /\ resp' = [resp EXCEPT ![w] = None]
      /\ UNCHANGED <<users, orders, coupons, orderLock, couponLock, now, order,
                     coupon, rule, saved>>
  BY DEF Respond, Clear, Goto, tables, locks, instance
<1>2. TypeOK'
  BY <1>1, TimeAssumption DEF TypeInv, TypeOK, Labels
<1>3. Others(w) /\ RowsStay
  BY <1>1 DEF Others, RowsStay, TypeInv, TypeOK
<1>4. pc'[w] = "idle" /\ req'[w] = None /\ saved'[w] = {} /\ rule'[w] = 1
  BY <1>1 DEF TypeInv, TypeOK, InstancesOK, Respond
<1>5. ControlOK(w)' /\ InstancesOK(w)'
  BY <1>4 DEF ControlOK, InstancesOK, Guarded, Writing
<1> QED
  BY <1>2, <1>3, <1>5, OthersType

\* What the end of a transaction does to the worker and its locks.
LEMMA EndType ==
  ASSUME TypeInv, NEW w \in Workers, ReleaseLocks(w), Forget(w)
  PROVE  /\ orderLock' \in [Orders -> Workers \cup {None}]
         /\ couponLock' \in [Codes -> Workers \cup {None}]
         /\ order' \in [Workers -> OrderRow \cup {None}]
         /\ coupon' \in [Workers -> CouponInstance \cup {None}]
         /\ rule' \in [Workers -> 1 .. 3]
         /\ saved' \in [Workers -> SUBSET Columns]
         /\ saved'[w] = {} /\ rule'[w] = 1
         /\ \A v \in Workers \ {w} :
              /\ order'[v] = order[v]
              /\ coupon'[v] = coupon[v]
              /\ rule'[v] = rule[v]
              /\ saved'[v] = saved[v]
<1>1. orderLock' \in [Orders -> Workers \cup {None}]
  BY DEF ReleaseLocks, TypeInv, TypeOK
<1>2. couponLock' \in [Codes -> Workers \cup {None}]
  BY DEF ReleaseLocks, TypeInv, TypeOK
<1> QED
  BY <1>1, <1>2 DEF Forget, TypeInv, TypeOK

\* A rollback changes no table.
LEMMA TypeRollback ==
  ASSUME TypeInv, NEW w \in Workers, Rollback(w)
  PROVE  TypeInv'
<1>1. /\ pc' = [pc EXCEPT ![w] = "respond"]
      /\ UNCHANGED <<users, orders, coupons, now, req, arrived, resp>>
      /\ ReleaseLocks(w) /\ Forget(w)
  BY DEF Rollback, Goto, tables, client
<1>2. TypeOK'
  BY <1>1, EndType DEF TypeInv, TypeOK, Labels
<1>3. Others(w) /\ RowsStay
  BY <1>1, EndType DEF Others, RowsStay, TypeInv, TypeOK
<1>4. pc'[w] = "respond" /\ req'[w] # None /\ saved'[w] = {} /\ rule'[w] = 1
  BY <1>1, EndType DEF TypeInv, TypeOK, ControlOK, Rollback
<1>5. ControlOK(w)' /\ InstancesOK(w)'
  BY <1>4 DEF ControlOK, InstancesOK, Guarded, Writing, Serves
<1> QED
  BY <1>2, <1>3, <1>5, OthersType

\* A crash changes no table either.
LEMMA TypeCrash ==
  ASSUME TypeInv, NEW w \in Workers, Crash(w)
  PROVE  TypeInv'
<1>1. /\ pc' = [pc EXCEPT ![w] = "idle"]
      /\ req' = [req EXCEPT ![w] = None]
      /\ arrived' = [arrived EXCEPT ![w] = 0]
      /\ resp' = [resp EXCEPT ![w] = None]
      /\ UNCHANGED <<users, orders, coupons, now>>
      /\ ReleaseLocks(w) /\ Forget(w)
  BY DEF Crash, Clear, Goto, tables
<1>2. TypeOK'
  BY <1>1, EndType, TimeAssumption DEF TypeInv, TypeOK, Labels
<1>3. Others(w) /\ RowsStay
  BY <1>1, EndType DEF Others, RowsStay, TypeInv, TypeOK
<1>4. pc'[w] = "idle" /\ req'[w] = None /\ saved'[w] = {} /\ rule'[w] = 1
  BY <1>1, EndType DEF TypeInv, TypeOK
<1>5. ControlOK(w)' /\ InstancesOK(w)'
  BY <1>4 DEF ControlOK, InstancesOK, Guarded, Writing
<1> QED
  BY <1>2, <1>3, <1>5, OthersType

\* The clock stays within the bound of the model.
LEMMA TypeTick == ASSUME TypeInv, Tick PROVE TypeInv'
<1>1. /\ now' \in 0 .. MaxTime
      /\ UNCHANGED <<users, orders, coupons, orderLock, couponLock, pc, req,
                     arrived, order, coupon, rule, saved, resp>>
  BY TimeAssumption
     DEF Tick, tables, locks, client, instance, TypeInv, TypeOK
<1> QED
  BY <1>1 DEF TypeInv, TypeOK, ControlOK, InstancesOK

\* A redemption reads its order, and goes on only if the row is there.
LEMMA TypeRedeemLockOrder ==
  ASSUME TypeInv, NEW w \in Workers, RedeemLockOrder(w)
  PROVE  TypeInv'
<1> DEFINE row == orders[req[w].order]
<1>1. /\ pc[w] = "lockOrder" /\ req[w].op = "redeem" /\ req[w] \in Requests
      /\ ControlOK(w) /\ InstancesOK(w)
  BY DEF RedeemLockOrder, At, TypeInv, TypeOK, ControlOK
<1>2. req[w].order \in Orders /\ row \in OrderRow \cup {None}
  BY <1>1, RequestFields DEF TypeInv, TypeOK
<1>3. \/ \E reason \in Reason :
           /\ pc' = [pc EXCEPT ![w] = "rollback"]
           /\ resp' = [resp EXCEPT ![w] = Error(reason)]
      \/ /\ row # None
         /\ \/ pc' = [pc EXCEPT ![w] = "lockCoupon"]
            \/ row.coupon # None /\ pc' = [pc EXCEPT ![w] = "lockAttached"]
         /\ resp' = resp
  BY DEF RedeemLockOrder, Raise, Goto, Reason
<1>4. /\ order' = [order EXCEPT ![w] = row]
      /\ orderLock' \in {orderLock, [orderLock EXCEPT ![req[w].order] = w]}
      /\ UNCHANGED <<users, orders, coupons, couponLock, now, req, arrived,
                     coupon, rule, saved>>
  BY DEF RedeemLockOrder, LockOrder, tables, client
<1>5. TypeOK'
  <2>1. pc' \in [Workers -> Labels]
    BY <1>3 DEF TypeInv, TypeOK, Labels
  <2>2. resp' \in [Workers -> Answer \cup {None}]
    BY <1>3, ErrorType DEF TypeInv, TypeOK
  <2>3. /\ order' \in [Workers -> OrderRow \cup {None}]
        /\ orderLock' \in [Orders -> Workers \cup {None}]
    BY <1>2, <1>4 DEF TypeInv, TypeOK
  <2> QED
    BY <1>4, <2>1, <2>2, <2>3 DEF TypeInv, TypeOK
<1>6. Others(w) /\ RowsStay
  BY <1>3, <1>4 DEF Others, RowsStay, TypeInv, TypeOK
<1>7. /\ pc'[w] \in {"rollback", "lockCoupon", "lockAttached"}
      /\ pc'[w] # "rollback" => row # None
      /\ pc'[w] = "lockAttached" => row.coupon # None
      /\ order'[w] = row
      /\ saved'[w] = {} /\ rule'[w] = 1
  BY <1>1, <1>3, <1>4 DEF TypeInv, TypeOK, InstancesOK
<1>8. ControlOK(w)'
  BY <1>1, <1>4, <1>7 DEF ControlOK, Serves
<1>9. InstancesOK(w)'
  BY <1>4, <1>7 DEF InstancesOK, Guarded, Writing
<1> QED
  BY <1>5, <1>6, <1>8, <1>9, OthersType

\* A replay reads the coupon attached to the order.
LEMMA TypeRedeemReplay ==
  ASSUME TypeInv, NEW w \in Workers, RedeemReplay(w)
  PROVE  TypeInv'
<1> DEFINE row == coupons[order[w].coupon]
<1>1. /\ pc[w] = "lockAttached" /\ req[w].op = "redeem" /\ req[w] \in Requests
      /\ ControlOK(w) /\ InstancesOK(w)
  BY DEF RedeemReplay, At, TypeInv, TypeOK, ControlOK
<1>2. order[w] \in OrderRow /\ order[w].coupon \in Codes
  BY <1>1 DEF InstancesOK, TypeInv, TypeOK, Guarded, OrderRow
<1>3. row \in CouponRow \cup {None}
  BY <1>2 DEF TypeInv, TypeOK
<1>4. \/ /\ pc' = [pc EXCEPT ![w] = "rollback"]
         /\ resp' = [resp EXCEPT ![w] = Error("ORDER_ALREADY_HAS_COUPON")]
      \/ /\ row # None
         /\ pc' = [pc EXCEPT ![w] = "commit"]
         /\ resp' = [resp EXCEPT ![w] = Success(remaining(row), TRUE)]
  BY DEF RedeemReplay, Raise, Return, Goto
<1>5. /\ coupon' = [coupon EXCEPT ![w] = row]
      /\ couponLock' \in
           {couponLock, [couponLock EXCEPT ![order[w].coupon] = w]}
      /\ UNCHANGED <<users, orders, coupons, orderLock, now, req, arrived,
                     order, rule, saved>>
  BY DEF RedeemReplay, LockCoupon, tables, client
<1>6. TypeOK'
  <2>1. Error("ORDER_ALREADY_HAS_COUPON") \in Answer
    BY ErrorType DEF Reason
  <2>2. ASSUME row # None PROVE Success(remaining(row), TRUE) \in Answer
    <3>1. remaining(row) \in Int \cup {None}
      BY <1>3, <2>2, RemainingType
    <3> QED
      BY <3>1, SuccessType
  <2>3. pc' \in [Workers -> Labels]
    BY <1>4 DEF TypeInv, TypeOK, Labels
  <2>6. resp' \in [Workers -> Answer \cup {None}]
    BY <1>4, <2>1, <2>2 DEF TypeInv, TypeOK
  <2>4. coupon' \in [Workers -> CouponInstance \cup {None}]
    BY <1>3, <1>5 DEF TypeInv, TypeOK, CouponRow, CouponInstance
  <2>5. couponLock' \in [Codes -> Workers \cup {None}]
    BY <1>2, <1>5 DEF TypeInv, TypeOK
  <2> QED
    BY <1>5, <2>6, <2>3, <2>4, <2>5 DEF TypeInv, TypeOK
<1>7. Others(w) /\ RowsStay
  BY <1>4, <1>5 DEF Others, RowsStay, TypeInv, TypeOK
<1>8. pc'[w] \in {"rollback", "commit"} /\ saved'[w] = {} /\ rule'[w] = 1
  BY <1>1, <1>4, <1>5 DEF TypeInv, TypeOK, InstancesOK
<1>9. ControlOK(w)'
  BY <1>1, <1>5, <1>8 DEF ControlOK, Serves
<1>10. InstancesOK(w)'
  BY <1>1, <1>5, <1>8 DEF InstancesOK, Guarded, Writing
<1> QED
  BY <1>6, <1>7, <1>9, <1>10, OthersType

\* A redemption reads its coupon and starts at the first policy.
LEMMA TypeRedeemLockCoupon ==
  ASSUME TypeInv, NEW w \in Workers, RedeemLockCoupon(w)
  PROVE  TypeInv'
<1> DEFINE row == coupons[req[w].code]
<1>1. /\ pc[w] = "lockCoupon" /\ req[w].op = "redeem" /\ req[w] \in Requests
      /\ ControlOK(w) /\ InstancesOK(w)
  BY DEF RedeemLockCoupon, At, TypeInv, TypeOK, ControlOK
<1>2. req[w].code \in Codes /\ row \in CouponRow \cup {None}
  BY <1>1, RequestFields DEF TypeInv, TypeOK
<1>3. \/ /\ pc' = [pc EXCEPT ![w] = "rollback"]
         /\ resp' = [resp EXCEPT ![w] = Error("COUPON_NOT_FOUND")]
      \/ /\ row # None
         /\ pc' = [pc EXCEPT ![w] = "policies"]
         /\ resp' = resp
  BY DEF RedeemLockCoupon, Raise, Goto
<1>4. /\ coupon' = [coupon EXCEPT ![w] = row]
      /\ couponLock' \in {couponLock, [couponLock EXCEPT ![req[w].code] = w]}
      /\ UNCHANGED <<users, orders, coupons, orderLock, now, req, arrived,
                     order, rule, saved>>
  BY DEF RedeemLockCoupon, LockCoupon, tables, client
<1>5. TypeOK'
  <2>1. pc' \in [Workers -> Labels]
    BY <1>3 DEF TypeInv, TypeOK, Labels
  <2>2. Error("COUPON_NOT_FOUND") \in Answer
    BY ErrorType DEF Reason
  <2>3. resp' \in [Workers -> Answer \cup {None}]
    BY <1>3, <2>2 DEF TypeInv, TypeOK
  <2>4. coupon' \in [Workers -> CouponInstance \cup {None}]
    BY <1>2, <1>4 DEF TypeInv, TypeOK, CouponRow, CouponInstance
  <2>5. couponLock' \in [Codes -> Workers \cup {None}]
    BY <1>2, <1>4 DEF TypeInv, TypeOK
  <2> QED
    BY <1>4, <2>1, <2>3, <2>4, <2>5 DEF TypeInv, TypeOK
<1>6. Others(w) /\ RowsStay
  BY <1>3, <1>4 DEF Others, RowsStay, TypeInv, TypeOK
<1>7. /\ pc'[w] \in {"rollback", "policies"}
      /\ pc'[w] = "policies" => row # None
      /\ coupon'[w] = row
      /\ saved'[w] = {}
  BY <1>1, <1>3, <1>4 DEF TypeInv, TypeOK, InstancesOK
<1>8. ControlOK(w)'
  BY <1>1, <1>4, <1>7 DEF ControlOK, Serves
<1>9. /\ order'[w] # None /\ orders'[req'[w].order] # None
      /\ row # None => row.code = req[w].code /\ row.type \in CouponType
  BY <1>1, <1>2, <1>4 DEF InstancesOK, Guarded, TypeInv, TypeOK, CouponRow
<1>10. pc'[w] = "policies" => rule'[w] <= Len(for_type(coupon'[w].type))
  <2>1. rule'[w] = 1 /\ coupon'[w] = row
    BY <1>1, <1>4, <1>7 DEF InstancesOK
  <2>2. ASSUME row # None PROVE Len(for_type(row.type)) \in 2 .. 3
    BY <1>9, <2>2, RuleCount
  <2> QED
    BY <1>7, <2>1, <2>2
<1>11. InstancesOK(w)'
  BY <1>4, <1>7, <1>9, <1>10 DEF InstancesOK, Guarded, Writing
<1> QED
  BY <1>5, <1>6, <1>8, <1>11, OthersType

\* The policy loop never indexes past the rules of the coupon's type.
LEMMA TypeRedeemEnforcePolicy ==
  ASSUME TypeInv, NEW w \in Workers, RedeemEnforcePolicy(w)
  PROVE  TypeInv'
<1> DEFINE policies == for_type(coupon[w].type)
<1>1. /\ pc[w] = "policies" /\ req[w].op = "redeem"
      /\ ControlOK(w) /\ InstancesOK(w)
  BY DEF RedeemEnforcePolicy, At, TypeInv, TypeOK, ControlOK
<1>2. /\ coupon[w] \in CouponInstance /\ coupon[w].type \in CouponType
      /\ rule[w] \in 1 .. 3 /\ rule[w] <= Len(policies)
  BY <1>1 DEF InstancesOK, TypeInv, TypeOK, CouponInstance
<1>3. PolicyError[policies[rule[w]]] \in Reason
  BY <1>2 DEF for_type, CouponType, PolicyError, Reason
<1>4. \/ /\ \E reason \in Reason : resp' = [resp EXCEPT ![w] = Error(reason)]
         /\ pc' = [pc EXCEPT ![w] = "rollback"] /\ rule' = rule
      \/ /\ rule[w] < Len(policies) /\ rule' = [rule EXCEPT ![w] = @ + 1]
         /\ UNCHANGED <<pc, resp>>
      \/ /\ pc' = [pc EXCEPT ![w] = "saveCount"]
         /\ UNCHANGED <<rule, resp>>
  BY <1>3 DEF RedeemEnforcePolicy, Raise, Goto
<1>5. UNCHANGED <<users, orders, coupons, orderLock, couponLock, now, req,
                  arrived, order, coupon, saved>>
  BY DEF RedeemEnforcePolicy, tables, locks, client
<1>6. TypeOK'
  <2>1. pc' \in [Workers -> Labels]
    BY <1>4 DEF TypeInv, TypeOK, Labels
  <2>2. resp' \in [Workers -> Answer \cup {None}]
    BY <1>4, ErrorType DEF TypeInv, TypeOK
  <2>3. rule' \in [Workers -> 1 .. 3]
    <3>1. Len(policies) \in 2 .. 3
      BY <1>2, RuleCount
    <3>2. \A n \in 1 .. 3, len \in 2 .. 3 : n < len => n + 1 \in 1 .. 3
      OBVIOUS
    <3>3. rule[w] < Len(policies) => rule[w] + 1 \in 1 .. 3
      BY <1>2, <3>1, <3>2
    <3>4. rule \in [Workers -> 1 .. 3]
      BY DEF TypeInv, TypeOK
    <3> QED
      BY <1>4, <3>3, <3>4
  <2> QED
    BY <1>5, <2>1, <2>2, <2>3 DEF TypeInv, TypeOK
<1>7. Others(w) /\ RowsStay
  BY <1>4, <1>5 DEF Others, RowsStay, TypeInv, TypeOK
<1>8. /\ pc'[w] \in {"rollback", "policies", "saveCount"}
      /\ pc'[w] = "policies" => rule'[w] <= Len(policies)
      /\ saved'[w] = {}
  BY <1>1, <1>2, <1>4, <1>5, RuleCount DEF TypeInv, TypeOK, InstancesOK
<1>9. ControlOK(w)'
  BY <1>1, <1>5, <1>8 DEF ControlOK, Serves
<1>10. InstancesOK(w)'
  BY <1>1, <1>5, <1>8 DEF InstancesOK, Guarded, Writing
<1> QED
  BY <1>6, <1>7, <1>9, <1>10, OthersType

\* The counter saved by either service is within the column's constraints.
LEMMA SaveType ==
  ASSUME TypeInv, NEW w \in Workers, NEW count \in Int,
         NEW next \in {"attachCoupon", "markCancelled"},
         pc[w] = "saveCount", Serves(req[w].op, next),
         SaveRedeemedCount(w, count, next),
         UNCHANGED <<tables, locks, now, client, order, rule>>
  PROVE  TypeInv'
<1> DEFINE counted == [coupon[w] EXCEPT !.redeemed_count = count]
<1>1. /\ ControlOK(w) /\ InstancesOK(w) /\ req[w] \in Requests
      /\ coupon[w] \in CouponInstance
      /\ coupon[w].code \in Codes /\ coupons[coupon[w].code] # None
  BY DEF TypeInv, TypeOK, ControlOK, InstancesOK, CouponInstance
<1>2. /\ coupon' = [coupon EXCEPT ![w] = counted]
      /\ counted \in CouponInstance /\ counted.code = coupon[w].code
  BY <1>1 DEF SaveRedeemedCount, CouponInstance
<1>3. \/ /\ RedeemedWithinCap(counted)
         /\ saved' = [saved EXCEPT ![w] = @ \cup {"redeemed_count"}]
         /\ pc' = [pc EXCEPT ![w] = next] /\ resp' = resp
      \/ /\ pc' = [pc EXCEPT ![w] = "rollback"]
         /\ resp' = [resp EXCEPT ![w] = Error("SERVER_ERROR")]
         /\ saved' = saved
  BY DEF SaveRedeemedCount, Raise, Goto
<1>4. UNCHANGED <<users, orders, coupons, orderLock, couponLock, now, req,
                  arrived, order, rule>>
  BY DEF tables, locks, client
<1>5. TypeOK'
  <2>1. pc' \in [Workers -> Labels]
    BY <1>3 DEF TypeInv, TypeOK, Labels
  <2>2. Error("SERVER_ERROR") \in Answer
    BY ErrorType DEF Reason
  <2>3. resp' \in [Workers -> Answer \cup {None}]
    BY <1>3, <2>2 DEF TypeInv, TypeOK
  <2>4. saved' \in [Workers -> SUBSET Columns]
    BY <1>3 DEF TypeInv, TypeOK, Columns
  <2>5. coupon' \in [Workers -> CouponInstance \cup {None}]
    BY <1>2 DEF TypeInv, TypeOK
  <2> QED
    BY <1>4, <2>1, <2>3, <2>4, <2>5 DEF TypeInv, TypeOK
<1>6. Others(w) /\ RowsStay
  BY <1>2, <1>3, <1>4 DEF Others, RowsStay, TypeInv, TypeOK
<1>7. saved[w] = {} /\ coupon'[w] = counted
  BY <1>1, <1>2 DEF InstancesOK, TypeInv, TypeOK
<1>8. \/ /\ pc'[w] = next
         /\ RedeemedWithinCap(counted)
      \/ /\ pc'[w] = "rollback"
         /\ saved'[w] = {}
  BY <1>3, <1>7 DEF TypeInv, TypeOK
<1>9. ControlOK(w)'
  BY <1>1, <1>4, <1>8 DEF ControlOK, Serves
<1>10. /\ order'[w] # None /\ orders'[req'[w].order] # None
       /\ coupon'[w] # None /\ coupons'[coupon'[w].code] # None
  <2>1. order'[w] # None /\ orders'[req'[w].order] # None
    BY <1>1, <1>4 DEF InstancesOK, Guarded, Writing
  <2>2. coupon'[w] # None /\ coupons'[coupon'[w].code] # None
    BY <1>1, <1>2, <1>4, <1>7, NoneAssumption
  <2> QED
    BY <2>1, <2>2
<1>11. InstancesOK(w)'
  BY <1>7, <1>8, <1>10 DEF InstancesOK, Guarded, Writing
<1> QED
  BY <1>5, <1>6, <1>9, <1>11, OthersType

\* A redemption adds one to the counter of its coupon.
LEMMA TypeRedeemSaveCount ==
  ASSUME TypeInv, NEW w \in Workers, RedeemSaveCount(w)
  PROVE  TypeInv'
<1>1. /\ pc[w] = "saveCount" /\ req[w].op = "redeem"
      /\ SaveRedeemedCount(w, coupon[w].redeemed_count + 1, "attachCoupon")
      /\ UNCHANGED <<tables, locks, now, client, order, rule>>
  BY DEF RedeemSaveCount, At
<1>2. coupon[w].redeemed_count + 1 \in Int
  BY <1>1 DEF TypeInv, TypeOK, InstancesOK, CouponInstance
<1>3. Serves(req[w].op, "attachCoupon")
  BY <1>1 DEF Serves
<1> QED
  BY <1>1, <1>2, <1>3, SaveType

\* A cancellation takes one off it.
LEMMA TypeCancelSaveCount ==
  ASSUME TypeInv, NEW w \in Workers, CancelSaveCount(w)
  PROVE  TypeInv'
<1>1. /\ pc[w] = "saveCount" /\ req[w].op = "cancel"
      /\ SaveRedeemedCount(w, coupon[w].redeemed_count - 1, "markCancelled")
      /\ UNCHANGED <<tables, locks, now, client, order, rule>>
  BY DEF CancelSaveCount, At
<1>2. coupon[w].redeemed_count - 1 \in Int
  BY <1>1 DEF TypeInv, TypeOK, InstancesOK, CouponInstance
<1>3. Serves(req[w].op, "markCancelled")
  BY <1>1 DEF Serves
<1> QED
  BY <1>1, <1>2, <1>3, SaveType

\* Attaching writes the coupon's code and kind to the order in memory.
LEMMA TypeRedeemAttachCoupon ==
  ASSUME TypeInv, NEW w \in Workers, RedeemAttachCoupon(w)
  PROVE  TypeInv'
<1>1. /\ pc[w] = "attachCoupon" /\ req[w].op = "redeem"
      /\ ControlOK(w) /\ InstancesOK(w) /\ req[w] \in Requests
      /\ order[w] \in OrderRow /\ coupon[w] \in CouponInstance
      /\ orders[req[w].order] # None
  BY DEF RedeemAttachCoupon, At, TypeInv, TypeOK, ControlOK, InstancesOK,
         Guarded, Writing
<1>2. Attached(w) \in OrderRow
  BY <1>1 DEF Attached, OrderRow, CouponInstance
<1>3. \/ /\ pc' = [pc EXCEPT ![w] = "rollback"]
         /\ resp' = [resp EXCEPT ![w] = Error("CUSTOMER_ALREADY_REDEEMED")]
         /\ saved' = saved
      \/ /\ pc' = [pc EXCEPT ![w] = "commit"]
         /\ resp' = [resp EXCEPT ![w] = Success(remaining(coupon[w]), FALSE)]
         /\ saved' = [saved EXCEPT ![w] = @ \cup {"coupon", "is_single_use"}]
  BY DEF RedeemAttachCoupon, Raise, Return, Goto
<1>4. /\ order' = [order EXCEPT ![w] = Attached(w)]
      /\ UNCHANGED <<users, orders, coupons, orderLock, couponLock, now, req,
                     arrived, coupon, rule>>
  BY DEF RedeemAttachCoupon, tables, locks, client
<1>5. TypeOK'
  <2>1. pc' \in [Workers -> Labels]
    BY <1>3 DEF TypeInv, TypeOK, Labels
  <2>2. Error("CUSTOMER_ALREADY_REDEEMED") \in Answer
    BY ErrorType DEF Reason
  <2>3. Success(remaining(coupon[w]), FALSE) \in Answer
    <3>1. remaining(coupon[w]) \in Int \cup {None}
      BY <1>1, RemainingType
    <3> QED
      BY <3>1, SuccessType
  <2>4. resp' \in [Workers -> Answer \cup {None}]
    BY <1>3, <2>2, <2>3 DEF TypeInv, TypeOK
  <2>5. saved' \in [Workers -> SUBSET Columns]
    <3>1. /\ saved \in [Workers -> SUBSET Columns]
          /\ {"coupon", "is_single_use"} \subseteq Columns
      BY DEF TypeInv, TypeOK, Columns
    <3>2. saved[w] \cup {"coupon", "is_single_use"} \in SUBSET Columns
      BY <3>1
    <3> QED
      BY <1>3, <3>1, <3>2
  <2>6. order' \in [Workers -> OrderRow \cup {None}]
    BY <1>2, <1>4 DEF TypeInv, TypeOK
  <2> QED
    BY <1>4, <2>1, <2>4, <2>5, <2>6 DEF TypeInv, TypeOK
<1>6. Others(w) /\ RowsStay
  BY <1>3, <1>4 DEF Others, RowsStay, TypeInv, TypeOK
<1>7. /\ pc'[w] \in {"rollback", "commit"}
      /\ order'[w] = Attached(w)
      /\ "redeemed_count" \in saved'[w] => "redeemed_count" \in saved[w]
  <2>1. pc'[w] \in {"rollback", "commit"} /\ order'[w] = Attached(w)
    BY <1>3, <1>4 DEF TypeInv, TypeOK
  <2>2. saved'[w] \in {saved[w], saved[w] \cup {"coupon", "is_single_use"}}
    BY <1>3 DEF TypeInv, TypeOK
  <2> QED
    BY <2>1, <2>2
<1>8. ControlOK(w)'
  BY <1>1, <1>4, <1>7 DEF ControlOK, Serves
<1>9. order'[w] # None
  BY <1>2, <1>7, NoneAssumption
<1>10. InstancesOK(w)'
  BY <1>1, <1>4, <1>7, <1>9 DEF InstancesOK, Guarded, Writing
<1> QED
  BY <1>5, <1>6, <1>8, <1>10, OthersType

\* A cancellation reads its order, and goes on by what it carries.
LEMMA TypeCancelLockOrder ==
  ASSUME TypeInv, NEW w \in Workers, CancelLockOrder(w)
  PROVE  TypeInv'
<1> DEFINE row == orders[req[w].order]
<1>1. /\ pc[w] = "lockOrder" /\ req[w].op = "cancel" /\ req[w] \in Requests
      /\ ControlOK(w) /\ InstancesOK(w)
  BY DEF CancelLockOrder, At, TypeInv, TypeOK, ControlOK
<1>2. req[w].order \in Orders /\ row \in OrderRow \cup {None}
  BY <1>1, RequestFields DEF TypeInv, TypeOK
<1>3. \/ /\ pc' = [pc EXCEPT ![w] = "rollback"]
         /\ resp' = [resp EXCEPT ![w] = Error("ORDER_NOT_FOUND")]
      \/ /\ row # None /\ row.coupon # None
         /\ pc' = [pc EXCEPT ![w] = "lockAttached"] /\ resp' = resp
      \/ /\ row # None
         /\ pc' = [pc EXCEPT ![w] = "markCancelled"] /\ resp' = resp
      \/ /\ row # None
         /\ pc' = [pc EXCEPT ![w] = "commit"]
         /\ resp' = [resp EXCEPT ![w] = Success(None, TRUE)]
  BY DEF CancelLockOrder, Raise, Return, Goto
<1>4. /\ order' = [order EXCEPT ![w] = row]
      /\ orderLock' \in {orderLock, [orderLock EXCEPT ![req[w].order] = w]}
      /\ UNCHANGED <<users, orders, coupons, couponLock, now, req, arrived,
                     coupon, rule, saved>>
  BY DEF CancelLockOrder, LockOrder, tables, client
<1>5. TypeOK'
  <2>1. pc' \in [Workers -> Labels]
    BY <1>3 DEF TypeInv, TypeOK, Labels
  <2>2. Error("ORDER_NOT_FOUND") \in Answer
    BY ErrorType DEF Reason
  <2>3. Success(None, TRUE) \in Answer
    BY SuccessType
  <2>4. resp' \in [Workers -> Answer \cup {None}]
    BY <1>3, <2>2, <2>3 DEF TypeInv, TypeOK
  <2>5. /\ order' \in [Workers -> OrderRow \cup {None}]
        /\ orderLock' \in [Orders -> Workers \cup {None}]
    BY <1>2, <1>4 DEF TypeInv, TypeOK
  <2> QED
    BY <1>4, <2>1, <2>4, <2>5 DEF TypeInv, TypeOK
<1>6. Others(w) /\ RowsStay
  BY <1>3, <1>4 DEF Others, RowsStay, TypeInv, TypeOK
<1>7. /\ pc'[w] \in {"rollback", "lockAttached", "markCancelled", "commit"}
      /\ pc'[w] # "rollback" => row # None
      /\ pc'[w] = "lockAttached" => row.coupon # None
      /\ order'[w] = row
      /\ saved'[w] = {} /\ rule'[w] = 1
  BY <1>1, <1>3, <1>4 DEF TypeInv, TypeOK, InstancesOK
<1>8. ControlOK(w)'
  BY <1>1, <1>4, <1>7 DEF ControlOK, Serves
<1>9. InstancesOK(w)'
  BY <1>4, <1>7 DEF InstancesOK, Guarded, Writing
<1> QED
  BY <1>5, <1>6, <1>8, <1>9, OthersType

\* A cancellation locks the attached coupon.
LEMMA TypeCancelLockCoupon ==
  ASSUME TypeInv, NEW w \in Workers, CancelLockCoupon(w)
  PROVE  TypeInv'
<1> DEFINE row == coupons[order[w].coupon]
<1>1. /\ pc[w] = "lockAttached" /\ req[w].op = "cancel" /\ req[w] \in Requests
      /\ ControlOK(w) /\ InstancesOK(w)
  BY DEF CancelLockCoupon, At, TypeInv, TypeOK, ControlOK
<1>2. order[w] \in OrderRow /\ order[w].coupon \in Codes
  BY <1>1 DEF InstancesOK, TypeInv, TypeOK, Guarded, OrderRow
<1>3. row \in CouponRow \cup {None} /\ (row # None => row.code \in Codes)
  BY <1>2 DEF TypeInv, TypeOK, CouponRow
<1>4. \/ /\ pc' = [pc EXCEPT ![w] = "commit"]
         /\ resp' = [resp EXCEPT ![w] = Success(RemainingOf(row), TRUE)]
      \/ /\ pc' = [pc EXCEPT ![w] = "rollback"]
         /\ resp' = [resp EXCEPT ![w] = Error("COUPON_NOT_FOUND")]
      \/ /\ row # None
         /\ pc' = [pc EXCEPT ![w] = "saveCount"] /\ resp' = resp
  BY DEF CancelLockCoupon, Raise, Return, Goto
<1>5. /\ coupon' = [coupon EXCEPT ![w] = row]
      /\ couponLock' \in
           {couponLock, [couponLock EXCEPT ![order[w].coupon] = w]}
      /\ UNCHANGED <<users, orders, coupons, orderLock, now, req, arrived,
                     order, rule, saved>>
  BY DEF CancelLockCoupon, LockCoupon, tables, client
<1>6. TypeOK'
  <2>1. Error("COUPON_NOT_FOUND") \in Answer
    BY ErrorType DEF Reason
  <2>2. Success(RemainingOf(row), TRUE) \in Answer
    <3>1. row # None => remaining(row) \in Int
      BY <1>3, RemainingType
    <3>2. RemainingOf(row) \in Int \cup {None}
      BY <3>1 DEF RemainingOf
    <3> QED
      BY <3>2, SuccessType
  <2>3. pc' \in [Workers -> Labels]
    BY <1>4 DEF TypeInv, TypeOK, Labels
  <2>4. resp' \in [Workers -> Answer \cup {None}]
    BY <1>4, <2>1, <2>2 DEF TypeInv, TypeOK
  <2>5. coupon' \in [Workers -> CouponInstance \cup {None}]
    BY <1>3, <1>5 DEF TypeInv, TypeOK, CouponRow, CouponInstance
  <2>6. couponLock' \in [Codes -> Workers \cup {None}]
    BY <1>2, <1>5 DEF TypeInv, TypeOK
  <2> QED
    BY <1>5, <2>3, <2>4, <2>5, <2>6 DEF TypeInv, TypeOK
<1>7. Others(w) /\ RowsStay
  BY <1>4, <1>5 DEF Others, RowsStay, TypeInv, TypeOK
<1>8. /\ pc'[w] \in {"rollback", "commit", "saveCount"}
      /\ pc'[w] = "saveCount" => row # None
      /\ coupon'[w] = row /\ saved'[w] = {}
  BY <1>1, <1>4, <1>5 DEF TypeInv, TypeOK, InstancesOK
<1>9. ControlOK(w)'
  BY <1>1, <1>5, <1>8 DEF ControlOK, Serves
<1>10. row # None => coupons[row.code] # None
  BY <1>2 DEF TypeInv, TypeOK
<1>11. InstancesOK(w)'
  BY <1>1, <1>5, <1>8, <1>10 DEF InstancesOK, Guarded, Writing
<1> QED
  BY <1>6, <1>7, <1>9, <1>11, OthersType

\* Marking the order cancelled, in memory.
LEMMA TypeCancelMarkCancelled ==
  ASSUME TypeInv, NEW w \in Workers, CancelMarkCancelled(w)
  PROVE  TypeInv'
<1>1. /\ pc[w] = "markCancelled" /\ req[w].op = "cancel"
      /\ ControlOK(w) /\ InstancesOK(w) /\ req[w] \in Requests
      /\ order[w] \in OrderRow /\ coupon[w] \in CouponInstance \cup {None}
      /\ orders[req[w].order] # None
  BY DEF CancelMarkCancelled, At, TypeInv, TypeOK, ControlOK, InstancesOK,
         Guarded, Writing
<1> DEFINE marked == [order[w] EXCEPT !.status = "CANCELLED"]
<1>2. marked \in OrderRow
  BY <1>1 DEF OrderRow, OrderStatus
<1>3. /\ pc' = [pc EXCEPT ![w] = "commit"]
      /\ resp' = [resp EXCEPT ![w] = Success(RemainingOf(coupon[w]), FALSE)]
      /\ saved' = [saved EXCEPT ![w] = @ \cup {"status"}]
      /\ order' = [order EXCEPT ![w] = marked]
      /\ UNCHANGED <<users, orders, coupons, orderLock, couponLock, now, req,
                     arrived, coupon, rule>>
  BY DEF CancelMarkCancelled, Return, Goto, tables, locks, client
<1>4. TypeOK'
  <2>1. Success(RemainingOf(coupon[w]), FALSE) \in Answer
    <3>1. coupon[w] # None => remaining(coupon[w]) \in Int
      BY <1>1, RemainingType
    <3>2. RemainingOf(coupon[w]) \in Int \cup {None}
      BY <3>1 DEF RemainingOf
    <3> QED
      BY <3>2, SuccessType
  <2>2. resp' \in [Workers -> Answer \cup {None}]
    BY <1>3, <2>1 DEF TypeInv, TypeOK
  <2>3. saved' \in [Workers -> SUBSET Columns]
    BY <1>3 DEF TypeInv, TypeOK, Columns
  <2>4. order' \in [Workers -> OrderRow \cup {None}]
    BY <1>2, <1>3 DEF TypeInv, TypeOK
  <2>5. pc' \in [Workers -> Labels]
    BY <1>3 DEF TypeInv, TypeOK, Labels
  <2> QED
    BY <1>3, <2>2, <2>3, <2>4, <2>5 DEF TypeInv, TypeOK
<1>5. Others(w) /\ RowsStay
  BY <1>3 DEF Others, RowsStay, TypeInv, TypeOK
<1>6. /\ pc'[w] = "commit"
      /\ order'[w] = marked
      /\ "redeemed_count" \in saved'[w] => "redeemed_count" \in saved[w]
  BY <1>3 DEF TypeInv, TypeOK
<1>7. ControlOK(w)'
  BY <1>1, <1>3, <1>6 DEF ControlOK, Serves
<1>8. order'[w] # None
  BY <1>2, <1>6, NoneAssumption
<1>9. InstancesOK(w)'
  BY <1>1, <1>3, <1>6, <1>8 DEF InstancesOK, Guarded, Writing
<1> QED
  BY <1>4, <1>5, <1>7, <1>9, OthersType

\* A service outside any transaction replies, or goes on to its INSERT, and
\* leaves every instance and lock alone.
LEMMA AutocommitType ==
  ASSUME TypeInv, NEW w \in Workers,
         NEW label \in {"respond", "insertOrder"},
         pc' = [pc EXCEPT ![w] = label],
         pc[w] \in {"readCoupon", "insertUser", "insertCoupon", "checkUser",
                    "insertOrder"},
         Serves(req[w].op, label),
         resp' \in [Workers -> Answer \cup {None}],
         \A v \in Workers \ {w} : resp'[v] = resp[v],
         users' \subseteq Customers,
         orders' \in [Orders -> OrderRow \cup {None}],
         coupons' \in [Codes -> CouponRow \cup {None}],
         \A c \in Codes : coupons'[c] # None => coupons'[c].code = c,
         RowsStay,
         UNCHANGED <<locks, now, client, instance, saved>>
  PROVE  TypeInv'
<1>1. /\ ControlOK(w) /\ InstancesOK(w)
      /\ UNCHANGED <<orderLock, couponLock, now, req, arrived, order, coupon,
                     rule, saved>>
  BY DEF TypeInv, locks, client, instance
<1>2. TypeOK'
  BY <1>1 DEF TypeInv, TypeOK, Labels
<1>3. Others(w)
  BY <1>1 DEF Others, TypeInv, TypeOK
<1>4. pc'[w] = label /\ saved'[w] = {} /\ rule'[w] = 1
  BY <1>1 DEF TypeInv, TypeOK, InstancesOK
<1>5. ControlOK(w)'
  BY <1>1, <1>4 DEF ControlOK
<1>6. InstancesOK(w)'
  BY <1>4 DEF InstancesOK, Guarded, Writing
<1> QED
  BY <1>2, <1>3, <1>5, <1>6, OthersType

\* The answer to a query is well formed, found or not.
LEMMA RowAnswer ==
  ASSUME NEW row \in CouponRow \cup {None}
  PROVE  (IF row = None THEN Error("COUPON_NOT_FOUND")
                        ELSE Success(remaining(row), FALSE)) \in Answer
<1>1. Error("COUPON_NOT_FOUND") \in Answer
  BY ErrorType DEF Reason
<1>2. ASSUME row # None PROVE Success(remaining(row), FALSE) \in Answer
  <2>1. remaining(row) \in Int \cup {None}
    BY <1>2, RemainingType
  <2> QED
    BY <2>1, SuccessType
<1> QED
  BY <1>1, <1>2

\* GET /coupons reads.
LEMMA TypeQueryReadCoupon ==
  ASSUME TypeInv, NEW w \in Workers, QueryReadCoupon(w)
  PROVE  TypeInv'
<1> DEFINE row == coupons[req[w].code]
           payload == IF row = None THEN Error("COUPON_NOT_FOUND")
                                    ELSE Success(remaining(row), FALSE)
<1>1. /\ pc[w] = "readCoupon" /\ req[w].op = "query" /\ req[w] \in Requests
  BY DEF QueryReadCoupon, At, TypeInv, TypeOK, ControlOK
<1>2. /\ pc' = [pc EXCEPT ![w] = "respond"]
      /\ resp' = [resp EXCEPT ![w] = payload]
      /\ UNCHANGED <<users, orders, coupons>>
      /\ UNCHANGED <<locks, now, client, instance, saved>>
  BY DEF QueryReadCoupon, Reply, Goto, tables
<1>3. payload \in Answer
  <2>1. row \in CouponRow \cup {None}
    BY <1>1, RequestFields DEF TypeInv, TypeOK
  <2> QED
    BY <2>1, RowAnswer
<1> HIDE DEF payload
<1>4. /\ resp' \in [Workers -> Answer \cup {None}]
      /\ \A v \in Workers \ {w} : resp'[v] = resp[v]
  BY <1>2, <1>3 DEF TypeInv, TypeOK
<1>5. /\ users' \subseteq Customers
      /\ orders' \in [Orders -> OrderRow \cup {None}]
      /\ coupons' \in [Codes -> CouponRow \cup {None}]
      /\ \A c \in Codes : coupons'[c] # None => coupons'[c].code = c
      /\ RowsStay
  BY <1>2 DEF TypeInv, TypeOK, RowsStay
<1>6. Serves(req[w].op, "respond")
  BY DEF Serves
<1> QED
  BY <1>1, <1>2, <1>4, <1>5, <1>6, AutocommitType

\* An answer without a counter, given outside any transaction.
LEMMA ReplyType ==
  ASSUME TypeInv, NEW w \in Workers, NEW payload,
         payload \in {Success(None, FALSE)} \cup {Error(e) : e \in Reason},
         Reply(w, payload)
  PROVE  /\ pc' = [pc EXCEPT ![w] = "respond"]
         /\ Serves(req[w].op, "respond")
         /\ resp' \in [Workers -> Answer \cup {None}]
         /\ \A v \in Workers \ {w} : resp'[v] = resp[v]
<1>1. payload \in Answer
  BY ErrorType, SuccessType
<1>2. /\ pc' = [pc EXCEPT ![w] = "respond"]
      /\ resp' = [resp EXCEPT ![w] = payload]
  BY DEF Reply, Goto
<1> QED
  BY <1>1, <1>2 DEF TypeInv, TypeOK, Serves

\* POST /users inserts.
LEMMA TypeInsertUser ==
  ASSUME TypeInv, NEW w \in Workers, InsertUser(w)
  PROVE  TypeInv'
<1>1. /\ pc[w] = "insertUser" /\ req[w].op = "create_user"
      /\ req[w] \in Requests
  BY DEF InsertUser, At, TypeInv, TypeOK, ControlOK
<1>2. PICK payload \in {Success(None, FALSE)} \cup {Error(e) : e \in Reason} :
        Reply(w, payload)
  BY DEF InsertUser, Reason
<1>3. /\ users' = users \cup {req[w].customer}
      /\ UNCHANGED <<orders, coupons>>
      /\ UNCHANGED <<locks, now, client, instance, saved>>
  BY DEF InsertUser
<1>4. /\ users' \subseteq Customers
      /\ orders' \in [Orders -> OrderRow \cup {None}]
      /\ coupons' \in [Codes -> CouponRow \cup {None}]
      /\ \A c \in Codes : coupons'[c] # None => coupons'[c].code = c
      /\ RowsStay
  BY <1>1, <1>3, RequestFields DEF TypeInv, TypeOK, RowsStay
<1> QED
  BY <1>1, <1>2, <1>3, <1>4, ReplyType, AutocommitType

\* POST /coupons inserts a row whose counter is 0.
LEMMA TypeInsertCoupon ==
  ASSUME TypeInv, NEW w \in Workers, InsertCoupon(w)
  PROVE  TypeInv'
<1> DEFINE row == req[w].row
<1>1. /\ pc[w] = "insertCoupon" /\ req[w].op = "create_coupon"
      /\ req[w] \in Requests
  BY DEF InsertCoupon, At, TypeInv, TypeOK, ControlOK
<1>2. /\ req[w].code \in Codes /\ row \in CouponRow
      /\ row.code = req[w].code /\ row # None
  BY <1>1, RequestFields, NoneAssumption DEF CouponRow, CouponInstance
<1>3. \/ Reply(w, Error("COUPON_ALREADY_EXISTS")) /\ coupons' = coupons
      \/ /\ Reply(w, Success(remaining(row), FALSE))
         /\ coupons' = [coupons EXCEPT ![req[w].code] = row]
  BY DEF InsertCoupon
<1>4. /\ UNCHANGED <<users, orders>>
      /\ UNCHANGED <<locks, now, client, instance, saved>>
  BY DEF InsertCoupon
<1>5. /\ users' \subseteq Customers
      /\ orders' \in [Orders -> OrderRow \cup {None}]
      /\ coupons' \in [Codes -> CouponRow \cup {None}]
      /\ \A c \in Codes : coupons'[c] # None => coupons'[c].code = c
      /\ RowsStay
  BY <1>2, <1>3, <1>4 DEF TypeInv, TypeOK, RowsStay
<1>6. /\ Error("COUPON_ALREADY_EXISTS") \in Answer
      /\ Success(remaining(row), FALSE) \in Answer
  <2>1. Error("COUPON_ALREADY_EXISTS") \in Answer
    BY ErrorType DEF Reason
  <2>2. remaining(row) \in Int \cup {None}
    BY <1>2, RemainingType
  <2> QED
    BY <2>1, <2>2, SuccessType
<1>7. \E payload \in Answer :
        /\ pc' = [pc EXCEPT ![w] = "respond"]
        /\ resp' = [resp EXCEPT ![w] = payload]
  BY <1>3, <1>6 DEF Reply, Goto
<1>8. /\ pc' = [pc EXCEPT ![w] = "respond"]
      /\ resp' \in [Workers -> Answer \cup {None}]
      /\ \A v \in Workers \ {w} : resp'[v] = resp[v]
  BY <1>7 DEF TypeInv, TypeOK
<1>9. Serves(req[w].op, "respond")
  BY DEF Serves
<1> QED
  BY <1>1, <1>4, <1>5, <1>8, <1>9, AutocommitType

\* POST /orders asks for its customer.
LEMMA TypeCheckUser ==
  ASSUME TypeInv, NEW w \in Workers, CheckUser(w)
  PROVE  TypeInv'
<1>1. pc[w] = "checkUser" /\ req[w].op = "create_order" /\ req[w] \in Requests
  BY DEF CheckUser, At, TypeInv, TypeOK, ControlOK
<1>2. /\ UNCHANGED <<users, orders, coupons>>
      /\ UNCHANGED <<locks, now, client, instance, saved>>
  BY DEF CheckUser, tables
<1>3. /\ users' \subseteq Customers
      /\ orders' \in [Orders -> OrderRow \cup {None}]
      /\ coupons' \in [Codes -> CouponRow \cup {None}]
      /\ \A c \in Codes : coupons'[c] # None => coupons'[c].code = c
      /\ RowsStay
  BY <1>2 DEF TypeInv, TypeOK, RowsStay
<1>4. CASE Reply(w, Error("USER_NOT_FOUND"))
  <2>1. Error("USER_NOT_FOUND") \in {Error(e) : e \in Reason}
    BY DEF Reason
  <2> QED
    BY <1>1, <1>2, <1>3, <1>4, <2>1, ReplyType, AutocommitType
<1>5. CASE Goto(w, "insertOrder") /\ UNCHANGED resp
  <2>1. Serves(req[w].op, "insertOrder")
    BY <1>1 DEF Serves
  <2>2. /\ pc' = [pc EXCEPT ![w] = "insertOrder"]
        /\ resp' \in [Workers -> Answer \cup {None}]
        /\ \A v \in Workers \ {w} : resp'[v] = resp[v]
    BY <1>5 DEF Goto, TypeInv, TypeOK
  <2> QED
    BY <1>1, <1>2, <1>3, <2>1, <2>2, AutocommitType
<1> QED
  BY <1>4, <1>5 DEF CheckUser

\* POST /orders inserts a PLACED order without a coupon.
LEMMA TypeInsertOrder ==
  ASSUME TypeInv, NEW w \in Workers, InsertOrder(w)
  PROVE  TypeInv'
<1> DEFINE row == NewOrder(req[w].customer)
<1>1. /\ pc[w] = "insertOrder" /\ req[w].op = "create_order"
      /\ req[w] \in Requests
  BY DEF InsertOrder, At, TypeInv, TypeOK, ControlOK
<1>2. req[w].order \in Orders /\ row \in OrderRow /\ row # None
  <2>1. req[w].order \in Orders /\ req[w].customer \in Customers
    BY <1>1, RequestFields
  <2>2. row \in OrderRow
    BY <2>1 DEF NewOrder, OrderRow, OrderStatus
  <2> QED
    BY <2>1, <2>2, NoneAssumption
<1>3. orders' \in {orders, [orders EXCEPT ![req[w].order] = row]}
  BY DEF InsertOrder
<1>4. PICK payload \in {Success(None, FALSE)} \cup {Error(e) : e \in Reason} :
        Reply(w, payload)
  BY DEF InsertOrder, Reason
<1>5. /\ UNCHANGED <<users, coupons>>
      /\ UNCHANGED <<locks, now, client, instance, saved>>
  BY DEF InsertOrder
<1> HIDE DEF row
<1>6. /\ users' \subseteq Customers
      /\ orders' \in [Orders -> OrderRow \cup {None}]
      /\ coupons' \in [Codes -> CouponRow \cup {None}]
      /\ \A c \in Codes : coupons'[c] # None => coupons'[c].code = c
      /\ RowsStay
  BY <1>2, <1>3, <1>5 DEF TypeInv, TypeOK, RowsStay
<1> QED
  BY <1>1, <1>4, <1>5, <1>6, ReplyType, AutocommitType

\* COMMIT installs what was saved: an order row with some of its columns
\* replaced, and a counter within the column's constraints.
LEMMA TypeCommit ==
  ASSUME TypeInv, NEW w \in Workers, Commit(w)
  PROVE  TypeInv'
<1> DEFINE o   == req[w].order
           row == SavedOrder(w, orders[o])
           c   == coupon[w].code
           n   == coupon[w].redeemed_count
<1>1. /\ pc[w] = "commit" /\ req[w] \in Requests
      /\ ControlOK(w) /\ InstancesOK(w)
  BY DEF Commit, TypeInv, TypeOK, ControlOK
<1>2. o \in Orders
  <2>1. req[w].op \in {"redeem", "cancel"}
    BY <1>1 DEF ControlOK, Serves
  <2> QED
    BY <1>1, <2>1, RequestFields
<1>3. order[w] \in OrderRow /\ orders[o] \in OrderRow
  BY <1>1, <1>2 DEF InstancesOK, Guarded, Writing, TypeInv, TypeOK
<1>4. row \in OrderRow /\ row # None
  <2>1. row \in OrderRow
    BY <1>3 DEF SavedOrder, OrderRow
  <2> QED
    BY <2>1, NoneAssumption
<1>5. /\ pc' = [pc EXCEPT ![w] = "respond"]
      /\ orders' = [orders EXCEPT ![o] = row]
      /\ UNCHANGED <<users, now, req, arrived, resp>>
      /\ ReleaseLocks(w) /\ Forget(w)
  BY DEF Commit, InstallOrder, Goto, client
<1>6. /\ coupons' \in [Codes -> CouponRow \cup {None}]
      /\ \A d \in Codes : coupons'[d] # None => coupons'[d].code = d
      /\ \A d \in Codes : coupons[d] # None => coupons'[d] # None
  <2>1. CASE "redeemed_count" \in saved[w]
    <3>1. /\ coupon[w] \in CouponInstance /\ c \in Codes
          /\ coupons[c] \in CouponRow /\ coupons[c] # None
          /\ RedeemedWithinCap(coupon[w])
      BY <1>1, <2>1 DEF InstancesOK, TypeInv, TypeOK, CouponInstance
    <3>2. n \in Nat
      BY <3>1 DEF RedeemedWithinCap, CouponInstance
    <3> DEFINE counted == [coupons[c] EXCEPT !.redeemed_count = n]
    <3>3. coupons' = [coupons EXCEPT ![c] = counted]
      BY <2>1 DEF Commit, InstallCoupon
    <3>4. counted \in CouponRow /\ counted.code = coupons[c].code
      BY <3>1, <3>2 DEF CouponRow
    <3>5. counted # None
      BY <3>4, NoneAssumption DEF CouponRow, CouponInstance
    <3> HIDE DEF counted
    <3> QED
      BY <3>1, <3>3, <3>4, <3>5 DEF TypeInv, TypeOK
  <2>2. CASE "redeemed_count" \notin saved[w]
    <3>1. coupons' = coupons
      BY <2>2 DEF Commit, InstallCoupon
    <3> QED
      BY <3>1 DEF TypeInv, TypeOK
  <2> QED
    BY <2>1, <2>2
<1> HIDE DEF row
<1>7. TypeOK'
  <2>1. pc' \in [Workers -> Labels]
    BY <1>5 DEF TypeInv, TypeOK, Labels
  <2>2. orders' \in [Orders -> OrderRow \cup {None}]
    BY <1>4, <1>5 DEF TypeInv, TypeOK
  <2> QED
    BY <1>5, <1>6, <2>1, <2>2, EndType DEF TypeInv, TypeOK
<1>8. Others(w)
  BY <1>5, EndType DEF Others, TypeInv, TypeOK
<1>9. RowsStay
  BY <1>4, <1>5, <1>6 DEF RowsStay, TypeInv, TypeOK
<1>10. pc'[w] = "respond" /\ req'[w] # None /\ saved'[w] = {} /\ rule'[w] = 1
  BY <1>1, <1>5, EndType DEF TypeInv, TypeOK, ControlOK
<1>11. ControlOK(w)' /\ InstancesOK(w)'
  BY <1>10 DEF ControlOK, InstancesOK, Guarded, Writing, Serves
<1> QED
  BY <1>7, <1>8, <1>9, <1>11, OthersType

-----------------------------------------------------------------------------
\* Every step of the service, and every stuttering step, keeps TypeInv.
THEOREM TypeStep == TypeInv /\ [Next]_vars => TypeInv'
<1> SUFFICES ASSUME TypeInv, [Next]_vars PROVE TypeInv'
  OBVIOUS
<1>1. ASSUME NEW w \in Workers, NEW r \in Requests, Receive(w, r)
      PROVE  TypeInv'
  BY <1>1, TypeReceive
<1>2. ASSUME NEW w \in Workers, LockStep(w) PROVE TypeInv'
  BY <1>2, TypeRedeemLockOrder, TypeRedeemReplay, TypeRedeemLockCoupon,
     TypeCancelLockOrder, TypeCancelLockCoupon
     DEF LockStep, RedeemLock, CancelLock
<1>3. ASSUME NEW w \in Workers, LocalStep(w) PROVE TypeInv'
  <2>1. CASE RedeemStep(w)
    BY <2>1, TypeRedeemEnforcePolicy, TypeRedeemSaveCount,
       TypeRedeemAttachCoupon DEF RedeemStep
  <2>2. CASE CancelStep(w)
    BY <2>2, TypeCancelSaveCount, TypeCancelMarkCancelled DEF CancelStep
  <2>3. CASE SeedingStep(w)
    BY <2>3, TypeInsertUser, TypeInsertCoupon, TypeCheckUser, TypeInsertOrder
       DEF SeedingStep
  <2> QED
    BY <1>3, <2>1, <2>2, <2>3, TypeQueryReadCoupon, TypeCommit, TypeRollback,
       TypeRespond DEF LocalStep
<1>4. ASSUME NEW w \in Workers, Crash(w) PROVE TypeInv'
  BY <1>4, TypeCrash
<1>5. CASE Tick
  BY <1>5, TypeTick
<1>6. CASE UNCHANGED vars
  BY <1>6 DEF vars, tables, locks, client, instance, TypeInv, TypeOK,
              ControlOK, InstancesOK
<1> QED
  BY <1>1, <1>2, <1>3, <1>4, <1>5, <1>6 DEF Next

\* In every reachable state every variable holds a value of its column,
\* instance or lock: in particular the committed counters never go negative,
\* and no worker dereferences a row it does not have.
THEOREM TypeCorrect == Spec => []TypeOK
<1>1. TypeInv => TypeOK
  BY DEF TypeInv
<1> QED
  BY <1>1, TypeInit, TypeStep, PTL DEF Spec
=============================================================================
