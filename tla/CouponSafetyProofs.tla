------------------------- MODULE CouponSafetyProofs -------------------------
(***************************************************************************)
(* IInv is inductive: what every worker knows at each statement survives   *)
(* its own steps and those of the others, and every commit restores the    *)
(* relation between the counters and the orders.                           *)
(***************************************************************************)
EXTENDS CouponTypeProofs, FiniteSetTheorems

\* What a step of worker w may not touch: the locks of the others, the rows
\* under them, and who holds a coupon that another worker has locked.
Kept(w) ==
  \A v \in Workers \ {w} :
    /\ \A o \in Orders :
         /\ orderLock'[o] = v <=> orderLock[o] = v
         /\ orderLock[o] = v => orders'[o] = orders[o]
    /\ \A c \in Codes :
         /\ couponLock'[c] = v <=> couponLock[c] = v
         /\ couponLock[c] = v =>
              /\ coupons'[c] = coupons[c]
              /\ \A o \in Orders : Active(orders'[o], c) =>
                   Active(orders[o], c) /\ orders'[o].user = orders[o].user

\* An error is an answer that carries its reason.
LEMMA ErrorReason ==
  ASSUME NEW reason \in Reason
  PROVE  Error(reason) # None /\ Error(reason).reason = reason
<1>1. Error(reason) \in Answer
  BY ErrorType
<1> QED
  BY <1>1, WorkersAssumption DEF Error

\* A success is one that says whether it is a replay.
LEMMA SuccessReplayed ==
  ASSUME NEW left \in Int \cup {None}, NEW replay \in BOOLEAN
  PROVE  /\ Success(left, replay) # None
         /\ Success(left, replay).replayed = replay
<1>1. Success(left, replay) \in Answer
  BY SuccessType
<1> QED
  BY <1>1, WorkersAssumption DEF Success

-----------------------------------------------------------------------------
(* What a worker knows survives a step that leaves alone the worker, its   *)
(* locks and the rows under them, whoever takes that step.                 *)

Untouched(v) ==
  /\ pc'[v] = pc[v] /\ req'[v] = req[v] /\ order'[v] = order[v]
  /\ coupon'[v] = coupon[v] /\ rule'[v] = rule[v] /\ saved'[v] = saved[v]
  /\ resp'[v] = resp[v]
  /\ \A o \in Orders :
       /\ orderLock'[o] = v <=> orderLock[o] = v
       /\ orderLock[o] = v => orders'[o] = orders[o]
  /\ \A c \in Codes :
       /\ couponLock'[c] = v <=> couponLock[c] = v
       /\ couponLock[c] = v => coupons'[c] = coupons[c]

\* The order row of an open transaction stays as it read it.
LEMMA OrderStays ==
  ASSUME NEW v \in Workers, Untouched(v), req[v].order \in Orders, OrderHeld(v)
  PROVE  /\ OrderHeld(v)'
         /\ orders'[req[v].order] = orders[req[v].order]
         /\ OrderFree(v) => OrderFree(v)'
         /\ OrderAttached(v) => OrderAttached(v)'
         /\ OrderCancelled(v) => OrderCancelled(v)'
<1>1. /\ pc'[v] = pc[v] /\ req'[v] = req[v] /\ order'[v] = order[v]
      /\ coupon'[v] = coupon[v] /\ saved'[v] = saved[v] /\ resp'[v] = resp[v]
  BY DEF Untouched
<1>2. /\ orderLock'[req[v].order] = v
      /\ orders'[req[v].order] = orders[req[v].order]
  BY DEF OrderHeld, Untouched
<1>3. OrderHeld(v)'
  BY <1>1, <1>2 DEF OrderHeld
<1>4. OrderFree(v) => OrderFree(v)'
  BY <1>1, <1>2 DEF OrderFree
<1>5. OrderAttached(v) => OrderAttached(v)'
  BY <1>1, <1>2 DEF OrderAttached
<1>6. OrderCancelled(v) => OrderCancelled(v)'
  BY <1>1, <1>2 DEF OrderCancelled
<1> QED
  BY <1>2, <1>3, <1>4, <1>5, <1>6

\* So does the coupon row.
LEMMA CouponStays ==
  ASSUME NEW v \in Workers, Untouched(v), NEW c \in Codes, CouponHeld(v, c)
  PROVE  /\ CouponHeld(v, c)'
         /\ Fresh(v) => Fresh(v)'
         /\ \A delta \in {-1, 1} : Counted(v, delta) => Counted(v, delta)'
<1>1. coupon'[v] = coupon[v] /\ coupons'[c] = coupons[c] /\ couponLock'[c] = v
  BY DEF Untouched, CouponHeld
<1>2. coupon[v].code = c
  BY DEF CouponHeld
<1> QED
  BY <1>1, <1>2 DEF CouponHeld, Fresh, Counted

\* What a redemption relies on stays true.
LEMMA RedeemStays ==
  ASSUME NEW v \in Workers, Untouched(v),
         req[v] \in Requests, req[v].op = "redeem",
         OrderHeld(v), RedeemOK(v)
  PROVE  RedeemOK(v)'
<1>1. req[v].order \in Orders /\ req[v].code \in Codes
  BY RequestFields
<1>2. /\ pc'[v] = pc[v] /\ req'[v] = req[v] /\ saved'[v] = saved[v]
      /\ coupon'[v] = coupon[v] /\ resp'[v] = resp[v]
      /\ orders'[req[v].order] = orders[req[v].order]
  BY <1>1, OrderStays DEF Untouched
<1>3. /\ OrderFree(v) => OrderFree(v)'
      /\ OrderAttached(v) => OrderAttached(v)'
  BY <1>1, OrderStays
<1>4. CouponHeld(v, req[v].code) =>
        /\ CouponHeld(v, req[v].code)'
        /\ Fresh(v) => Fresh(v)'
        /\ Counted(v, 1) => Counted(v, 1)'
  BY <1>1, <1>2, CouponStays
<1>5. ~Exhausted(coupon[v]) => ~Exhausted(coupon[v])'
  BY <1>2 DEF Exhausted
<1> QED
  BY <1>2, <1>3, <1>4, <1>5 DEF RedeemOK

\* What a cancellation relies on stays true.
LEMMA CancelStays ==
  ASSUME TypeInv, NEW v \in Workers, Untouched(v),
         req[v] \in Requests, req[v].op = "cancel",
         orders[req[v].order] # None, OrderHeld(v), CancelOK(v)
  PROVE  CancelOK(v)'
<1> DEFINE row == orders[req[v].order]
<1>1. req[v].order \in Orders /\ row.coupon \in Codes \cup {None}
  BY RequestFields DEF TypeInv, TypeOK, OrderRow
<1>2. /\ pc'[v] = pc[v] /\ req'[v] = req[v] /\ saved'[v] = saved[v]
      /\ coupon'[v] = coupon[v] /\ row' = row
  BY <1>1, OrderStays DEF Untouched
<1>3. OrderCancelled(v) => OrderCancelled(v)'
  BY <1>1, OrderStays
<1>4. row.coupon # None /\ CouponHeld(v, row.coupon) =>
        /\ CouponHeld(v, row.coupon)'
        /\ Fresh(v) => Fresh(v)'
        /\ Counted(v, -1) => Counted(v, -1)'
  BY <1>1, <1>2, CouponStays
<1>5. Lowered(v) => Lowered(v)'
  BY <1>2, <1>4 DEF Lowered
<1> QED
  BY <1>2, <1>3, <1>4, <1>5 DEF CancelOK

\* All that a worker knows.
LEMMA WorkerStays ==
  ASSUME TypeInv, NEW v \in Workers, WorkerOK(v), Untouched(v)
  PROVE  WorkerOK(v)'
<1>1. /\ pc'[v] = pc[v] /\ req'[v] = req[v] /\ order'[v] = order[v]
      /\ coupon'[v] = coupon[v] /\ saved'[v] = saved[v] /\ resp'[v] = resp[v]
  BY DEF Untouched
<1>2. LocksOK(v)'
  BY <1>1 DEF LocksOK, WorkerOK, Untouched
<1>3. MemoryOK(v)'
  BY <1>1 DEF MemoryOK, WorkerOK
<1>4. TransactionOK(v)'
  <2> SUFFICES ASSUME pc[v] \in Guarded
               PROVE  /\ OrderHeld(v)'
                      /\ req[v].op = "redeem" => RedeemOK(v)'
                      /\ req[v].op = "cancel" => CancelOK(v)'
    BY <1>1 DEF TransactionOK
  <2>1. /\ req[v] \in Requests /\ req[v].op \in {"redeem", "cancel"}
        /\ orders[req[v].order] # None
    BY DEF TypeInv, TypeOK, ControlOK, InstancesOK, Serves, Guarded, Writing
  <2>2. req[v].order \in Orders
    BY <2>1, RequestFields
  <2>3. /\ OrderHeld(v)
        /\ req[v].op = "redeem" => RedeemOK(v)
        /\ req[v].op = "cancel" => CancelOK(v)
    BY DEF WorkerOK, TransactionOK
  <2>4. OrderHeld(v)'
    BY <2>2, <2>3, OrderStays
  <2> QED
    BY <2>1, <2>3, <2>4, RedeemStays, CancelStays
<1> QED
  BY <1>2, <1>3, <1>4 DEF WorkerOK

\* A step of w that keeps to its own locks touches no other worker.
LEMMA OthersUntouched ==
  ASSUME NEW w \in Workers, NEW v \in Workers \ {w}, Others(w), Kept(w)
  PROVE  Untouched(v)
BY DEF Others, Kept, Untouched

\* What is to show of a step: it keeps to its own locks, and its worker is
\* still sound.
Sound(w) == Others(w) /\ Kept(w) /\ WorkerOK(w)'

LEMMA SoundHeld ==
  ASSUME HeldInv, NEW w \in Workers, Sound(w), TypeInv'
  PROVE  HeldInv'
<1>1. WorkerOK(w)'
  BY DEF Sound
<1>2. ASSUME NEW v \in Workers \ {w} PROVE WorkerOK(v)'
  <2>1. Untouched(v)
    BY OthersUntouched DEF Sound
  <2> QED
    BY <2>1, WorkerStays DEF HeldInv
<1> QED
  BY <1>1, <1>2 DEF HeldInv

-----------------------------------------------------------------------------
(* What the services' discipline guarantees survives the steps of others.  *)

\* The coupon of a redemption past the per-customer rule is locked.
LEMMA CheckedHeld ==
  ASSUME HeldInv, NEW v \in Workers, CustomerChecked(v)
  PROVE  /\ req[v].code \in Codes /\ CouponHeld(v, req[v].code)
         /\ OrderFree(v)
<1>1. /\ pc[v] \in {"policies", "saveCount", "attachCoupon", "commit"}
      /\ pc[v] = "commit" => saved[v] # {}
      /\ req[v].op = "redeem" /\ req[v] \in Requests
  BY DEF CustomerChecked, HeldInv, TypeInv, TypeOK, ControlOK
<1>2. RedeemOK(v)
  BY <1>1 DEF HeldInv, WorkerOK, TransactionOK, Guarded, Writing
<1> QED
  BY <1>1, <1>2, RequestFields DEF RedeemOK

\* So what the rule found stays true.
LEMMA UnusedStays ==
  ASSUME HeldInv, NEW w \in Workers, NEW v \in Workers \ {w},
         Others(w), Kept(w), CustomerChecked(v),
         ~AlreadyUsed(coupon[v], req[v].customer, orders)
  PROVE  ~AlreadyUsed(coupon[v], req[v].customer, orders)'
<1>1. req'[v] = req[v] /\ coupon'[v] = coupon[v]
  BY DEF Others
<1>2. couponLock[coupon[v].code] = v /\ coupon[v].code \in Codes
  BY CheckedHeld DEF CouponHeld
<1>3. \A o \in Orders : Active(orders'[o], coupon[v].code) =>
        /\ Active(orders[o], coupon[v].code)
        /\ orders'[o].user = orders[o].user
  BY <1>2 DEF Kept
<1> QED
  BY <1>1, <1>3 DEF AlreadyUsed

LEMMA ServiceStays ==
  ASSUME HeldInv, NEW w \in Workers, NEW v \in Workers \ {w},
         Others(w), Kept(w), ServiceOK(v)
  PROVE  ServiceOK(v)'
<1>1. /\ pc'[v] = pc[v] /\ req'[v] = req[v] /\ coupon'[v] = coupon[v]
      /\ rule'[v] = rule[v] /\ saved'[v] = saved[v] /\ resp'[v] = resp[v]
  BY DEF Others
<1>2. CustomerChecked(v)' <=> CustomerChecked(v)
  BY <1>1 DEF CustomerChecked
<1>3. ASSUME CustomerChecked(v)
      PROVE  ~AlreadyUsed(coupon[v], req[v].customer, orders)'
  BY <1>3, UnusedStays DEF ServiceOK
<1>4. CleanRollback(v)'
  BY <1>1 DEF ServiceOK, CleanRollback
<1> QED
  BY <1>2, <1>3, <1>4 DEF ServiceOK

-----------------------------------------------------------------------------
(* Which steps keep to their own locks.                                    *)

\* A step that changes neither locks nor tables.
LEMMA KeptByLocalStep ==
  ASSUME NEW w \in Workers,
         UNCHANGED <<orders, coupons, orderLock, couponLock>>
  PROVE  Kept(w)
BY DEF Kept, Active

\* Taking the lock of an order, which was free.
LEMMA KeptByOrderLock ==
  ASSUME TypeInv, NEW w \in Workers, NEW o \in Orders, LockOrder(w, o),
         UNCHANGED <<orders, coupons, couponLock>>
  PROVE  Kept(w)
<1>1. \A v \in Workers \ {w}, p \in Orders :
        orderLock'[p] = v <=> orderLock[p] = v
  <2> SUFFICES ASSUME NEW v \in Workers \ {w}, NEW p \in Orders
               PROVE  orderLock'[p] = v <=> orderLock[p] = v
    OBVIOUS
  <2>1. CASE orders[o] = None
    BY <2>1 DEF LockOrder
  <2>2. CASE orders[o] # None
    <3>1. orderLock[o] = None /\ orderLock' = [orderLock EXCEPT ![o] = w]
      BY <2>2 DEF LockOrder
    <3> QED
      BY <3>1, WorkersAssumption DEF TypeInv, TypeOK
  <2> QED
    BY <2>1, <2>2
<1> QED
  BY <1>1 DEF Kept, Active

\* Taking the lock of a coupon, which was free.
LEMMA KeptByCouponLock ==
  ASSUME TypeInv, NEW w \in Workers, NEW c \in Codes, LockCoupon(w, c),
         UNCHANGED <<orders, coupons, orderLock>>
  PROVE  Kept(w)
<1>1. \A v \in Workers \ {w}, d \in Codes :
        couponLock'[d] = v <=> couponLock[d] = v
  <2> SUFFICES ASSUME NEW v \in Workers \ {w}, NEW d \in Codes
               PROVE  couponLock'[d] = v <=> couponLock[d] = v
    OBVIOUS
  <2>1. CASE coupons[c] = None
    BY <2>1 DEF LockCoupon
  <2>2. CASE coupons[c] # None
    <3>1. couponLock[c] = None /\ couponLock' = [couponLock EXCEPT ![c] = w]
      BY <2>2 DEF LockCoupon
    <3> QED
      BY <3>1, WorkersAssumption DEF TypeInv, TypeOK
  <2> QED
    BY <2>1, <2>2
<1> QED
  BY <1>1 DEF Kept, Active

\* Dropping the worker's own locks.
LEMMA ReleaseOwn ==
  ASSUME NEW w \in Workers, ReleaseLocks(w)
  PROVE  \A v \in Workers \ {w} :
           /\ \A o \in Orders : orderLock'[o] = v <=> orderLock[o] = v
           /\ \A c \in Codes : couponLock'[c] = v <=> couponLock[c] = v
BY WorkersAssumption DEF ReleaseLocks

\* A step outside any transaction: the worker holds no lock and no instance.
LEMMA OutsideSafe ==
  ASSUME NEW w \in Workers, WorkerOK(w),
         pc[w] \notin Guarded \cup {"rollback"},
         pc'[w] \notin Guarded \cup {"rollback"},
         order'[w] = order[w], coupon'[w] = coupon[w],
         UNCHANGED <<orderLock, couponLock>>,
         pc'[w] = "respond" <=> resp'[w] # None
  PROVE  WorkerOK(w)'
<1>1. /\ \A o \in Orders : orderLock'[o] # w
      /\ \A c \in Codes : couponLock'[c] # w
  BY DEF WorkerOK, LocksOK, Guarded, Writing
<1>2. LocksOK(w)'
  BY <1>1 DEF LocksOK
<1>3. MemoryOK(w)'
  BY DEF WorkerOK, MemoryOK, Guarded, Writing
<1>4. TransactionOK(w)'
  BY DEF TransactionOK
<1> QED
  BY <1>2, <1>3, <1>4 DEF WorkerOK

\* The end of a transaction, and a crash.
LEMMA EndSafe ==
  ASSUME TypeInv, NEW w \in Workers, ReleaseLocks(w), Forget(w),
         pc'[w] \in {"idle", "respond"},
         pc'[w] = "respond" <=> resp'[w] # None
  PROVE  WorkerOK(w)'
<1>1. /\ \A o \in Orders : orderLock'[o] # w
      /\ \A c \in Codes : couponLock'[c] # w
  BY WorkersAssumption DEF ReleaseLocks
<1>2. order'[w] = None /\ coupon'[w] = None
  BY DEF Forget, TypeInv, TypeOK
<1>3. LocksOK(w)'
  BY <1>1 DEF LocksOK
<1>4. MemoryOK(w)'
  BY <1>2 DEF MemoryOK, Guarded, Writing
<1>5. TransactionOK(w)'
  BY DEF TransactionOK, Guarded, Writing
<1> QED
  BY <1>3, <1>4, <1>5 DEF WorkerOK

-----------------------------------------------------------------------------
(* Steps outside any transaction, and the ends of one.                     *)

\* A request taken up.
LEMMA HeldReceive ==
  ASSUME HeldInv, NEW w \in Workers, NEW r \in Requests, Receive(w, r)
  PROVE  Sound(w)
<1>1. TypeInv /\ WorkerOK(w)
  BY DEF HeldInv
<1>2. /\ pc' = [pc EXCEPT ![w] = FirstStatement[r.op]]
      /\ req' = [req EXCEPT ![w] = r]
      /\ UNCHANGED <<orders, coupons, orderLock, couponLock, order, coupon,
                     rule, saved, resp>>
  BY DEF Receive, Goto, tables, locks, instance
<1>3. FirstStatement[r.op] \notin
        Guarded \cup {"rollback", "respond", "commit"}
  BY RequestFields DEF FirstStatement, Guarded, Writing
<1>4. Others(w)
  BY <1>1, <1>2 DEF Others, TypeInv, TypeOK
<1>5. pc[w] = "idle" /\ pc'[w] = FirstStatement[r.op] /\ resp'[w] = None
  BY <1>1, <1>2 DEF Receive, WorkerOK, MemoryOK, TypeInv, TypeOK
<1>6. WorkerOK(w)'
  BY <1>1, <1>2, <1>3, <1>5, OutsideSafe DEF Guarded, Writing
<1> QED
  BY <1>1, <1>2, <1>4, <1>6, KeptByLocalStep DEF Sound

\* An answer sent.
LEMMA HeldRespond ==
  ASSUME HeldInv, NEW w \in Workers, Respond(w)
  PROVE  Sound(w)
<1>1. TypeInv /\ WorkerOK(w)
  BY DEF HeldInv
<1>2. /\ pc' = [pc EXCEPT ![w] = "idle"]
      /\ req' = [req EXCEPT ![w] = None]
      /\ resp' = [resp EXCEPT ![w] = None]
      /\ UNCHANGED <<orders, coupons, orderLock, couponLock, order, coupon,
                     rule, saved>>
  BY DEF Respond, Clear, Goto, tables, locks, instance
<1>3. Others(w)
  BY <1>1, <1>2 DEF Others, TypeInv, TypeOK
<1>4. pc[w] = "respond" /\ pc'[w] = "idle" /\ resp'[w] = None
  BY <1>1, <1>2 DEF Respond, TypeInv, TypeOK
<1>5. WorkerOK(w)'
  BY <1>1, <1>2, <1>4, OutsideSafe DEF Guarded, Writing
<1> QED
  BY <1>1, <1>2, <1>3, <1>5, KeptByLocalStep DEF Sound

\* A rollback leaves the tables and the other workers alone.
LEMMA HeldRollback ==
  ASSUME HeldInv, NEW w \in Workers, Rollback(w)
  PROVE  Sound(w)
<1>1. TypeInv /\ WorkerOK(w)
  BY DEF HeldInv
<1>2. /\ pc' = [pc EXCEPT ![w] = "respond"]
      /\ UNCHANGED <<orders, coupons, req, resp>>
      /\ ReleaseLocks(w) /\ Forget(w)
  BY DEF Rollback, Goto, tables, client
<1>3. Others(w)
  BY <1>1, <1>2, EndType DEF Others, TypeInv, TypeOK
<1>4. Kept(w)
  BY <1>2, ReleaseOwn DEF Kept, Active
<1>5. pc'[w] = "respond" /\ resp'[w] # None
  BY <1>1, <1>2 DEF Rollback, WorkerOK, MemoryOK, TypeInv, TypeOK
<1>6. WorkerOK(w)'
  BY <1>1, <1>2, <1>5, EndSafe
<1> QED
  BY <1>1, <1>2, <1>3, <1>4, <1>6 DEF Sound

\* So does a crash, at any statement.
LEMMA HeldCrash ==
  ASSUME HeldInv, NEW w \in Workers, Crash(w)
  PROVE  Sound(w)
<1>1. TypeInv /\ WorkerOK(w)
  BY DEF HeldInv
<1>2. /\ pc' = [pc EXCEPT ![w] = "idle"]
      /\ req' = [req EXCEPT ![w] = None]
      /\ resp' = [resp EXCEPT ![w] = None]
      /\ UNCHANGED <<orders, coupons>>
      /\ ReleaseLocks(w) /\ Forget(w)
  BY DEF Crash, Clear, Goto, tables
<1>3. Others(w)
  BY <1>1, <1>2, EndType DEF Others, TypeInv, TypeOK
<1>4. Kept(w)
  BY <1>2, ReleaseOwn DEF Kept, Active
<1>5. pc'[w] = "idle" /\ resp'[w] = None
  BY <1>1, <1>2 DEF TypeInv, TypeOK
<1>6. WorkerOK(w)'
  BY <1>1, <1>2, <1>5, EndSafe
<1> QED
  BY <1>1, <1>2, <1>3, <1>4, <1>6 DEF Sound

\* A reply outside any transaction.
LEMMA ReplySafe ==
  ASSUME HeldInv, NEW w \in Workers, NEW label \in {"respond", "insertOrder"},
         pc[w] \in {"readCoupon", "insertUser", "insertCoupon", "checkUser",
                    "insertOrder"},
         pc' = [pc EXCEPT ![w] = label],
         \/ label = "respond"
              /\ \E payload \in Answer : resp' = [resp EXCEPT ![w] = payload]
         \/ label = "insertOrder" /\ resp' = resp,
         UNCHANGED <<locks, now, client, instance, saved>>
  PROVE  Others(w) /\ WorkerOK(w)'
<1>1. TypeInv /\ WorkerOK(w)
  BY DEF HeldInv
<1>2. UNCHANGED <<orderLock, couponLock, req, order, coupon, rule, saved>>
  BY DEF locks, client, instance
<1>3. Others(w)
  BY <1>1, <1>2 DEF Others, TypeInv, TypeOK
<1>4. pc'[w] = label /\ (label = "respond" <=> resp'[w] # None)
  BY <1>1, WorkersAssumption DEF WorkerOK, MemoryOK, TypeInv, TypeOK
<1>5. WorkerOK(w)'
  BY <1>1, <1>2, <1>4, OutsideSafe DEF Guarded, Writing
<1> QED
  BY <1>3, <1>5

-----------------------------------------------------------------------------
(* Reads and inserts outside any transaction.                              *)

\* GET /coupons changes nothing.
LEMMA HeldQueryReadCoupon ==
  ASSUME HeldInv, NEW w \in Workers, QueryReadCoupon(w)
  PROVE  Sound(w)
<1> DEFINE row == coupons[req[w].code]
           payload == IF row = None THEN Error("COUPON_NOT_FOUND")
                                    ELSE Success(remaining(row), FALSE)
<1>1. TypeInv
  BY DEF HeldInv
<1>2. /\ pc[w] = "readCoupon"
      /\ pc' = [pc EXCEPT ![w] = "respond"]
      /\ resp' = [resp EXCEPT ![w] = payload]
      /\ UNCHANGED <<orders, coupons, orderLock, couponLock>>
      /\ UNCHANGED <<locks, now, client, instance, saved>>
  BY DEF QueryReadCoupon, At, Reply, Goto, tables, locks
<1>3. payload \in Answer
  <2>1. req[w] \in Requests /\ req[w].op = "query"
    BY <1>1 DEF QueryReadCoupon, At, TypeInv, TypeOK, ControlOK
  <2>2. row \in CouponRow \cup {None}
    BY <1>1, <2>1, RequestFields DEF TypeInv, TypeOK
  <2> QED
    BY <2>2, RowAnswer
<1> HIDE DEF payload
<1>4. Others(w) /\ WorkerOK(w)'
  BY <1>2, <1>3, ReplySafe
<1> QED
  BY <1>1, <1>2, <1>4, KeptByLocalStep DEF Sound

\* An answer without a counter is an answer.
LEMMA ReplyAnswers ==
  ASSUME NEW w \in Workers, NEW payload,
         payload \in {Success(None, FALSE)} \cup {Error(e) : e \in Reason},
         Reply(w, payload)
  PROVE  /\ pc' = [pc EXCEPT ![w] = "respond"]
         /\ \E p \in Answer : resp' = [resp EXCEPT ![w] = p]
<1>1. payload \in Answer
  BY ErrorType, SuccessType
<1> QED
  BY <1>1 DEF Reply, Goto

\* POST /users touches no row the invariant speaks of.
LEMMA HeldInsertUser ==
  ASSUME HeldInv, NEW w \in Workers, InsertUser(w)
  PROVE  Sound(w)
<1>1. TypeInv
  BY DEF HeldInv
<1>2. PICK payload \in {Success(None, FALSE)} \cup {Error(e) : e \in Reason} :
        Reply(w, payload)
  BY DEF InsertUser, Reason
<1>3. /\ pc[w] = "insertUser"
      /\ UNCHANGED <<orders, coupons, orderLock, couponLock>>
      /\ UNCHANGED <<locks, now, client, instance, saved>>
  BY DEF InsertUser, At, locks
<1>4. Others(w) /\ WorkerOK(w)'
  BY <1>2, <1>3, ReplyAnswers, ReplySafe
<1> QED
  BY <1>1, <1>3, <1>4, KeptByLocalStep DEF Sound

\* Nor does the first statement of POST /orders.
LEMMA HeldCheckUser ==
  ASSUME HeldInv, NEW w \in Workers, CheckUser(w)
  PROVE  Sound(w)
<1>1. TypeInv
  BY DEF HeldInv
<1>2. /\ pc[w] = "checkUser"
      /\ UNCHANGED <<orders, coupons, orderLock, couponLock>>
      /\ UNCHANGED <<locks, now, client, instance, saved>>
  BY DEF CheckUser, At, tables, locks
<1>3. CASE Reply(w, Error("USER_NOT_FOUND"))
  <2>1. Error("USER_NOT_FOUND") \in {Error(e) : e \in Reason}
    BY DEF Reason
  <2>2. Others(w) /\ WorkerOK(w)'
    BY <1>2, <1>3, <2>1, ReplyAnswers, ReplySafe
  <2> QED
    BY <1>1, <1>2, <2>2, KeptByLocalStep DEF Sound
<1>4. CASE Goto(w, "insertOrder") /\ UNCHANGED resp
  <2>1. Others(w) /\ WorkerOK(w)'
    BY <1>2, <1>4, ReplySafe DEF Goto
  <2> QED
    BY <1>1, <1>2, <2>1, KeptByLocalStep DEF Sound
<1> QED
  BY <1>3, <1>4 DEF CheckUser

\* Rows in use stay: a step that inserts, at most, keeps to its own locks.
LEMMA KeptByInsert ==
  ASSUME HeldInv, NEW w \in Workers, UNCHANGED <<orderLock, couponLock>>,
         \A o \in Orders : orders[o] # None => orders'[o] = orders[o],
         \A c \in Codes : coupons[c] # None => coupons'[c] = coupons[c],
         \A o \in Orders, c \in Codes :
           Active(orders'[o], c) => Active(orders[o], c)
  PROVE  Kept(w)
<1> SUFFICES ASSUME NEW v \in Workers \ {w}
             PROVE  /\ \A o \in Orders :
                         orderLock[o] = v => orders'[o] = orders[o]
                    /\ \A c \in Codes : couponLock[c] = v =>
                         coupons'[c] = coupons[c]
                    /\ \A c \in Codes, o \in Orders : Active(orders'[o], c) =>
                         /\ Active(orders[o], c)
                         /\ orders'[o].user = orders[o].user
  BY DEF Kept
<1>1. /\ \A o \in Orders : orderLock[o] = v => orders[o] # None
      /\ \A c \in Codes : couponLock[c] = v => coupons[c] # None
  BY DEF HeldInv, WorkerOK, LocksOK
<1>2. \A o \in Orders, c \in Codes : Active(orders'[o], c) =>
        Active(orders[o], c) /\ orders'[o].user = orders[o].user
  BY DEF Active
<1> QED
  BY <1>1, <1>2

\* POST /coupons adds a coupon with a counter of 0.
LEMMA HeldInsertCoupon ==
  ASSUME HeldInv, NEW w \in Workers, InsertCoupon(w)
  PROVE  Sound(w)
<1> DEFINE c   == req[w].code
           row == req[w].row
<1>1. TypeInv
  BY DEF HeldInv
<1>2. /\ pc[w] = "insertCoupon" /\ req[w].op = "create_coupon"
      /\ req[w] \in Requests
      /\ UNCHANGED <<orders, orderLock, couponLock>>
      /\ UNCHANGED <<locks, now, client, instance, saved>>
  BY <1>1 DEF InsertCoupon, At, locks, TypeInv, TypeOK, ControlOK
<1>3. /\ c \in Codes /\ row \in CouponRow
      /\ row.code = c /\ row.redeemed_count = 0
  BY <1>2, RequestFields
<1>4. \/ Reply(w, Error("COUPON_ALREADY_EXISTS")) /\ coupons' = coupons
      \/ /\ coupons[c] = None
         /\ coupons' = [coupons EXCEPT ![c] = row]
         /\ Reply(w, Success(remaining(row), FALSE))
  BY DEF InsertCoupon
<1>5. Others(w) /\ WorkerOK(w)'
  <2>1. Error("COUPON_ALREADY_EXISTS") \in Answer
    BY ErrorType DEF Reason
  <2>2. remaining(row) \in Int \cup {None}
    BY <1>3, RemainingType
  <2>3. Success(remaining(row), FALSE) \in Answer
    BY <2>2, SuccessType
  <2>4. /\ pc' = [pc EXCEPT ![w] = "respond"]
        /\ \E payload \in Answer : resp' = [resp EXCEPT ![w] = payload]
    BY <1>4, <2>1, <2>3 DEF Reply, Goto
  <2> QED
    BY <1>2, <2>4, ReplySafe
<1>6. /\ \A o \in Orders : orders'[o] = orders[o]
      /\ \A d \in Codes : coupons[d] # None => coupons'[d] = coupons[d]
  BY <1>1, <1>2, <1>4 DEF TypeInv, TypeOK
<1>7. Kept(w)
  BY <1>2, <1>6, KeptByInsert
<1> QED
  BY <1>5, <1>7 DEF Sound

\* POST /orders adds an order without a coupon.
LEMMA HeldInsertOrder ==
  ASSUME HeldInv, NEW w \in Workers, InsertOrder(w)
  PROVE  Sound(w)
<1> DEFINE o   == req[w].order
           row == NewOrder(req[w].customer)
<1>1. TypeInv
  BY DEF HeldInv
<1>2. /\ pc[w] = "insertOrder" /\ req[w].op = "create_order"
      /\ req[w] \in Requests
      /\ UNCHANGED <<coupons, orderLock, couponLock>>
      /\ UNCHANGED <<locks, now, client, instance, saved>>
  BY <1>1 DEF InsertOrder, At, locks, TypeInv, TypeOK, ControlOK
<1>3. o \in Orders /\ row.coupon = None
  BY <1>2, RequestFields DEF NewOrder
<1>4. PICK payload \in {Success(None, FALSE)} \cup {Error(e) : e \in Reason} :
        Reply(w, payload)
  BY DEF InsertOrder, Reason
<1>5. Others(w) /\ WorkerOK(w)'
  BY <1>2, <1>4, ReplyAnswers, ReplySafe
<1>6. \A p \in Orders :
        /\ orders[p] # None => orders'[p] = orders[p]
        /\ \A c \in Codes : Active(orders'[p], c) => Active(orders[p], c)
  <2>1. CASE orders' = orders
    BY <2>1
  <2>2. CASE orders[o] = None /\ orders' = [orders EXCEPT ![o] = row]
    BY <1>1, <1>3, <2>2, NoneAssumption DEF TypeInv, TypeOK, Active
  <2> QED
    BY <2>1, <2>2 DEF InsertOrder
<1>7. Kept(w)
  BY <1>2, <1>6, KeptByInsert
<1> QED
  BY <1>5, <1>7 DEF Sound

-----------------------------------------------------------------------------
(* Statements that lock a row.                                             *)

\* A worker that gets the lock of its order.
LEMMA OrderLocked ==
  ASSUME TypeInv, NEW w \in Workers, WorkerOK(w), pc[w] = "lockOrder",
         req[w].order \in Orders, LockOrder(w, req[w].order),
         UNCHANGED <<orders, coupons, couponLock, req>>,
         pc'[w] \in Guarded \cup {"rollback"}
  PROVE  /\ LocksOK(w)'
         /\ orders[req[w].order] # None => orderLock'[req[w].order] = w
         /\ order'[w] = orders[req[w].order]
<1> DEFINE o == req[w].order
<1>1. /\ \A p \in Orders : orderLock[p] # w
      /\ \A c \in Codes : couponLock'[c] # w
  BY DEF WorkerOK, LocksOK, Guarded, Writing
<1>2. order'[w] = orders[o]
  BY DEF LockOrder, TypeInv, TypeOK
<1>3. CASE orders[o] = None
  BY <1>1, <1>2, <1>3 DEF LockOrder, LocksOK
<1>4. CASE orders[o] # None
  <2>1. orderLock' = [orderLock EXCEPT ![o] = w]
    BY <1>4 DEF LockOrder
  <2>2. /\ orderLock'[o] = w
        /\ \A p \in Orders \ {o} : orderLock'[p] # w
    BY <1>1, <2>1 DEF TypeInv, TypeOK
  <2> QED
    BY <1>1, <1>2, <1>4, <2>2 DEF LocksOK
<1> QED
  BY <1>3, <1>4

\* A worker that gets the lock of a coupon, its order being locked.
LEMMA CouponLocked ==
  ASSUME TypeInv, NEW w \in Workers, WorkerOK(w),
         pc[w] \in {"lockAttached", "lockCoupon"},
         NEW c \in Codes, LockCoupon(w, c),
         UNCHANGED <<orders, coupons, orderLock, req>>,
         pc'[w] \in {"policies", "rollback"} \cup Writing
  PROVE  /\ LocksOK(w)'
         /\ coupon'[w] = coupons[c]
         /\ coupons[c] # None => CouponHeld(w, c)' /\ Fresh(w)'
<1>1. \A d \in Codes : couponLock[d] # w
  BY DEF WorkerOK, LocksOK, Guarded, Writing
<1>2. coupon'[w] = coupons[c]
  BY DEF LockCoupon, TypeInv, TypeOK
<1>3. \A o \in Orders : orderLock'[o] = w =>
        /\ pc'[w] \in Guarded \cup {"rollback"}
        /\ req'[w].order = o
        /\ orders'[o] # None
  BY DEF WorkerOK, LocksOK, Guarded, Writing
<1>4. CASE coupons[c] = None
  BY <1>1, <1>2, <1>3, <1>4 DEF LockCoupon, LocksOK
<1>5. CASE coupons[c] # None
  <2>1. couponLock' = [couponLock EXCEPT ![c] = w]
    BY <1>5 DEF LockCoupon
  <2>2. /\ couponLock'[c] = w
        /\ \A d \in Codes \ {c} : couponLock'[d] # w
    BY <1>1, <2>1 DEF TypeInv, TypeOK
  <2>3. coupons[c].code = c
    BY <1>5 DEF TypeInv, TypeOK
  <2>4. CouponHeld(w, c)' /\ Fresh(w)'
    BY <1>2, <1>5, <2>2, <2>3 DEF CouponHeld, Fresh
  <2>5. LocksOK(w)'
    BY <1>2, <1>3, <1>5, <2>2, <2>3 DEF LocksOK
  <2> QED
    BY <1>2, <2>4, <2>5
<1> QED
  BY <1>4, <1>5

\* redeem has its order.
LEMMA HeldRedeemLockOrder ==
  ASSUME HeldInv, NEW w \in Workers, RedeemLockOrder(w)
  PROVE  Sound(w) /\ CleanRollback(w)'
<1> DEFINE o   == req[w].order
           row == orders[o]
<1>1. TypeInv /\ WorkerOK(w)
  BY DEF HeldInv
<1>2. /\ pc[w] = "lockOrder" /\ req[w].op = "redeem" /\ o \in Orders
      /\ saved[w] = {} /\ coupon[w] = None /\ resp[w] = None
  <2>1. pc[w] = "lockOrder" /\ req[w].op = "redeem" /\ req[w] \in Requests
    BY <1>1 DEF RedeemLockOrder, At, TypeInv, TypeOK, ControlOK
  <2>2. saved[w] = {} /\ coupon[w] = None /\ resp[w] = None
    BY <1>1, <2>1 DEF TypeInv, TypeOK, InstancesOK, WorkerOK, MemoryOK,
                      Writing
  <2> QED
    BY <2>1, <2>2, RequestFields
<1>3. \/ /\ \E reason \in Reason \ {"SERVER_ERROR"} :
              resp' = [resp EXCEPT ![w] = Error(reason)]
         /\ pc' = [pc EXCEPT ![w] = "rollback"]
      \/ /\ row # None /\ row.status = "PLACED" /\ row.user = req[w].customer
         /\ \/ row.coupon = None /\ pc' = [pc EXCEPT ![w] = "lockCoupon"]
            \/ pc' = [pc EXCEPT ![w] = "lockAttached"]
         /\ resp' = resp
  BY DEF RedeemLockOrder, Raise, Goto, Reason
<1>4. /\ LockOrder(w, o)
      /\ UNCHANGED <<orders, coupons, couponLock, req, coupon, rule, saved>>
  BY DEF RedeemLockOrder, tables, client
<1>5. Others(w)
  BY <1>1, <1>3, <1>4 DEF Others, LockOrder, TypeInv, TypeOK
<1>6. \/ /\ pc'[w] = "rollback"
         /\ resp'[w] # None /\ resp'[w].reason # "SERVER_ERROR"
      \/ /\ row # None /\ row.status = "PLACED" /\ row.user = req[w].customer
         /\ \/ row.coupon = None /\ pc'[w] = "lockCoupon"
            \/ pc'[w] = "lockAttached"
         /\ resp'[w] = None
  BY <1>1, <1>2, <1>3, ErrorReason DEF TypeInv, TypeOK
<1>7. /\ LocksOK(w)'
      /\ row # None => orderLock'[o] = w
      /\ order'[w] = row
  BY <1>1, <1>2, <1>4, <1>6, OrderLocked DEF Guarded
<1>8. MemoryOK(w)'
  BY <1>2, <1>4, <1>6 DEF MemoryOK, Guarded, Writing
<1>9. TransactionOK(w)'
  <2> SUFFICES ASSUME pc'[w] \in Guarded PROVE OrderHeld(w)' /\ RedeemOK(w)'
    BY <1>2, <1>4 DEF TransactionOK
  <2>1. row # None /\ pc'[w] \in {"lockCoupon", "lockAttached"}
    BY <1>6 DEF Guarded, Writing
  <2>2. OrderHeld(w)'
    BY <1>4, <1>7, <2>1 DEF OrderHeld
  <2>3. RedeemOK(w)'
    BY <1>4, <1>6, <2>1 DEF RedeemOK, OrderFree
  <2> QED
    BY <2>2, <2>3
<1>10. WorkerOK(w)'
  BY <1>7, <1>8, <1>9 DEF WorkerOK
<1>11. Kept(w)
  BY <1>1, <1>2, <1>4, KeptByOrderLock
<1> QED
  BY <1>1, <1>8, <1>6, <1>2, <1>4, <1>5, <1>10, <1>11 DEF Sound, CleanRollback

\* redeem answers a replay from the attached coupon.
LEMMA HeldRedeemReplay ==
  ASSUME HeldInv, NEW w \in Workers, RedeemReplay(w)
  PROVE  Sound(w) /\ CleanRollback(w)'
<1> DEFINE c   == order[w].coupon
           row == coupons[c]
<1>1. TypeInv /\ WorkerOK(w)
  BY DEF HeldInv
<1>2. /\ pc[w] = "lockAttached" /\ req[w].op = "redeem"
      /\ c \in Codes /\ saved[w] = {} /\ resp[w] = None
  <2>1. pc[w] = "lockAttached" /\ req[w].op = "redeem"
    BY DEF RedeemReplay, At
  <2>2. saved[w] = {} /\ resp[w] = None
    BY <1>1, <2>1 DEF TypeInv, InstancesOK, WorkerOK, MemoryOK
  <2>3. c \in Codes
    BY <1>1, <2>1 DEF TypeInv, TypeOK, InstancesOK, Guarded, OrderRow
  <2> QED
    BY <2>1, <2>2, <2>3
<1>3. \/ /\ pc' = [pc EXCEPT ![w] = "rollback"]
         /\ resp' = [resp EXCEPT ![w] = Error("ORDER_ALREADY_HAS_COUPON")]
      \/ /\ row # None
         /\ pc' = [pc EXCEPT ![w] = "commit"]
         /\ resp' = [resp EXCEPT ![w] = Success(remaining(row), TRUE)]
  BY DEF RedeemReplay, Raise, Return, Goto
<1>4. /\ LockCoupon(w, c)
      /\ UNCHANGED <<orders, coupons, orderLock, req, order, rule, saved>>
  BY DEF RedeemReplay, tables, client
<1>5. Others(w)
  BY <1>1, <1>3, <1>4 DEF Others, LockCoupon, TypeInv, TypeOK
<1>6. \/ /\ pc'[w] = "rollback"
         /\ resp'[w] # None /\ resp'[w].reason # "SERVER_ERROR"
      \/ /\ pc'[w] = "commit"
         /\ resp'[w] # None /\ resp'[w].replayed
  <2>1. /\ Error("ORDER_ALREADY_HAS_COUPON") # None
        /\ Error("ORDER_ALREADY_HAS_COUPON").reason # "SERVER_ERROR"
    BY ErrorReason DEF Reason
  <2>2. ASSUME row # None
        PROVE  /\ Success(remaining(row), TRUE) # None
               /\ Success(remaining(row), TRUE).replayed
    <3>1. remaining(row) \in Int \cup {None}
      BY <1>1, <1>2, <2>2, RemainingType DEF TypeInv, TypeOK
    <3> QED
      BY <3>1, SuccessReplayed
  <2> QED
    BY <1>1, <1>3, <2>1, <2>2 DEF TypeInv, TypeOK
<1>7. LocksOK(w)'
  BY <1>1, <1>2, <1>4, <1>6, CouponLocked DEF Writing
<1>8. MemoryOK(w)'
  BY <1>2, <1>4, <1>6 DEF MemoryOK, Guarded, Writing
<1>9. TransactionOK(w)'
  <2> SUFFICES ASSUME pc'[w] = "commit" PROVE OrderHeld(w)' /\ RedeemOK(w)'
    BY <1>2, <1>4, <1>6 DEF TransactionOK, Guarded, Writing
  <2>1. OrderHeld(w)'
    BY <1>1, <1>2, <1>4 DEF WorkerOK, TransactionOK, OrderHeld, Guarded
  <2>2. RedeemOK(w)'
    BY <1>2, <1>4, <1>6 DEF RedeemOK
  <2> QED
    BY <2>1, <2>2
<1>10. WorkerOK(w)'
  BY <1>7, <1>8, <1>9 DEF WorkerOK
<1>11. Kept(w)
  BY <1>1, <1>2, <1>4, KeptByCouponLock
<1> QED
  BY <1>1, <1>8, <1>6, <1>2, <1>4, <1>5, <1>10, <1>11 DEF Sound, CleanRollback

\* redeem has its coupon too.
LEMMA HeldRedeemLockCoupon ==
  ASSUME HeldInv, NEW w \in Workers, RedeemLockCoupon(w)
  PROVE  Sound(w) /\ CleanRollback(w)'
<1> DEFINE c   == req[w].code
           row == coupons[c]
<1>1. TypeInv /\ WorkerOK(w)
  BY DEF HeldInv
<1>2. /\ pc[w] = "lockCoupon" /\ req[w].op = "redeem"
      /\ c \in Codes /\ saved[w] = {} /\ resp[w] = None /\ rule[w] = 1
  <2>1. /\ pc[w] = "lockCoupon" /\ req[w].op = "redeem"
        /\ req[w] \in Requests
    BY <1>1 DEF RedeemLockCoupon, At, TypeInv, TypeOK, ControlOK
  <2>2. saved[w] = {} /\ resp[w] = None /\ rule[w] = 1
    BY <1>1, <2>1 DEF TypeInv, InstancesOK, WorkerOK, MemoryOK
  <2> QED
    BY <2>1, <2>2, RequestFields
<1>3. \/ /\ pc' = [pc EXCEPT ![w] = "rollback"]
         /\ resp' = [resp EXCEPT ![w] = Error("COUPON_NOT_FOUND")]
      \/ /\ row # None
         /\ pc' = [pc EXCEPT ![w] = "policies"]
         /\ resp' = resp
  BY DEF RedeemLockCoupon, Raise, Goto
<1>4. /\ LockCoupon(w, c)
      /\ UNCHANGED <<orders, coupons, orderLock, req, order, rule, saved>>
  BY DEF RedeemLockCoupon, tables, client
<1>5. Others(w)
  BY <1>1, <1>3, <1>4 DEF Others, LockCoupon, TypeInv, TypeOK
<1>6. \/ /\ pc'[w] = "rollback"
         /\ resp'[w] # None /\ resp'[w].reason # "SERVER_ERROR"
      \/ /\ row # None /\ pc'[w] = "policies" /\ resp'[w] = None
  <2>1. /\ Error("COUPON_NOT_FOUND") # None
        /\ Error("COUPON_NOT_FOUND").reason # "SERVER_ERROR"
    BY ErrorReason DEF Reason
  <2> QED
    BY <1>1, <1>2, <1>3, <2>1 DEF TypeInv, TypeOK
<1>7. /\ LocksOK(w)'
      /\ row # None => CouponHeld(w, c)' /\ Fresh(w)'
  BY <1>1, <1>2, <1>4, <1>6, CouponLocked DEF Writing
<1>8. MemoryOK(w)'
  BY <1>2, <1>4, <1>6 DEF MemoryOK, Guarded, Writing
<1>9. TransactionOK(w)'
  <2> SUFFICES ASSUME pc'[w] = "policies" PROVE OrderHeld(w)' /\ RedeemOK(w)'
    BY <1>2, <1>4, <1>6 DEF TransactionOK, Guarded, Writing
  <2>1. OrderHeld(w) /\ RedeemOK(w)
    BY <1>1, <1>2 DEF WorkerOK, TransactionOK, Guarded
  <2>2. OrderHeld(w)'
    BY <1>2, <1>4, <2>1 DEF OrderHeld
  <2>3. OrderFree(w)'
    BY <1>2, <1>4, <2>1 DEF RedeemOK, OrderFree
  <2>4. CouponHeld(w, req[w].code)' /\ Fresh(w)'
    BY <1>4, <1>6, <1>7
  <2> QED
    BY <2>2, <2>3, <2>4 DEF RedeemOK
<1>10. WorkerOK(w)'
  BY <1>7, <1>8, <1>9 DEF WorkerOK
<1>11. Kept(w)
  BY <1>1, <1>2, <1>4, KeptByCouponLock
<1> QED
  BY <1>1, <1>8, <1>6, <1>2, <1>4, <1>5, <1>10, <1>11 DEF Sound, CleanRollback

\* cancel has its order.
LEMMA HeldCancelLockOrder ==
  ASSUME HeldInv, NEW w \in Workers, CancelLockOrder(w)
  PROVE  Sound(w) /\ CleanRollback(w)'
<1> DEFINE o   == req[w].order
           row == orders[o]
<1>1. TypeInv /\ WorkerOK(w)
  BY DEF HeldInv
<1>2. /\ pc[w] = "lockOrder" /\ req[w].op = "cancel" /\ o \in Orders
      /\ saved[w] = {} /\ coupon[w] = None /\ resp[w] = None
  <2>1. pc[w] = "lockOrder" /\ req[w].op = "cancel" /\ req[w] \in Requests
    BY <1>1 DEF CancelLockOrder, At, TypeInv, TypeOK, ControlOK
  <2>2. saved[w] = {} /\ coupon[w] = None /\ resp[w] = None
    BY <1>1, <2>1 DEF TypeInv, TypeOK, InstancesOK, WorkerOK, MemoryOK,
                      Writing
  <2> QED
    BY <2>1, <2>2, RequestFields
<1>3. \/ /\ pc' = [pc EXCEPT ![w] = "rollback"]
         /\ resp' = [resp EXCEPT ![w] = Error("ORDER_NOT_FOUND")]
      \/ /\ row # None
         /\ pc' = [pc EXCEPT ![w] = "lockAttached"] /\ resp' = resp
      \/ /\ row # None /\ row.coupon = None /\ row.status = "PLACED"
         /\ pc' = [pc EXCEPT ![w] = "markCancelled"] /\ resp' = resp
      \/ /\ row # None
         /\ pc' = [pc EXCEPT ![w] = "commit"]
         /\ resp' = [resp EXCEPT ![w] = Success(None, TRUE)]
  BY DEF CancelLockOrder, Raise, Return, Goto
<1>4. /\ LockOrder(w, o)
      /\ UNCHANGED <<orders, coupons, couponLock, req, coupon, rule, saved>>
  BY DEF CancelLockOrder, tables, client
<1>5. Others(w)
  BY <1>1, <1>3, <1>4 DEF Others, LockOrder, TypeInv, TypeOK
<1>6. \/ /\ pc'[w] = "rollback"
         /\ resp'[w] # None /\ resp'[w].reason # "SERVER_ERROR"
      \/ row # None /\ pc'[w] = "lockAttached" /\ resp'[w] = None
      \/ /\ row # None /\ row.coupon = None /\ row.status = "PLACED"
         /\ pc'[w] = "markCancelled" /\ resp'[w] = None
      \/ row # None /\ pc'[w] = "commit" /\ resp'[w] # None
  <2>1. /\ Error("ORDER_NOT_FOUND") # None
        /\ Error("ORDER_NOT_FOUND").reason # "SERVER_ERROR"
    BY ErrorReason DEF Reason
  <2>2. Success(None, TRUE) # None
    BY SuccessReplayed
  <2> QED
    BY <1>1, <1>2, <1>3, <2>1, <2>2 DEF TypeInv, TypeOK
<1>7. /\ LocksOK(w)'
      /\ row # None => orderLock'[o] = w
      /\ order'[w] = row
  BY <1>1, <1>2, <1>4, <1>6, OrderLocked DEF Guarded, Writing
<1>8. MemoryOK(w)'
  BY <1>2, <1>4, <1>6 DEF MemoryOK, Guarded, Writing
<1>9. TransactionOK(w)'
  <2> SUFFICES ASSUME pc'[w] \in Guarded PROVE OrderHeld(w)' /\ CancelOK(w)'
    BY <1>2, <1>4 DEF TransactionOK
  <2>1. row # None
    BY <1>6 DEF Guarded, Writing
  <2>2. OrderHeld(w)'
    BY <1>4, <1>7, <2>1 DEF OrderHeld
  <2>3. pc'[w] = "markCancelled" => Lowered(w)'
    BY <1>2, <1>4, <1>6 DEF Lowered
  <2>4. CancelOK(w)'
    BY <1>2, <1>4, <1>6, <2>1, <2>3 DEF CancelOK
  <2> QED
    BY <2>2, <2>4
<1>10. WorkerOK(w)'
  BY <1>7, <1>8, <1>9 DEF WorkerOK
<1>11. Kept(w)
  BY <1>1, <1>2, <1>4, KeptByOrderLock
<1> QED
  BY <1>1, <1>8, <1>6, <1>2, <1>4, <1>5, <1>10, <1>11 DEF Sound, CleanRollback

\* cancel has the attached coupon too.
LEMMA HeldCancelLockCoupon ==
  ASSUME HeldInv, NEW w \in Workers, CancelLockCoupon(w)
  PROVE  Sound(w) /\ CleanRollback(w)'
<1> DEFINE c   == order[w].coupon
           row == coupons[c]
<1>1. TypeInv /\ WorkerOK(w)
  BY DEF HeldInv
<1>2. /\ pc[w] = "lockAttached" /\ req[w].op = "cancel"
      /\ c \in Codes /\ saved[w] = {} /\ resp[w] = None
      /\ order[w].status \in OrderStatus /\ order[w].coupon # None
      /\ OrderHeld(w) /\ order[w] = orders[req[w].order]
  <2>1. pc[w] = "lockAttached" /\ req[w].op = "cancel"
    BY DEF CancelLockCoupon, At
  <2>2. saved[w] = {} /\ resp[w] = None
    BY <1>1, <2>1 DEF TypeInv, InstancesOK, WorkerOK, MemoryOK
  <2>3. /\ c \in Codes /\ order[w].status \in OrderStatus
        /\ order[w].coupon # None
    BY <1>1, <2>1 DEF TypeInv, TypeOK, InstancesOK, Guarded, OrderRow
  <2>4. OrderHeld(w) /\ order[w] = orders[req[w].order]
    BY <1>1, <2>1 DEF WorkerOK, TransactionOK, Guarded, OrderHeld
  <2> QED
    BY <2>1, <2>2, <2>3, <2>4
<1>3. \/ /\ pc' = [pc EXCEPT ![w] = "commit"]
         /\ resp' = [resp EXCEPT ![w] = Success(RemainingOf(row), TRUE)]
      \/ /\ pc' = [pc EXCEPT ![w] = "rollback"]
         /\ resp' = [resp EXCEPT ![w] = Error("COUPON_NOT_FOUND")]
      \/ /\ row # None /\ order[w].status = "PLACED"
         /\ pc' = [pc EXCEPT ![w] = "saveCount"] /\ resp' = resp
  BY <1>2 DEF CancelLockCoupon, Raise, Return, Goto, OrderStatus
<1>4. /\ LockCoupon(w, c)
      /\ UNCHANGED <<orders, coupons, orderLock, req, order, rule, saved>>
  BY DEF CancelLockCoupon, tables, client
<1>5. Others(w)
  BY <1>1, <1>3, <1>4 DEF Others, LockCoupon, TypeInv, TypeOK
<1>6. \/ /\ pc'[w] = "rollback"
         /\ resp'[w] # None /\ resp'[w].reason # "SERVER_ERROR"
      \/ pc'[w] = "commit" /\ resp'[w] # None
      \/ /\ row # None /\ order[w].status = "PLACED"
         /\ pc'[w] = "saveCount" /\ resp'[w] = None
  <2>1. /\ Error("COUPON_NOT_FOUND") # None
        /\ Error("COUPON_NOT_FOUND").reason # "SERVER_ERROR"
    BY ErrorReason DEF Reason
  <2>2. Success(RemainingOf(row), TRUE) # None
    <3>1. row # None => remaining(row) \in Int
      BY <1>1, <1>2, RemainingType DEF TypeInv, TypeOK
    <3>2. RemainingOf(row) \in Int \cup {None}
      BY <3>1 DEF RemainingOf
    <3> QED
      BY <3>2, SuccessReplayed
  <2> QED
    BY <1>1, <1>2, <1>3, <2>1, <2>2 DEF TypeInv, TypeOK
<1>7. /\ LocksOK(w)'
      /\ row # None => CouponHeld(w, c)' /\ Fresh(w)'
  BY <1>1, <1>2, <1>4, <1>6, CouponLocked DEF Writing
<1>8. MemoryOK(w)'
  BY <1>2, <1>4, <1>6 DEF MemoryOK, Guarded, Writing
<1>9. TransactionOK(w)'
  <2> SUFFICES ASSUME pc'[w] \in {"commit", "saveCount"}
               PROVE  OrderHeld(w)' /\ CancelOK(w)'
    BY <1>2, <1>4, <1>6 DEF TransactionOK, Guarded, Writing
  <2>1. OrderHeld(w)'
    BY <1>2, <1>4 DEF OrderHeld
  <2>2. CASE pc'[w] = "commit"
    BY <1>2, <1>4, <2>1, <2>2 DEF CancelOK
  <2>3. CASE pc'[w] = "saveCount"
    <3>1. CouponHeld(w, c)' /\ Fresh(w)' /\ c = orders[req[w].order].coupon
      BY <1>2, <1>6, <1>7, <2>3
    <3>2. CouponHeld(w, orders[req[w].order].coupon)'
      BY <1>2, <1>4, <3>1
    <3> QED
      BY <1>2, <1>4, <1>6, <2>1, <2>3, <3>1, <3>2 DEF CancelOK
  <2> QED
    BY <2>1, <2>2, <2>3
<1>10. WorkerOK(w)'
  BY <1>7, <1>8, <1>9 DEF WorkerOK
<1>11. Kept(w)
  BY <1>1, <1>2, <1>4, KeptByCouponLock
<1> QED
  BY <1>1, <1>8, <1>6, <1>2, <1>4, <1>5, <1>10, <1>11 DEF Sound, CleanRollback

-----------------------------------------------------------------------------
(* Statements under the locks.                                             *)

\* The locks of a worker that stays in its transaction.
LEMMA LocksStay ==
  ASSUME NEW w \in Workers, LocksOK(w),
         pc[w] \in {"policies"} \cup Writing,
         pc'[w] \in {"policies", "rollback"} \cup Writing,
         coupon'[w] = coupon[w] \/ /\ coupon'[w] # None
                                   /\ coupon'[w].code = coupon[w].code,
         UNCHANGED <<orders, coupons, orderLock, couponLock, req>>
  PROVE  LocksOK(w)'
BY DEF LocksOK, Guarded

\* The capacity rule is the last of every type, the per-customer rule the one
\* before it, of the STANDARD type alone.
LEMMA RuleOrder ==
  ASSUME NEW type \in CouponType, NEW i \in 1 .. Len(for_type(type))
  PROVE  /\ i = Len(for_type(type)) => for_type(type)[i] = "capacity"
         /\ i = 3 => type = "STANDARD" /\ i = Len(for_type(type))
         /\ i = 2 /\ type = "STANDARD" => for_type(type)[i] = "single_use"
         /\ i = 2 /\ type = "STACKABLE" => i = Len(for_type(type))
         /\ i = 1 => for_type(type)[i] = "expiry"
         /\ i = 1 => i < Len(for_type(type))
BY DEF for_type, CouponType

\* A turn of the policy loop.
LEMMA HeldRedeemEnforcePolicy ==
  ASSUME HeldInv, NEW w \in Workers, RedeemEnforcePolicy(w)
  PROVE  Sound(w) /\ CleanRollback(w)'
<1> DEFINE policies == for_type(coupon[w].type)
           policy   == policies[rule[w]]
<1>1. TypeInv /\ WorkerOK(w)
  BY DEF HeldInv
<1>2. /\ pc[w] = "policies" /\ req[w].op = "redeem"
      /\ coupon[w].type \in CouponType
      /\ saved[w] = {} /\ resp[w] = None
      /\ rule[w] \in 1 .. Len(for_type(coupon[w].type))
  <2>1. pc[w] = "policies" /\ req[w].op = "redeem"
    BY DEF RedeemEnforcePolicy, At
  <2>2. saved[w] = {} /\ resp[w] = None
    BY <1>1, <2>1 DEF TypeInv, InstancesOK, WorkerOK, MemoryOK
  <2>3. coupon[w].type \in CouponType
    BY <1>1, <2>1 DEF TypeInv, TypeOK, InstancesOK, CouponInstance
  <2>4. rule[w] \in 1 .. Len(for_type(coupon[w].type))
    BY <1>1, <2>1, <2>3 DEF TypeInv, TypeOK, InstancesOK, for_type, CouponType
  <2> QED
    BY <2>1, <2>2, <2>3, <2>4
<1>3. /\ OrderHeld(w) /\ OrderFree(w) /\ CouponHeld(w, req[w].code) /\ Fresh(w)
  BY <1>1, <1>2 DEF WorkerOK, TransactionOK, RedeemOK, Guarded
<1>4. \/ /\ resp' = [resp EXCEPT ![w] = Error(PolicyError[policy])]
         /\ pc' = [pc EXCEPT ![w] = "rollback"] /\ rule' = rule
      \/ rule' = [rule EXCEPT ![w] = @ + 1] /\ UNCHANGED <<pc, resp>>
      \/ /\ policy = "capacity" => ~Exhausted(coupon[w])
         /\ rule[w] = Len(policies)
         /\ pc' = [pc EXCEPT ![w] = "saveCount"] /\ UNCHANGED <<rule, resp>>
  BY DEF RedeemEnforcePolicy, Raise, Goto, Refuses
<1>5. UNCHANGED <<orders, coupons, orderLock, couponLock, req, order, coupon,
                  saved>>
  BY DEF RedeemEnforcePolicy, tables, locks, client
<1>6. Others(w)
  BY <1>1, <1>4, <1>5 DEF Others, TypeInv, TypeOK
<1>7. \/ /\ pc'[w] = "rollback"
         /\ resp'[w] # None /\ resp'[w].reason # "SERVER_ERROR"
      \/ pc'[w] = "policies" /\ resp'[w] = None
      \/ pc'[w] = "saveCount" /\ resp'[w] = None /\ ~Exhausted(coupon[w])
  <2>1. /\ PolicyError[policy] \in Reason
        /\ PolicyError[policy] # "SERVER_ERROR"
    BY <1>2 DEF for_type, CouponType, PolicyError, Reason
  <2>2. /\ Error(PolicyError[policy]) # None
        /\ Error(PolicyError[policy]).reason # "SERVER_ERROR"
    BY <2>1, ErrorReason
  <2>3. rule[w] = Len(policies) => policy = "capacity"
    BY <1>2, RuleOrder
  <2> HIDE DEF policy, policies
  <2> QED
    BY <1>1, <1>2, <1>4, <2>2, <2>3 DEF TypeInv, TypeOK
<1>8. LocksOK(w)'
  BY <1>1, <1>2, <1>5, <1>7, LocksStay DEF WorkerOK, Writing
<1>9. MemoryOK(w)'
  BY <1>1, <1>2, <1>5, <1>7 DEF WorkerOK, MemoryOK, Guarded, Writing
<1>10. /\ OrderHeld(w)' /\ OrderFree(w)' /\ CouponHeld(w, req[w].code)'
       /\ Fresh(w)'
  BY <1>2, <1>3, <1>5 DEF OrderHeld, OrderFree, CouponHeld, Fresh
<1>11. WorkerOK(w)'
  <2>1. ~Exhausted(coupon[w]) => ~Exhausted(coupon[w])'
    BY <1>5 DEF Exhausted
  <2>2. pc'[w] \in Guarded => RedeemOK(w)'
    BY <1>5, <1>7, <1>10, <2>1 DEF RedeemOK, Guarded, Writing
  <2>3. TransactionOK(w)'
    BY <1>2, <1>5, <1>10, <2>2 DEF TransactionOK
  <2> QED
    BY <1>8, <1>9, <2>3 DEF WorkerOK
<1> QED
  BY <1>2, <1>5, <1>6, <1>7, <1>11, KeptByLocalStep DEF Sound, CleanRollback

\* Saving a counter that the column accepts, from a fresh instance.
LEMMA CounterSaved ==
  ASSUME TypeInv, NEW w \in Workers, pc[w] = "saveCount",
         NEW c \in Codes, CouponHeld(w, c), Fresh(w),
         NEW delta \in Int, NEW count \in Int, NEW next,
         count = coupons[c].redeemed_count + delta,
         count >= 0, count <= coupons[c].max_redemptions,
         SaveRedeemedCount(w, count, next),
         UNCHANGED <<orders, coupons, orderLock, couponLock, req, order, rule>>
  PROVE  /\ pc' = [pc EXCEPT ![w] = next] /\ resp' = resp
         /\ saved'[w] = {"redeemed_count"}
         /\ CouponHeld(w, c)' /\ Counted(w, delta)'
         /\ coupon'[w].type = coupon[w].type
         /\ Others(w)
<1> DEFINE counted == [coupon[w] EXCEPT !.redeemed_count = count]
<1>1. /\ coupon[w] \in CouponInstance /\ coupon[w] = coupons[c]
      /\ coupon[w].code = c /\ saved[w] = {}
  BY DEF CouponHeld, Fresh, TypeInv, TypeOK, InstancesOK
<1>2. /\ counted \in CouponInstance
      /\ counted.code = c /\ counted.type = coupon[w].type
      /\ counted.redeemed_count = count
      /\ counted.max_redemptions = coupons[c].max_redemptions
  BY <1>1 DEF CouponInstance
<1>3. RedeemedWithinCap(counted)
  BY <1>2 DEF RedeemedWithinCap
<1>4. /\ coupon' = [coupon EXCEPT ![w] = counted]
      /\ saved' = [saved EXCEPT ![w] = @ \cup {"redeemed_count"}]
      /\ pc' = [pc EXCEPT ![w] = next] /\ resp' = resp
  BY <1>3 DEF SaveRedeemedCount, Goto
<1>5. coupon'[w] = counted /\ saved'[w] = {"redeemed_count"}
  BY <1>1, <1>4 DEF TypeInv, TypeOK
<1>6. counted # None
  BY <1>2, NoneAssumption
<1>7. CouponHeld(w, c)'
  BY <1>2, <1>5, <1>6 DEF CouponHeld
<1>8. Counted(w, delta)'
  <2>1. counted = [coupons[c] EXCEPT !.redeemed_count = @ + delta]
    BY <1>1
  <2> QED
    BY <1>2, <1>3, <1>5, <2>1 DEF Counted
<1>9. Others(w)
  BY <1>4 DEF Others, TypeInv, TypeOK
<1> QED
  BY <1>2, <1>4, <1>5, <1>7, <1>8, <1>9

\* redeem counts itself: the capacity policy left room for one more.
LEMMA HeldRedeemSaveCount ==
  ASSUME HeldInv, NEW w \in Workers, RedeemSaveCount(w)
  PROVE  Sound(w) /\ CleanRollback(w)'
<1> DEFINE c     == req[w].code
           count == coupon[w].redeemed_count + 1
<1>1. TypeInv /\ WorkerOK(w)
  BY DEF HeldInv
<1>2. /\ pc[w] = "saveCount" /\ req[w].op = "redeem" /\ c \in Codes
      /\ resp[w] = None
  <2>1. /\ pc[w] = "saveCount" /\ req[w].op = "redeem"
        /\ req[w] \in Requests
    BY <1>1 DEF RedeemSaveCount, At, TypeInv, TypeOK, ControlOK
  <2>2. resp[w] = None
    BY <1>1, <2>1 DEF WorkerOK, MemoryOK
  <2> QED
    BY <2>1, <2>2, RequestFields
<1>3. /\ OrderHeld(w) /\ OrderFree(w) /\ CouponHeld(w, c) /\ Fresh(w)
      /\ ~Exhausted(coupon[w])
  BY <1>1, <1>2 DEF WorkerOK, TransactionOK, RedeemOK, Guarded, Writing
<1>4. /\ SaveRedeemedCount(w, count, "attachCoupon")
      /\ UNCHANGED <<orders, coupons, orderLock, couponLock, req, order, rule>>
  BY DEF RedeemSaveCount, tables, locks, client
<1>5. /\ count \in Int /\ count = coupons[c].redeemed_count + 1
      /\ count >= 0 /\ count <= coupons[c].max_redemptions
  <2>1. coupon[w] = coupons[c] /\ coupons[c] \in CouponRow
    BY <1>1, <1>2, <1>3 DEF CouponHeld, Fresh, TypeInv, TypeOK
  <2> QED
    BY <1>3, <2>1 DEF Exhausted, CouponRow
<1> HIDE DEF count
<1>6. /\ pc' = [pc EXCEPT ![w] = "attachCoupon"] /\ resp' = resp
      /\ saved'[w] = {"redeemed_count"}
      /\ CouponHeld(w, c)' /\ Counted(w, 1)'
      /\ coupon'[w].type = coupon[w].type
      /\ Others(w)
  BY <1>1, <1>2, <1>3, <1>4, <1>5, CounterSaved
<1>7. pc'[w] = "attachCoupon"
  BY <1>1, <1>6 DEF TypeInv, TypeOK
<1>8. LocksOK(w)'
  BY <1>1, <1>2, <1>3, <1>4, <1>6, <1>7, LocksStay
     DEF WorkerOK, Writing, CouponHeld
<1>9. MemoryOK(w)'
  BY <1>2, <1>6, <1>7 DEF MemoryOK, Guarded, Writing
<1>10. TransactionOK(w)'
  <2>1. OrderHeld(w)' /\ OrderFree(w)'
    BY <1>2, <1>3, <1>4 DEF OrderHeld, OrderFree
  <2>2. CouponHeld(w, req[w].code)'
    BY <1>4, <1>6
  <2>3. RedeemOK(w)'
    BY <1>4, <1>6, <1>7, <2>1, <2>2 DEF RedeemOK
  <2> QED
    BY <1>2, <1>4, <2>1, <2>3 DEF TransactionOK
<1>11. WorkerOK(w)'
  BY <1>8, <1>9, <1>10 DEF WorkerOK
<1> QED
  BY <1>4, <1>6, <1>7, <1>11, KeptByLocalStep DEF Sound, CleanRollback

\* A cancellation that the CHECK constraints refuse, still holding its rows.
Refused(w) ==
  LET row == orders[req[w].order]
  IN  /\ row.status = "PLACED" /\ row.coupon # None
      /\ orderLock[req[w].order] = w
      /\ CouponHeld(w, row.coupon)
      /\ coupons[row.coupon].redeemed_count
           \notin 1 .. coupons[row.coupon].max_redemptions

\* cancel takes itself off its coupon, unless the stored counter is 0 already
\* (or beyond its cap), which the CHECK constraints do not let it lower.
LEMMA HeldCancelSaveCount ==
  ASSUME HeldInv, NEW w \in Workers, CancelSaveCount(w)
  PROVE  /\ Sound(w)
         /\ pc[w] = "saveCount" /\ req[w].op = "cancel"
         /\ pc'[w] # "rollback" \/ (Refused(w) /\ Refused(w)')
<1> DEFINE o     == req[w].order
           c     == orders[o].coupon
           count == coupon[w].redeemed_count - 1
<1>1. TypeInv /\ WorkerOK(w)
  BY DEF HeldInv
<1>2. /\ pc[w] = "saveCount" /\ req[w].op = "cancel" /\ o \in Orders
      /\ resp[w] = None
  <2>1. /\ pc[w] = "saveCount" /\ req[w].op = "cancel"
        /\ req[w] \in Requests
    BY <1>1 DEF CancelSaveCount, At, TypeInv, TypeOK, ControlOK
  <2>2. resp[w] = None
    BY <1>1, <2>1 DEF WorkerOK, MemoryOK
  <2> QED
    BY <2>1, <2>2, RequestFields
<1>3. /\ OrderHeld(w) /\ orders[o] # None /\ orders[o].status = "PLACED"
      /\ c # None /\ CouponHeld(w, c) /\ Fresh(w)
  BY <1>1, <1>2 DEF WorkerOK, TransactionOK, CancelOK, Guarded, Writing,
                    TypeInv, InstancesOK
<1>4. /\ SaveRedeemedCount(w, count, "markCancelled")
      /\ UNCHANGED <<orders, coupons, orderLock, couponLock, req, order, rule>>
  BY DEF CancelSaveCount, tables, locks, client
<1>5. c \in Codes
  BY <1>1, <1>2, <1>3 DEF TypeInv, TypeOK, OrderRow
<1>6. /\ coupon[w] = coupons[c] /\ coupons[c] \in CouponRow
      /\ coupon[w].code = c /\ coupon[w] \in CouponInstance
      /\ count \in Int /\ count = coupons[c].redeemed_count + (-1)
  BY <1>1, <1>3, <1>5 DEF CouponHeld, Fresh, TypeInv, TypeOK, CouponRow
<1> DEFINE counted == [coupon[w] EXCEPT !.redeemed_count = count]
<1>7. Kept(w)
  BY <1>4, KeptByLocalStep
<1>8. CASE RedeemedWithinCap(counted)
  <2>1. count >= 0 /\ count <= coupons[c].max_redemptions
    BY <1>6, <1>8 DEF RedeemedWithinCap, CouponRow
  <2> HIDE DEF counted, count
  <2>2. /\ pc' = [pc EXCEPT ![w] = "markCancelled"] /\ resp' = resp
        /\ saved'[w] = {"redeemed_count"}
        /\ CouponHeld(w, c)' /\ Counted(w, -1)'
        /\ Others(w)
    BY <1>1, <1>2, <1>3, <1>4, <1>5, <1>6, <2>1, CounterSaved
  <2>3. pc'[w] = "markCancelled"
    BY <1>1, <2>2 DEF TypeInv, TypeOK
  <2>4. LocksOK(w)'
    BY <1>1, <1>2, <1>3, <1>4, <2>2, <2>3, LocksStay
       DEF WorkerOK, Writing, CouponHeld
  <2>5. MemoryOK(w)'
    BY <1>2, <2>2, <2>3 DEF MemoryOK, Guarded, Writing
  <2>6. TransactionOK(w)'
    <3>1. OrderHeld(w)'
      BY <1>2, <1>3, <1>4 DEF OrderHeld
    <3>2. Lowered(w)'
      BY <1>3, <1>4, <2>2 DEF Lowered
    <3>3. CancelOK(w)'
      BY <1>3, <1>4, <2>2, <2>3, <3>2 DEF CancelOK
    <3> QED
      BY <1>2, <1>4, <3>1, <3>3 DEF TransactionOK
  <2>7. WorkerOK(w)'
    BY <2>4, <2>5, <2>6 DEF WorkerOK
  <2> QED
    BY <1>2, <1>7, <2>2, <2>3, <2>7 DEF Sound
<1>9. CASE ~RedeemedWithinCap(counted)
  <2>1. /\ counted \in CouponInstance /\ counted.code = c
        /\ counted.redeemed_count = count
        /\ counted.max_redemptions = coupons[c].max_redemptions
    BY <1>6 DEF CouponInstance
  <2>2. /\ coupon' = [coupon EXCEPT ![w] = counted]
        /\ pc' = [pc EXCEPT ![w] = "rollback"]
        /\ resp' = [resp EXCEPT ![w] = Error("SERVER_ERROR")]
        /\ saved' = saved
    BY <1>4, <1>9 DEF SaveRedeemedCount, Raise, Goto
  <2>3. /\ pc'[w] = "rollback" /\ coupon'[w] = counted
        /\ resp'[w] = Error("SERVER_ERROR")
    BY <1>1, <2>2 DEF TypeInv, TypeOK
  <2>4. counted # None
    BY <2>1, NoneAssumption
  <2> HIDE DEF counted, count
  <2>5. coupons[c].redeemed_count \notin 1 .. coupons[c].max_redemptions
    <3>1. ~(count >= 0 /\ count <= coupons[c].max_redemptions)
      BY <1>9, <2>1 DEF RedeemedWithinCap
    <3>2. /\ coupons[c].redeemed_count \in Nat
          /\ coupons[c].max_redemptions \in Nat
      BY <1>6 DEF CouponRow
    <3> HIDE DEF c
    <3> QED
      BY <1>6, <3>1, <3>2
  <2>6. LocksOK(w)'
    BY <1>1, <1>2, <1>4, <1>6, <2>1, <2>3, <2>4, LocksStay
       DEF WorkerOK, Writing
  <2>7. resp'[w] # None
    BY <2>3, ErrorReason DEF Reason
  <2>8. MemoryOK(w)'
    BY <2>3, <2>7 DEF MemoryOK, Guarded, Writing
  <2>9. TransactionOK(w)'
    BY <2>3 DEF TransactionOK, Guarded, Writing
  <2>10. Others(w)
    BY <1>1, <1>4, <2>2 DEF Others, TypeInv, TypeOK
  <2>11. Refused(w)
    BY <1>3, <2>5 DEF Refused, OrderHeld
  <2>12. CouponHeld(w, c)'
    BY <1>3, <1>4, <2>1, <2>3, <2>4 DEF CouponHeld
  <2>13. Refused(w)'
    BY <1>4, <2>11, <2>12 DEF Refused
  <2> QED
    BY <1>2, <1>7, <2>6, <2>8, <2>9, <2>10, <2>11, <2>13 DEF Sound, WorkerOK
<1> QED
  BY <1>8, <1>9

\* redeem attaches the coupon, unless the unique index has another live order
\* of this customer with it.
LEMMA HeldRedeemAttachCoupon ==
  ASSUME HeldInv, NEW w \in Workers, RedeemAttachCoupon(w)
  PROVE  /\ Sound(w)
         /\ pc[w] = "attachCoupon" /\ req[w].op = "redeem"
         /\ \/ /\ pc'[w] = "commit"
               /\ ~ViolatesUniqStandard(orders, req[w].order, Attached(w))
            \/ /\ pc'[w] = "rollback" /\ resp'[w].reason # "SERVER_ERROR"
               /\ coupon[w].type = "STANDARD"
               /\ AlreadyUsed(coupon[w], req[w].customer, orders)
<1> DEFINE o == req[w].order
           c == req[w].code
<1>1. TypeInv /\ WorkerOK(w)
  BY DEF HeldInv
<1>2. /\ pc[w] = "attachCoupon" /\ req[w].op = "redeem"
      /\ o \in Orders /\ c \in Codes
      /\ coupon[w] \in CouponInstance
  <2>1. /\ pc[w] = "attachCoupon" /\ req[w].op = "redeem"
        /\ req[w] \in Requests
    BY <1>1 DEF RedeemAttachCoupon, At, TypeInv, TypeOK, ControlOK
  <2>2. coupon[w] \in CouponInstance
    BY <1>1, <2>1 DEF TypeInv, TypeOK, InstancesOK
  <2> QED
    BY <2>1, <2>2, RequestFields
<1>3. /\ OrderHeld(w) /\ OrderFree(w) /\ CouponHeld(w, c) /\ Counted(w, 1)
      /\ saved[w] = {"redeemed_count"} /\ order[w] = orders[o]
  BY <1>1, <1>2 DEF WorkerOK, TransactionOK, RedeemOK, Guarded, Writing,
                    OrderHeld
<1>4. UNCHANGED <<orders, coupons, orderLock, couponLock, req, coupon, rule>>
  BY DEF RedeemAttachCoupon, tables, locks, client
<1>5. CASE ViolatesUniqStandard(orders, o, Attached(w))
  <2>1. order[w] \in OrderRow
    BY <1>1, <1>2 DEF TypeInv, TypeOK, InstancesOK, Guarded, Writing
  <2>2. /\ Attached(w).coupon = c
        /\ Attached(w).is_single_use = (coupon[w].type = "STANDARD")
        /\ Attached(w).user = req[w].customer
    BY <1>3, <2>1 DEF Attached, OrderRow, CouponHeld, OrderFree
  <2>3. /\ coupon[w].type = "STANDARD"
        /\ \E p \in Orders : /\ Active(orders[p], c)
                             /\ orders[p].user = req[w].customer
    BY <1>5, <2>2 DEF ViolatesUniqStandard, InIndex, Active
  <2>4. AlreadyUsed(coupon[w], req[w].customer, orders)
    BY <1>3, <2>3 DEF AlreadyUsed, CouponHeld
  <2>5. /\ pc' = [pc EXCEPT ![w] = "rollback"]
        /\ resp' = [resp EXCEPT ![w] = Error("CUSTOMER_ALREADY_REDEEMED")]
        /\ saved' = saved
        /\ order' = [order EXCEPT ![w] = Attached(w)]
    BY <1>5 DEF RedeemAttachCoupon, Raise, Goto
  <2>6. /\ pc'[w] = "rollback"
        /\ resp'[w] = Error("CUSTOMER_ALREADY_REDEEMED")
    BY <1>1, <2>5 DEF TypeInv, TypeOK
  <2>7. resp'[w] # None /\ resp'[w].reason # "SERVER_ERROR"
    BY <2>6, ErrorReason DEF Reason
  <2>8. Others(w)
    BY <1>1, <1>4, <2>5 DEF Others, TypeInv, TypeOK
  <2>9. LocksOK(w)'
    BY <1>1, <1>2, <1>4, <2>6, LocksStay DEF WorkerOK, Writing
  <2>10. MemoryOK(w)'
    BY <2>6, <2>7 DEF MemoryOK, Guarded, Writing
  <2>11. TransactionOK(w)'
    BY <2>6 DEF TransactionOK, Guarded, Writing
  <2>12. WorkerOK(w)'
    BY <2>9, <2>10, <2>11 DEF WorkerOK
  <2> QED
    BY <1>2, <1>4, <2>3, <2>4, <2>6, <2>7, <2>8, <2>12, KeptByLocalStep
       DEF Sound
<1>6. CASE ~ViolatesUniqStandard(orders, o, Attached(w))
  <2>1. /\ pc' = [pc EXCEPT ![w] = "commit"]
        /\ resp' = [resp EXCEPT ![w] = Success(remaining(coupon[w]), FALSE)]
        /\ saved' = [saved EXCEPT ![w] = @ \cup {"coupon", "is_single_use"}]
        /\ order' = [order EXCEPT ![w] = Attached(w)]
    BY <1>6 DEF RedeemAttachCoupon, Return, Goto
  <2>2. Others(w)
    BY <1>1, <1>4, <2>1 DEF Others, TypeInv, TypeOK
  <2>3. /\ pc'[w] = "commit" /\ order'[w] = Attached(w)
        /\ resp'[w] # None /\ ~resp'[w].replayed
        /\ saved'[w] = {"redeemed_count", "coupon", "is_single_use"}
    <3>1. /\ Success(remaining(coupon[w]), FALSE) # None
          /\ ~Success(remaining(coupon[w]), FALSE).replayed
      <4>1. remaining(coupon[w]) \in Int \cup {None}
        BY <1>2, RemainingType
      <4> QED
        BY <4>1, SuccessReplayed
    <3>2. pc'[w] = "commit" /\ order'[w] = Attached(w)
      BY <1>1, <2>1 DEF TypeInv, TypeOK
    <3>3. resp'[w] = Success(remaining(coupon[w]), FALSE)
      BY <1>1, <2>1 DEF TypeInv, TypeOK
    <3>4. saved'[w] = saved[w] \cup {"coupon", "is_single_use"}
      BY <1>1, <2>1 DEF TypeInv, TypeOK
    <3> QED
      BY <1>3, <3>1, <3>2, <3>3, <3>4
  <2>4. LocksOK(w)'
    BY <1>1, <1>2, <1>4, <2>3, LocksStay DEF WorkerOK, Writing
  <2>5. MemoryOK(w)'
    BY <2>3 DEF MemoryOK, Guarded, Writing
  <2>6. TransactionOK(w)'
    <3>1. OrderHeld(w)'
      BY <1>3, <1>4, <2>3 DEF OrderHeld
    <3>2. OrderFree(w)' /\ CouponHeld(w, req[w].code)' /\ Counted(w, 1)'
      BY <1>3, <1>4 DEF OrderFree, CouponHeld, Counted
    <3>3. OrderAttached(w)'
      BY <1>3, <1>4, <2>3 DEF OrderAttached, Attached
    <3>4. RedeemOK(w)'
      BY <2>3, <3>2, <3>3 DEF RedeemOK
    <3> QED
      BY <1>2, <1>4, <3>1, <3>4 DEF TransactionOK
  <2>7. WorkerOK(w)'
    BY <2>4, <2>5, <2>6 DEF WorkerOK
  <2> QED
    BY <1>2, <1>4, <1>6, <2>2, <2>3, <2>7, KeptByLocalStep DEF Sound
<1> QED
  BY <1>5, <1>6

\* cancel marks its order.
LEMMA HeldCancelMarkCancelled ==
  ASSUME HeldInv, NEW w \in Workers, CancelMarkCancelled(w)
  PROVE  Sound(w) /\ pc'[w] = "commit"
<1> DEFINE o      == req[w].order
           marked == [order[w] EXCEPT !.status = "CANCELLED"]
<1>1. TypeInv /\ WorkerOK(w)
  BY DEF HeldInv
<1>2. /\ pc[w] = "markCancelled" /\ req[w].op = "cancel"
      /\ coupon[w] \in CouponInstance \cup {None}
  BY <1>1 DEF CancelMarkCancelled, At, TypeInv, TypeOK
<1>3. /\ OrderHeld(w) /\ orders[o].status = "PLACED" /\ Lowered(w)
      /\ saved[w] \subseteq {"redeemed_count"} /\ order[w] = orders[o]
  BY <1>1, <1>2 DEF WorkerOK, TransactionOK, CancelOK, Guarded, Writing,
                    OrderHeld
<1>4. /\ pc' = [pc EXCEPT ![w] = "commit"]
      /\ resp' = [resp EXCEPT ![w] = Success(RemainingOf(coupon[w]), FALSE)]
      /\ saved' = [saved EXCEPT ![w] = @ \cup {"status"}]
      /\ order' = [order EXCEPT ![w] = marked]
      /\ UNCHANGED <<orders, coupons, orderLock, couponLock, req, coupon, rule>>
  BY DEF CancelMarkCancelled, Return, Goto, tables, locks, client
<1>5. Others(w)
  BY <1>1, <1>4 DEF Others, TypeInv, TypeOK
<1>6. /\ pc'[w] = "commit" /\ order'[w] = marked /\ resp'[w] # None
      /\ saved'[w] = saved[w] \cup {"status"}
  <2>1. Success(RemainingOf(coupon[w]), FALSE) # None
    <3>1. coupon[w] # None => remaining(coupon[w]) \in Int
      BY <1>2, RemainingType
    <3>2. RemainingOf(coupon[w]) \in Int \cup {None}
      BY <3>1 DEF RemainingOf
    <3> QED
      BY <3>2, SuccessReplayed
  <2>2. pc'[w] = "commit" /\ order'[w] = marked
    BY <1>1, <1>4 DEF TypeInv, TypeOK
  <2>3. resp'[w] = Success(RemainingOf(coupon[w]), FALSE)
    BY <1>1, <1>4 DEF TypeInv, TypeOK
  <2>4. saved'[w] = saved[w] \cup {"status"}
    BY <1>1, <1>4 DEF TypeInv, TypeOK
  <2> QED
    BY <2>1, <2>2, <2>3, <2>4
<1>7. LocksOK(w)'
  BY <1>1, <1>2, <1>4, <1>6, LocksStay DEF WorkerOK, Writing
<1>8. MemoryOK(w)'
  BY <1>6 DEF MemoryOK, Guarded, Writing
<1>9. TransactionOK(w)'
  <2>1. OrderHeld(w)'
    BY <1>3, <1>4, <1>6 DEF OrderHeld
  <2>2. Lowered(w)'
    BY <1>3, <1>4, <1>6 DEF Lowered, CouponHeld, Counted
  <2>3. OrderCancelled(w)'
    BY <1>3, <1>4, <1>6 DEF OrderCancelled
  <2>4. CancelOK(w)'
    BY <1>3, <1>4, <1>6, <2>2, <2>3 DEF CancelOK
  <2> QED
    BY <1>2, <1>4, <2>1, <2>4 DEF TransactionOK
<1>10. WorkerOK(w)'
  BY <1>7, <1>8, <1>9 DEF WorkerOK
<1> QED
  BY <1>4, <1>5, <1>6, <1>10, KeptByLocalStep DEF Sound

-----------------------------------------------------------------------------
(* What a commit does to the tables.                                       *)

\* A commit keeps to the rows its worker has locked.
LEMMA KeptByCommit ==
  ASSUME NEW w \in Workers, ReleaseLocks(w), NEW o \in Orders,
         orderLock[o] = w,
         \A p \in Orders \ {o} : orders'[p] = orders[p],
         \A d \in Codes : coupons'[d] # coupons[d] => couponLock[d] = w,
         orders'[o].user = orders[o].user,
         \A d \in Codes : Active(orders'[o], d) /\ ~Active(orders[o], d) =>
           couponLock[d] = w
  PROVE  Kept(w)
<1> SUFFICES ASSUME NEW v \in Workers \ {w}
             PROVE  /\ \A p \in Orders :
                         orderLock[p] = v => orders'[p] = orders[p]
                    /\ \A d \in Codes : couponLock[d] = v =>
                         /\ coupons'[d] = coupons[d]
                         /\ \A p \in Orders : Active(orders'[p], d) =>
                              /\ Active(orders[p], d)
                              /\ orders'[p].user = orders[p].user
  BY ReleaseOwn DEF Kept
<1>1. \A p \in Orders : orderLock[p] = v => orders'[p] = orders[p]
  OBVIOUS
<1>2. ASSUME NEW d \in Codes, couponLock[d] = v,
             NEW p \in Orders, Active(orders'[p], d)
      PROVE  Active(orders[p], d) /\ orders'[p].user = orders[p].user
  <2>1. CASE p = o
    BY <1>2, <2>1
  <2>2. CASE p # o
    BY <1>2, <2>2
  <2> QED
    BY <2>1, <2>2
<1> QED
  BY <1>1, <1>2

\* The row a commit installs has the saved columns of the instance.
LEMMA InstalledOrder ==
  ASSUME TypeInv, NEW w \in Workers, NEW o \in Orders,
         orders[o] \in OrderRow, order[w] \in OrderRow,
         orders' = [orders EXCEPT ![o] = SavedOrder(w, @)]
  PROVE  /\ \A p \in Orders \ {o} : orders'[p] = orders[p]
         /\ orders'[o] \in OrderRow /\ orders'[o] # None
         /\ orders'[o].user = orders[o].user
         /\ orders'[o].coupon = IF "coupon" \in saved[w]
                                THEN order[w].coupon ELSE orders[o].coupon
         /\ orders'[o].is_single_use = IF "is_single_use" \in saved[w]
                                       THEN order[w].is_single_use
                                       ELSE orders[o].is_single_use
         /\ orders'[o].status = IF "status" \in saved[w]
                                THEN order[w].status ELSE orders[o].status
<1> DEFINE row == SavedOrder(w, orders[o])
<1>1. /\ row \in OrderRow /\ row.user = orders[o].user
      /\ row.coupon = IF "coupon" \in saved[w]
                      THEN order[w].coupon ELSE orders[o].coupon
      /\ row.is_single_use = IF "is_single_use" \in saved[w]
                             THEN order[w].is_single_use
                             ELSE orders[o].is_single_use
      /\ row.status = IF "status" \in saved[w]
                      THEN order[w].status ELSE orders[o].status
  BY DEF SavedOrder, OrderRow
<1> HIDE DEF row
<1>2. orders' = [orders EXCEPT ![o] = row]
  BY DEF row
<1>3. orders'[o] = row /\ \A p \in Orders \ {o} : orders'[p] = orders[p]
  BY <1>2 DEF TypeInv, TypeOK
<1> QED
  BY <1>1, <1>3, NoneAssumption

\* The coupon a commit installs has the counter of the instance.
LEMMA InstalledCoupon ==
  ASSUME TypeInv, NEW w \in Workers, NEW c \in Codes, NEW delta \in Int,
         "redeemed_count" \in saved[w],
         CouponHeld(w, c), Counted(w, delta), InstallCoupon(w)
  PROVE  /\ coupons[c] # None /\ coupons'[c] # None
         /\ coupons'[c].redeemed_count = coupons[c].redeemed_count + delta
         /\ coupons'[c].redeemed_count <= coupons[c].max_redemptions
         /\ coupons'[c].max_redemptions = coupons[c].max_redemptions
         /\ coupons'[c].type = coupons[c].type
         /\ coupon[w].type = coupons[c].type
         /\ remaining(coupons'[c]) = remaining(coupon[w])
         /\ \A d \in Codes \ {c} : coupons'[d] = coupons[d]
<1> DEFINE n   == coupon[w].redeemed_count
           row == [coupons[c] EXCEPT !.redeemed_count = n]
<1>1. /\ coupon[w].code = c /\ coupons[c] # None /\ coupons[c] \in CouponRow
      /\ coupon[w] = [coupons[c] EXCEPT !.redeemed_count = @ + delta]
      /\ RedeemedWithinCap(coupon[w])
  BY DEF CouponHeld, Counted, TypeInv, TypeOK
<1>2. /\ n = coupons[c].redeemed_count + delta
      /\ coupon[w].max_redemptions = coupons[c].max_redemptions
      /\ coupon[w].type = coupons[c].type
      /\ n \in Nat /\ n <= coupons[c].max_redemptions
  BY <1>1 DEF CouponRow, RedeemedWithinCap
<1>3. /\ row \in CouponInstance /\ row.redeemed_count = n
      /\ row.max_redemptions = coupons[c].max_redemptions
      /\ row.type = coupons[c].type
      /\ remaining(row) = remaining(coupon[w])
  BY <1>1, <1>2 DEF CouponRow, CouponInstance, remaining
<1>4. coupons' = [coupons EXCEPT ![c] = row]
  BY <1>1 DEF InstallCoupon
<1> HIDE DEF row
<1>5. coupons'[c] = row /\ \A d \in Codes \ {c} : coupons'[d] = coupons[d]
  BY <1>4 DEF TypeInv, TypeOK
<1> QED
  BY <1>1, <1>2, <1>3, <1>5, NoneAssumption

\* What the commit of a redemption finds in the tables, under its locks, and
\* what it makes of them: the order takes the coupon, which counts it.
Redeems(w) ==
  LET o == req[w].order
      c == req[w].code
  IN  /\ o \in Orders /\ orderLock[o] = w
      /\ c \in Codes /\ couponLock[c] = w
      /\ orders[o] # None /\ orders[o].status = "PLACED"
      /\ orders[o].coupon = None /\ orders[o].user = req[w].customer
      /\ coupons[c] # None
      /\ coupons[c].redeemed_count + 1 <= coupons[c].max_redemptions
      /\ orders'[o] # None /\ orders'[o].status = "PLACED"
      /\ orders'[o].coupon = c /\ orders'[o].user = orders[o].user
      /\ orders'[o].is_single_use = (coupons[c].type = "STANDARD")
      /\ \A p \in Orders \ {o} : orders'[p] = orders[p]
      /\ coupons'[c] # None
      /\ coupons'[c].redeemed_count = coupons[c].redeemed_count + 1
      /\ coupons'[c].max_redemptions = coupons[c].max_redemptions
      /\ coupons'[c].type = coupons[c].type
      /\ coupon[w] # None
      /\ coupon[w].code = c /\ coupon[w].type = coupons[c].type
      /\ remaining(coupons'[c]) = remaining(coupon[w])
      /\ \A d \in Codes \ {c} : coupons'[d] = coupons[d]

\* The same of a cancellation: the order is closed, and its coupon, if it has
\* one, counts it no longer.
Cancels(w) ==
  LET o == req[w].order
      c == orders[o].coupon
  IN  /\ o \in Orders /\ orderLock[o] = w
      /\ orders[o] # None /\ orders[o].status = "PLACED"
      /\ c \in Codes \cup {None}
      /\ orders'[o] # None /\ orders'[o].status = "CANCELLED"
      /\ orders'[o].coupon = c /\ orders'[o].user = orders[o].user
      /\ orders'[o].is_single_use = orders[o].is_single_use
      /\ \A p \in Orders \ {o} : orders'[p] = orders[p]
      /\ c = None => coupon[w] = None
      /\ c # None =>
           /\ coupons[c] # None /\ couponLock[c] = w
           /\ coupons'[c] # None
           /\ coupons'[c].redeemed_count = coupons[c].redeemed_count - 1
           /\ coupons'[c].max_redemptions = coupons[c].max_redemptions
           /\ coupons'[c].type = coupons[c].type
           /\ coupon[w] # None
           /\ remaining(coupons'[c]) = remaining(coupon[w])
      /\ \A d \in Codes \ {c} : coupons'[d] = coupons[d]

\* What a worker about to commit is at, and what its COMMIT does to its order.
LEMMA CommitInstalls ==
  ASSUME HeldInv, NEW w \in Workers, Commit(w)
  PROVE  LET o == req[w].order IN
         /\ pc[w] = "commit" /\ req[w].op \in {"redeem", "cancel"}
         /\ req[w] \in Requests /\ o \in Orders
         /\ orders[o] \in OrderRow /\ orders[o] # None
         /\ order[w] \in OrderRow
         /\ resp[w] # None /\ orderLock[o] = w
         /\ \A p \in Orders \ {o} : orders'[p] = orders[p]
         /\ orders'[o] \in OrderRow /\ orders'[o] # None
         /\ orders'[o].user = orders[o].user
         /\ orders'[o].coupon = IF "coupon" \in saved[w]
                                THEN order[w].coupon ELSE orders[o].coupon
         /\ orders'[o].is_single_use = IF "is_single_use" \in saved[w]
                                       THEN order[w].is_single_use
                                       ELSE orders[o].is_single_use
         /\ orders'[o].status = IF "status" \in saved[w]
                                THEN order[w].status ELSE orders[o].status
<1> DEFINE o == req[w].order
<1>1. TypeInv /\ WorkerOK(w)
  BY DEF HeldInv
<1>2. /\ pc[w] = "commit" /\ req[w].op \in {"redeem", "cancel"}
      /\ req[w] \in Requests
  BY <1>1 DEF Commit, TypeInv, TypeOK, ControlOK, Serves
<1>3. o \in Orders
  BY <1>2, RequestFields
<1>4. orders[o] \in OrderRow /\ orders[o] # None /\ order[w] \in OrderRow
  BY <1>1, <1>2, <1>3 DEF TypeInv, TypeOK, InstancesOK, Guarded, Writing
<1>5. resp[w] # None /\ orderLock[o] = w
  BY <1>1, <1>2
     DEF WorkerOK, MemoryOK, TransactionOK, OrderHeld, Guarded, Writing
<1>6. orders' = [orders EXCEPT ![o] = SavedOrder(w, @)]
  BY DEF Commit, InstallOrder
<1> QED
  BY <1>1, <1>2, <1>3, <1>4, <1>5, <1>6, InstalledOrder

\* The commit of a transaction that has only read changes nothing.
LEMMA CommitReads ==
  ASSUME HeldInv, NEW w \in Workers, Commit(w), saved[w] = {}
  PROVE  UNCHANGED <<orders, coupons>>
<1> DEFINE o == req[w].order
<1>1. TypeInv /\ TypeInv'
  BY TypeCommit DEF HeldInv
<1>2. coupons' = coupons
  BY DEF Commit, InstallCoupon
<1>3. o \in Orders /\ orders'[o] = orders[o]
  BY CommitInstalls DEF OrderRow
<1>4. \A p \in Orders : orders'[p] = orders[p]
  BY <1>3, CommitInstalls
<1> QED
  BY <1>1, <1>2, <1>4 DEF TypeInv, TypeOK

\* The commit of a redemption that has written.
LEMMA CommitRedeems ==
  ASSUME HeldInv, NEW w \in Workers, Commit(w), saved[w] # {},
         req[w].op = "redeem"
  PROVE  Redeems(w)
<1> DEFINE o == req[w].order
           c == req[w].code
<1>1. TypeInv /\ WorkerOK(w) /\ InstallCoupon(w)
  BY DEF HeldInv, Commit
<1>2. /\ pc[w] = "commit" /\ req[w] \in Requests /\ o \in Orders
      /\ orders[o] \in OrderRow /\ orders[o] # None
      /\ order[w] \in OrderRow /\ orderLock[o] = w
  BY CommitInstalls
<1>3. OrderFree(w) /\ CouponHeld(w, c) /\ Counted(w, 1) /\ OrderAttached(w)
  BY <1>1, <1>2 DEF WorkerOK, TransactionOK, RedeemOK, Guarded, Writing
<1>4. /\ c \in Codes /\ couponLock[c] = w /\ coupon[w].code = c
      /\ coupon[w] # None
      /\ saved[w] = {"redeemed_count", "coupon", "is_single_use"}
  BY <1>2, <1>3, RequestFields DEF CouponHeld, OrderAttached
<1>5. /\ coupons[c] # None /\ coupons'[c] # None
      /\ coupons'[c].redeemed_count = coupons[c].redeemed_count + 1
      /\ coupons'[c].redeemed_count <= coupons[c].max_redemptions
      /\ coupons'[c].max_redemptions = coupons[c].max_redemptions
      /\ coupons'[c].type = coupons[c].type
      /\ coupon[w].type = coupons[c].type
      /\ remaining(coupons'[c]) = remaining(coupon[w])
      /\ \A d \in Codes \ {c} : coupons'[d] = coupons[d]
  BY <1>1, <1>3, <1>4, InstalledCoupon
<1>6. /\ orders[o].status = "PLACED" /\ orders[o].coupon = None
      /\ orders[o].user = req[w].customer
  BY <1>3 DEF OrderFree
<1>7. /\ order[w].coupon = c
      /\ order[w].is_single_use = (coupons[c].type = "STANDARD")
  BY <1>2, <1>3, <1>4, <1>5 DEF OrderAttached, OrderRow
<1>8. /\ orders'[o] # None /\ orders'[o].user = orders[o].user
      /\ orders'[o].status = "PLACED" /\ orders'[o].coupon = c
      /\ orders'[o].is_single_use = (coupons[c].type = "STANDARD")
      /\ \A p \in Orders \ {o} : orders'[p] = orders[p]
  BY <1>4, <1>6, <1>7, CommitInstalls
<1> QED
  BY <1>2, <1>4, <1>5, <1>6, <1>8 DEF Redeems

\* The commit of a cancellation that has written.
LEMMA CommitCancels ==
  ASSUME HeldInv, NEW w \in Workers, Commit(w), saved[w] # {},
         req[w].op = "cancel"
  PROVE  Cancels(w)
<1> DEFINE o == req[w].order
           c == orders[o].coupon
<1>1. TypeInv /\ WorkerOK(w) /\ InstallCoupon(w)
  BY DEF HeldInv, Commit
<1>2. /\ pc[w] = "commit" /\ o \in Orders
      /\ orders[o] \in OrderRow /\ orders[o] # None
      /\ order[w] \in OrderRow /\ orderLock[o] = w
  BY CommitInstalls
<1>3. orders[o].status = "PLACED" /\ Lowered(w) /\ OrderCancelled(w)
  BY <1>1, <1>2 DEF WorkerOK, TransactionOK, CancelOK, Guarded, Writing
<1>4. /\ order[w].status = "CANCELLED"
      /\ "status" \in saved[w]
      /\ "coupon" \notin saved[w] /\ "is_single_use" \notin saved[w]
  BY <1>2, <1>3 DEF OrderCancelled, OrderRow
<1>5. /\ orders'[o] # None /\ orders'[o].user = orders[o].user
      /\ orders'[o].status = "CANCELLED" /\ orders'[o].coupon = c
      /\ orders'[o].is_single_use = orders[o].is_single_use
      /\ \A p \in Orders \ {o} : orders'[p] = orders[p]
  BY <1>4, CommitInstalls
<1>6. c \in Codes \cup {None}
  BY <1>2 DEF OrderRow
<1>7. CASE c = None
  <2>1. coupon[w] = None /\ coupons' = coupons
    BY <1>1, <1>3, <1>7 DEF Lowered, InstallCoupon
  <2> QED
    BY <1>2, <1>3, <1>5, <1>6, <1>7, <2>1 DEF Cancels
<1>8. CASE c # None
  <2>1. /\ c \in Codes /\ CouponHeld(w, c) /\ Counted(w, -1)
        /\ "redeemed_count" \in saved[w]
    BY <1>3, <1>6, <1>8 DEF Lowered
  <2>2. /\ coupons[c] # None /\ coupons'[c] # None
        /\ coupons'[c].redeemed_count = coupons[c].redeemed_count + (-1)
        /\ coupons'[c].max_redemptions = coupons[c].max_redemptions
        /\ coupons'[c].type = coupons[c].type
        /\ remaining(coupons'[c]) = remaining(coupon[w])
        /\ \A d \in Codes \ {c} : coupons'[d] = coupons[d]
    BY <1>1, <2>1, InstalledCoupon
  <2>3. coupons[c].redeemed_count \in Nat
    BY <1>1, <2>1, <2>2 DEF TypeInv, TypeOK, CouponRow
  <2>4. coupons'[c].redeemed_count = coupons[c].redeemed_count - 1
    BY <2>2, <2>3
  <2>5. coupon[w] # None /\ couponLock[c] = w
    BY <2>1 DEF CouponHeld
  <2> QED
    BY <1>2, <1>3, <1>5, <1>6, <1>8, <2>2, <2>4, <2>5 DEF Cancels
<1> QED
  BY <1>7, <1>8

\* A commit leaves the locks and locked rows of the others alone.
LEMMA CommitKeeps ==
  ASSUME HeldInv, NEW w \in Workers, Commit(w)
  PROVE  Kept(w)
<1> DEFINE o == req[w].order
<1>1. ReleaseLocks(w) /\ o \in Orders /\ orderLock[o] = w
  BY CommitInstalls DEF Commit
<1>2. req[w].op \in {"redeem", "cancel"}
  BY CommitInstalls
<1>3. CASE saved[w] = {}
  BY <1>1, <1>3, CommitReads, KeptByCommit
<1>4. CASE saved[w] # {} /\ req[w].op = "redeem"
  <2>1. Redeems(w)
    BY <1>4, CommitRedeems
  <2> QED
    BY <1>1, <2>1, KeptByCommit DEF Redeems, Active
<1>5. CASE saved[w] # {} /\ req[w].op = "cancel"
  <2>1. Cancels(w)
    BY <1>5, CommitCancels
  <2>2. \A d \in Codes : coupons'[d] # coupons[d] => couponLock[d] = w
    BY <2>1, NoneAssumption DEF Cancels
  <2> QED
    BY <1>1, <2>1, <2>2, KeptByCommit DEF Cancels, Active
<1> QED
  BY <1>2, <1>3, <1>4, <1>5

\* COMMIT ends the transaction.
LEMMA HeldCommit ==
  ASSUME HeldInv, NEW w \in Workers, Commit(w)
  PROVE  Sound(w)
<1>1. TypeInv /\ WorkerOK(w)
  BY DEF HeldInv
<1>2. /\ ReleaseLocks(w) /\ Forget(w)
      /\ pc' = [pc EXCEPT ![w] = "respond"]
      /\ UNCHANGED <<req, resp>>
  BY DEF Commit, Goto, client
<1>3. Others(w)
  BY <1>1, <1>2, EndType DEF Others, TypeInv, TypeOK
<1>4. pc'[w] = "respond" /\ resp'[w] # None
  BY <1>1, <1>2, CommitInstalls DEF TypeInv, TypeOK
<1>5. WorkerOK(w)'
  BY <1>1, <1>2, <1>4, EndSafe
<1> QED
  BY <1>3, <1>5, CommitKeeps DEF Sound

-----------------------------------------------------------------------------
(* All steps.                                                              *)

\* The steps of one worker: all there is but the clock.
WorkerStep(w) ==
  \/ \E r \in Requests : Receive(w, r)
  \/ LockStep(w)
  \/ LocalStep(w)
  \/ Crash(w)

\* A step is one worker's, the clock's, or nobody's.
LEMMA NextSteps ==
  ASSUME [Next]_vars
  PROVE  \/ \E w \in Workers : WorkerStep(w)
         \/ Tick
         \/ UNCHANGED vars
BY DEF Next, WorkerStep

\* Every step of a worker is sound.
LEMMA HeldStep ==
  ASSUME HeldInv, NEW w \in Workers, WorkerStep(w)
  PROVE  Sound(w)
<1>1. CASE LockStep(w)
  BY <1>1, HeldRedeemLockOrder, HeldRedeemReplay, HeldRedeemLockCoupon,
     HeldCancelLockOrder, HeldCancelLockCoupon
     DEF LockStep, RedeemLock, CancelLock
<1>2. CASE RedeemStep(w)
  BY <1>2, HeldRedeemEnforcePolicy, HeldRedeemSaveCount, HeldRedeemAttachCoupon
     DEF RedeemStep
<1>3. CASE CancelStep(w)
  BY <1>3, HeldCancelSaveCount, HeldCancelMarkCancelled DEF CancelStep
<1>4. CASE SeedingStep(w)
  BY <1>4, HeldInsertUser, HeldInsertCoupon, HeldCheckUser, HeldInsertOrder
     DEF SeedingStep
<1> QED
  BY <1>1, <1>2, <1>3, <1>4, HeldReceive, HeldQueryReadCoupon, HeldCommit,
     HeldRollback, HeldRespond, HeldCrash DEF WorkerStep, LocalStep

\* The clock moves nobody.
LEMMA HeldTick ==
  ASSUME HeldInv, Tick \/ UNCHANGED vars, TypeInv'
  PROVE  HeldInv'
<1>1. UNCHANGED <<orders, coupons, orderLock, couponLock, pc, req, order,
                  coupon, rule, saved, resp>>
  BY DEF Tick, vars, tables, locks, client, instance
<1>2. ASSUME NEW v \in Workers PROVE WorkerOK(v)'
  <2>1. Untouched(v)
    BY <1>1 DEF Untouched
  <2> QED
    BY <2>1, WorkerStays DEF HeldInv
<1> QED
  BY <1>2 DEF HeldInv

-----------------------------------------------------------------------------
(* What a step writes.                                                     *)

\* The ways a step changes the tables.
UserAdded(w) ==
  /\ InsertUser(w)
  /\ req[w].customer \in Customers
  /\ users' = users \cup {req[w].customer}
  /\ UNCHANGED <<orders, coupons>>

CouponAdded(w) ==
  LET c == req[w].code
  IN  /\ InsertCoupon(w)
      /\ c \in Codes /\ coupons[c] = None
      /\ req[w].row \in CouponRow /\ req[w].row.redeemed_count = 0
      /\ coupons' = [coupons EXCEPT ![c] = req[w].row]
      /\ UNCHANGED <<users, orders>>

OrderAdded(w) ==
  LET o == req[w].order
  IN  /\ InsertOrder(w)
      /\ o \in Orders /\ orders[o] = None /\ req[w].customer \in Customers
      /\ orders' = [orders EXCEPT ![o] = NewOrder(req[w].customer)]
      /\ UNCHANGED <<users, coupons>>

Written(w) ==
  /\ Commit(w) /\ saved[w] # {}
  /\ users' = users
  /\ \/ req[w].op = "redeem" /\ Redeems(w)
     \/ req[w].op = "cancel" /\ Cancels(w)

Writes(w) ==
  \/ UNCHANGED tables
  \/ UserAdded(w)
  \/ CouponAdded(w)
  \/ OrderAdded(w)
  \/ Written(w)

\* Nothing writes a table but the three INSERTs and a COMMIT.
LEMMA StepWrites ==
  ASSUME HeldInv, NEW w \in Workers, WorkerStep(w)
  PROVE  Writes(w)
<1>1. TypeInv
  BY DEF HeldInv
<1>2. CASE (\E r \in Requests : Receive(w, r)) \/ Crash(w)
  BY <1>2 DEF Receive, Crash, Writes
<1>3. CASE LockStep(w)
  BY <1>3 DEF LockStep, RedeemLock, CancelLock, RedeemLockOrder, RedeemReplay,
              RedeemLockCoupon, CancelLockOrder, CancelLockCoupon, Writes
<1>4. CASE RedeemStep(w) \/ CancelStep(w)
  BY <1>4 DEF RedeemStep, CancelStep, RedeemEnforcePolicy, RedeemSaveCount,
              RedeemAttachCoupon, CancelSaveCount, CancelMarkCancelled, Writes
<1>5. CASE QueryReadCoupon(w) \/ CheckUser(w) \/ Rollback(w) \/ Respond(w)
  BY <1>5 DEF QueryReadCoupon, CheckUser, Rollback, Respond, Writes
<1>6. CASE InsertUser(w)
  <2>1. req[w] \in Requests /\ req[w].op = "create_user"
    BY <1>1, <1>6 DEF InsertUser, At, TypeInv, TypeOK, ControlOK
  <2> QED
    BY <1>6, <2>1, RequestFields DEF InsertUser, UserAdded, Writes
<1>7. CASE InsertCoupon(w)
  <2>1. req[w] \in Requests /\ req[w].op = "create_coupon"
    BY <1>1, <1>7 DEF InsertCoupon, At, TypeInv, TypeOK, ControlOK
  <2>2. /\ req[w].code \in Codes /\ req[w].row \in CouponRow
        /\ req[w].row.redeemed_count = 0
    BY <2>1, RequestFields
  <2> QED
    BY <1>7, <2>2 DEF InsertCoupon, CouponAdded, Writes, tables
<1>8. CASE InsertOrder(w)
  <2>1. req[w] \in Requests /\ req[w].op = "create_order"
    BY <1>1, <1>8 DEF InsertOrder, At, TypeInv, TypeOK, ControlOK
  <2>2. req[w].order \in Orders /\ req[w].customer \in Customers
    BY <2>1, RequestFields
  <2> QED
    BY <1>8, <2>2 DEF InsertOrder, OrderAdded, Writes, tables
<1>9. CASE Commit(w)
  <2>1. users' = users /\ req[w].op \in {"redeem", "cancel"}
    BY <1>9, CommitInstalls DEF Commit
  <2> QED
    BY <1>9, <2>1, CommitReads, CommitRedeems, CommitCancels
       DEF Written, Writes, tables
<1> QED
  BY <1>2, <1>3, <1>4, <1>5, <1>6, <1>7, <1>8, <1>9
     DEF WorkerStep, LocalStep, SeedingStep

-----------------------------------------------------------------------------
(* Counters and holders.                                                   *)

\* The live orders that carry a coupon are a finite set.
LEMMA HoldersFinite ==
  ASSUME NEW c \in Codes
  PROVE  IsFiniteSet(Holders(c)) /\ Cardinality(Holders(c)) \in Nat
<1>1. Holders(c) \in SUBSET Orders
  BY DEF Holders
<1>2. IsFiniteSet(Holders(c))
  BY <1>1, OrdersAssumption, FS_Subset
<1> QED
  BY <1>2, FS_CardinalityType

\* A coupon just created is on no order.
LEMMA NoHolders ==
  ASSUME TypeInv, SingleUseAgrees, NEW c \in Codes, coupons[c] = None
  PROVE  Holders(c) = {}
BY NoneAssumption DEF Holders, Active, SingleUseAgrees

\* An INSERT adds no holder.
LEMMA HoldersKept ==
  ASSUME TypeInv, NEW w \in Workers,
         UNCHANGED tables \/ UserAdded(w) \/ CouponAdded(w) \/ OrderAdded(w),
         NEW c \in Codes
  PROVE  /\ Holders(c)' = Holders(c)
         /\ \A p \in Holders(c) : orders'[p] = orders[p]
<1>1. CASE UNCHANGED tables \/ UserAdded(w) \/ CouponAdded(w)
  <2>1. orders' = orders
    BY <1>1 DEF tables, UserAdded, CouponAdded
  <2> QED
    BY <2>1 DEF Holders, Active
<1>2. CASE OrderAdded(w)
  <2> DEFINE o   == req[w].order
             row == NewOrder(req[w].customer)
  <2>1. /\ o \in Orders /\ orders[o] = None
        /\ orders' = [orders EXCEPT ![o] = row]
    BY <1>2 DEF OrderAdded
  <2>2. row.coupon = None
    BY DEF NewOrder
  <2> HIDE DEF row
  <2>3. orders'[o] = row /\ \A p \in Orders \ {o} : orders'[p] = orders[p]
    BY <2>1 DEF TypeInv, TypeOK
  <2>4. \A p \in Orders : Active(orders'[p], c) <=> Active(orders[p], c)
    BY <2>1, <2>2, <2>3, NoneAssumption DEF Active
  <2> QED
    BY <2>1, <2>3, <2>4 DEF Holders, Active
<1> QED
  BY <1>1, <1>2

\* A redemption adds its order to the holders of its coupon.
LEMMA HoldersRedeemed ==
  ASSUME TypeInv, NEW w \in Workers, Redeems(w),
         NEW o, o = req[w].order, NEW c, c = req[w].code
  PROVE  /\ Holders(c)' = Holders(c) \cup {o} /\ o \notin Holders(c)
         /\ \A d \in Codes \ {c} : Holders(d)' = Holders(d)
         /\ \A d \in Codes : \A p \in Holders(d) : orders'[p] = orders[p]
         /\ Cardinality(Holders(c)') = Cardinality(Holders(c)) + 1
<1>1. /\ o \in Orders /\ c \in Codes /\ orders[o].coupon = None
      /\ orders'[o] # None /\ orders'[o].status = "PLACED"
      /\ orders'[o].coupon = c
      /\ \A p \in Orders \ {o} : orders'[p] = orders[p]
  BY DEF Redeems
<1>2. \A p \in Orders, d \in Codes : Active(orders'[p], d) <=>
        Active(orders[p], d) \/ (p = o /\ d = c)
  BY <1>1, NoneAssumption DEF Active
<1>3. \A d \in Codes : ~Active(orders[o], d)
  BY <1>1, NoneAssumption DEF Active
<1>4. /\ Holders(c)' = Holders(c) \cup {o} /\ o \notin Holders(c)
      /\ \A d \in Codes \ {c} : Holders(d)' = Holders(d)
      /\ \A d \in Codes : \A p \in Holders(d) : orders'[p] = orders[p]
  BY <1>1, <1>2, <1>3 DEF Holders
<1>5. Cardinality(Holders(c)') = Cardinality(Holders(c)) + 1
  BY <1>1, <1>4, HoldersFinite, FS_AddElement
<1> QED
  BY <1>4, <1>5

\* A cancellation takes its order off.
LEMMA HoldersCancelled ==
  ASSUME TypeInv, NEW w \in Workers, Cancels(w), NEW d \in Codes
  PROVE  LET o == req[w].order
             c == orders[o].coupon
         IN  /\ Holders(d)' = Holders(d) \ {o}
             /\ \A p \in Holders(d)' : orders'[p] = orders[p]
             /\ d # c => Holders(d)' = Holders(d)
             /\ d = c => Cardinality(Holders(d)') = Cardinality(Holders(d)) - 1
<1> DEFINE o == req[w].order
           c == orders[o].coupon
<1>1. /\ o \in Orders /\ orders[o] # None /\ orders[o].status = "PLACED"
      /\ orders'[o].status = "CANCELLED"
      /\ \A p \in Orders \ {o} : orders'[p] = orders[p]
  BY DEF Cancels
<1>2. /\ \A p \in Orders : Active(orders'[p], d) <=>
                             Active(orders[p], d) /\ p # o
      /\ Active(orders[o], d) <=> d = c
  BY <1>1 DEF Active
<1>3. /\ Holders(d)' = Holders(d) \ {o}
      /\ o \in Holders(d) <=> d = c
      /\ \A p \in Holders(d)' : orders'[p] = orders[p]
  BY <1>1, <1>2 DEF Holders
<1>4. Cardinality(Holders(d) \ {o}) = IF o \in Holders(d)
                                      THEN Cardinality(Holders(d)) - 1
                                      ELSE Cardinality(Holders(d))
  <2> HIDE DEF o
  <2> QED
    BY HoldersFinite, FS_RemoveElement
<1> QED
  BY <1>3, <1>4

\* Whatever a step writes, a counter moves with the holders it should count,
\* and nothing else of a coupon changes.
LEMMA DriftStays ==
  ASSUME TypeInv, NEW w \in Workers, Writes(w),
         NEW c \in Codes, coupons[c] # None
  PROVE  /\ coupons'[c] # None
         /\ coupons'[c].type = coupons[c].type
         /\ coupons'[c].max_redemptions = coupons[c].max_redemptions
         /\ Cardinality(Holders(c)) \in Nat
         /\ \/ /\ coupons'[c].redeemed_count = coupons[c].redeemed_count
               /\ Holders(c)' = Holders(c)
            \/ /\ coupons'[c].redeemed_count = coupons[c].redeemed_count + 1
               /\ coupons'[c].redeemed_count <= coupons[c].max_redemptions
               /\ Cardinality(Holders(c)') = Cardinality(Holders(c)) + 1
            \/ /\ coupons'[c].redeemed_count = coupons[c].redeemed_count - 1
               /\ Cardinality(Holders(c)') = Cardinality(Holders(c)) - 1
<1>1. Cardinality(Holders(c)) \in Nat
  BY HoldersFinite
<1>2. CASE UNCHANGED tables \/ UserAdded(w) \/ CouponAdded(w) \/ OrderAdded(w)
  <2>1. coupons'[c] = coupons[c]
    BY <1>2 DEF tables, UserAdded, CouponAdded, OrderAdded, TypeInv, TypeOK
  <2>2. Holders(c)' = Holders(c)
    BY <1>2, HoldersKept
  <2> QED
    BY <1>1, <2>1, <2>2
<1>3. CASE Redeems(w)
  <2>1. CASE c = req[w].code
    <3>1. Cardinality(Holders(c)') = Cardinality(Holders(c)) + 1
      BY <1>3, <2>1, HoldersRedeemed
    <3>2. /\ coupons'[c] # None
          /\ coupons'[c].redeemed_count = coupons[c].redeemed_count + 1
          /\ coupons[c].redeemed_count + 1 <= coupons[c].max_redemptions
          /\ coupons'[c].max_redemptions = coupons[c].max_redemptions
          /\ coupons'[c].type = coupons[c].type
      BY <1>3, <2>1 DEF Redeems
    <3> QED
      BY <1>1, <3>1, <3>2
  <2>2. CASE c # req[w].code
    <3>1. coupons'[c] = coupons[c]
      BY <1>3, <2>2 DEF Redeems
    <3>2. Holders(c)' = Holders(c)
      BY <1>3, <2>2, HoldersRedeemed
    <3> QED
      BY <1>1, <3>1, <3>2
  <2> QED
    BY <2>1, <2>2
<1>4. CASE Cancels(w)
  <2>1. CASE c = orders[req[w].order].coupon
    <3>1. /\ coupons'[c] # None
          /\ coupons'[c].redeemed_count = coupons[c].redeemed_count - 1
          /\ coupons'[c].max_redemptions = coupons[c].max_redemptions
          /\ coupons'[c].type = coupons[c].type
      BY <1>4, <2>1, NoneAssumption DEF Cancels
    <3>2. Cardinality(Holders(c)') = Cardinality(Holders(c)) - 1
      BY <1>4, <2>1, HoldersCancelled
    <3> QED
      BY <1>1, <3>1, <3>2
  <2>2. CASE c # orders[req[w].order].coupon
    <3>1. coupons'[c] = coupons[c]
      BY <1>4, <2>2 DEF Cancels
    <3>2. Holders(c)' = Holders(c)
      BY <1>4, <2>2, HoldersCancelled
    <3> QED
      BY <1>1, <3>1, <3>2
  <2> QED
    BY <2>1, <2>2
<1> QED
  BY <1>2, <1>3, <1>4 DEF Writes, Written

\* A coupon that a step adds is counted 0, and on no order.
LEMMA CouponNew ==
  ASSUME TypeInv, SingleUseAgrees, NEW w \in Workers, Writes(w),
         NEW c \in Codes, coupons[c] = None, coupons'[c] # None
  PROVE  coupons'[c].redeemed_count = 0 /\ Holders(c)' = {}
<1>1. CASE CouponAdded(w)
  <2>1. coupons'[c] = req[w].row /\ req[w].row.redeemed_count = 0
    BY <1>1 DEF CouponAdded, TypeInv, TypeOK
  <2>2. Holders(c)' = Holders(c)
    BY <1>1, HoldersKept
  <2> QED
    BY <2>1, <2>2, NoHolders
<1>2. CASE UNCHANGED tables \/ UserAdded(w) \/ OrderAdded(w)
  BY <1>2 DEF tables, UserAdded, OrderAdded
<1>3. CASE Redeems(w)
  BY <1>3 DEF Redeems
<1>4. CASE Cancels(w)
  <2>1. CASE c = orders[req[w].order].coupon
    BY <1>4, <2>1, NoneAssumption DEF Cancels
  <2>2. CASE c # orders[req[w].order].coupon
    BY <1>4, <2>2 DEF Cancels
  <2> QED
    BY <2>1, <2>2
<1> QED
  BY <1>1, <1>2, <1>3, <1>4 DEF Writes, Written

\* The counters as the CHECK constraints see them, and the live orders as the
\* unique index does.
WithinCaps ==
  \A c \in Codes : coupons[c] # None =>
    coupons[c].redeemed_count <= coupons[c].max_redemptions

OneUseEach ==
  \A c \in Codes : coupons[c] # None /\ coupons[c].type = "STANDARD" =>
    \A o, p \in Holders(c) : orders[o].user = orders[p].user => o = p

\* Where the counters count, these are the limits of a coupon.
LEMMA LimitsAre ==
  ASSUME CountMatchesHolders
  PROVE  RedemptionLimits <=> WithinCaps /\ OneUseEach
BY DEF CountMatchesHolders, RedemptionLimits, WithinCaps, OneUseEach

LEMMA CapsStay ==
  ASSUME TypeInv, TypeInv', SingleUseAgrees, NEW w \in Workers, Writes(w),
         WithinCaps
  PROVE  WithinCaps'
<1> SUFFICES ASSUME NEW c \in Codes, coupons'[c] # None
             PROVE  coupons'[c].redeemed_count <= coupons'[c].max_redemptions
  BY DEF WithinCaps
<1>1. coupons'[c] \in CouponRow
  BY DEF TypeInv, TypeOK
<1>2. CASE coupons[c] = None
  <2>1. coupons'[c].redeemed_count = 0
    BY <1>2, CouponNew
  <2> QED
    BY <1>1, <2>1 DEF CouponRow
<1>3. CASE coupons[c] # None
  <2>1. /\ coupons[c].redeemed_count <= coupons[c].max_redemptions
        /\ coupons[c] \in CouponRow
    BY <1>3 DEF WithinCaps, TypeInv, TypeOK
  <2>2. /\ coupons'[c].max_redemptions = coupons[c].max_redemptions
        /\ \/ coupons'[c].redeemed_count = coupons[c].redeemed_count
           \/ coupons'[c].redeemed_count <= coupons[c].max_redemptions
           \/ coupons'[c].redeemed_count = coupons[c].redeemed_count - 1
    BY <1>3, DriftStays
  <2> QED
    BY <2>1, <2>2 DEF CouponRow
<1> QED
  BY <1>2, <1>3

LEMMA CountsStay ==
  ASSUME TypeInv, TypeInv', SingleUseAgrees, NEW w \in Workers, Writes(w),
         CountMatchesHolders
  PROVE  CountMatchesHolders'
<1> SUFFICES ASSUME NEW c \in Codes, coupons'[c] # None
             PROVE  coupons'[c].redeemed_count = Cardinality(Holders(c)')
  BY DEF CountMatchesHolders
<1>1. CASE coupons[c] = None
  BY <1>1, CouponNew, FS_EmptySet
<1>2. CASE coupons[c] # None
  <2>1. coupons[c].redeemed_count = Cardinality(Holders(c))
    BY <1>2 DEF CountMatchesHolders
  <2> QED
    BY <1>2, <2>1, DriftStays
<1> QED
  BY <1>1, <1>2

\* The copy of the coupon's type on an order stays true to it.
LEMMA AgreeStays ==
  ASSUME TypeInv, TypeInv', SingleUseAgrees, NEW w \in Workers, Writes(w)
  PROVE  SingleUseAgrees'
<1> SUFFICES ASSUME NEW o \in Orders, orders'[o] # None,
                    orders'[o].coupon # None
             PROVE  /\ coupons'[orders'[o].coupon] # None
                    /\ orders'[o].is_single_use =
                         (coupons'[orders'[o].coupon].type = "STANDARD")
  BY DEF SingleUseAgrees
<1>1. ASSUME orders[o] # None, orders'[o].coupon = orders[o].coupon,
             orders'[o].is_single_use = orders[o].is_single_use
      PROVE  /\ coupons'[orders'[o].coupon] # None
             /\ orders'[o].is_single_use =
                  (coupons'[orders'[o].coupon].type = "STANDARD")
  <2> DEFINE c == orders[o].coupon
  <2>1. /\ c \in Codes /\ coupons[c] # None
        /\ orders[o].is_single_use = (coupons[c].type = "STANDARD")
    BY <1>1 DEF SingleUseAgrees, TypeInv, TypeOK, OrderRow
  <2>2. coupons'[c] # None /\ coupons'[c].type = coupons[c].type
    BY <2>1, DriftStays
  <2> QED
    BY <1>1, <2>1, <2>2
<1>2. CASE UNCHANGED tables \/ UserAdded(w) \/ CouponAdded(w)
  BY <1>1, <1>2 DEF tables, UserAdded, CouponAdded
<1>3. CASE OrderAdded(w)
  <2> DEFINE new == req[w].order
             row == NewOrder(req[w].customer)
  <2>1. /\ new \in Orders /\ row.coupon = None
        /\ orders' = [orders EXCEPT ![new] = row]
    BY <1>3 DEF OrderAdded, NewOrder
  <2> HIDE DEF row
  <2>2. o # new /\ orders'[o] = orders[o]
    BY <2>1 DEF TypeInv, TypeOK
  <2> QED
    BY <1>1, <2>2
<1>4. CASE Redeems(w)
  <2>1. CASE o = req[w].order
    BY <1>4, <2>1 DEF Redeems
  <2>2. CASE o # req[w].order
    <3>1. orders'[o] = orders[o]
      BY <1>4, <2>2 DEF Redeems
    <3> QED
      BY <1>1, <3>1
  <2> QED
    BY <2>1, <2>2
<1>5. CASE Cancels(w)
  <2>1. /\ orders[o] # None /\ orders'[o].coupon = orders[o].coupon
        /\ orders'[o].is_single_use = orders[o].is_single_use
    BY <1>5 DEF Cancels
  <2> QED
    BY <1>1, <2>1
<1> QED
  BY <1>2, <1>3, <1>4, <1>5 DEF Writes, Written

\* No customer comes to hold a STANDARD coupon twice, if the redemption that
\* commits it finds none of its customer's.
LEMMA OneUseStays ==
  ASSUME TypeInv, SingleUseAgrees, NEW w \in Workers, Writes(w), OneUseEach,
         /\ Written(w) /\ req[w].op = "redeem"
         /\ coupon[w].type = "STANDARD"
         => ~AlreadyUsed(coupon[w], req[w].customer, orders)
  PROVE  OneUseEach'
<1> SUFFICES ASSUME NEW c \in Codes, coupons'[c] # None,
                    coupons'[c].type = "STANDARD",
                    NEW p \in Holders(c)', NEW q \in Holders(c)',
                    orders'[p].user = orders'[q].user
             PROVE  p = q
  BY DEF OneUseEach
<1>1. coupons[c] # None /\ coupons[c].type = "STANDARD"
  <2>1. coupons[c] # None
    BY CouponNew
  <2> QED
    BY <2>1, DriftStays
<1>2. \A r, s \in Holders(c) : orders[r].user = orders[s].user => r = s
  BY <1>1 DEF OneUseEach
<1>3. ASSUME \A r \in Holders(c)' : r \in Holders(c) /\ orders'[r] = orders[r]
      PROVE  p = q
  BY <1>2, <1>3
<1>4. CASE UNCHANGED tables \/ UserAdded(w) \/ CouponAdded(w) \/ OrderAdded(w)
  BY <1>3, <1>4, HoldersKept
<1>5. CASE Cancels(w)
  <2>1. \A r \in Holders(c)' : r \in Holders(c) /\ orders'[r] = orders[r]
    BY <1>5, HoldersCancelled
  <2> QED
    BY <1>3, <2>1
<1>6. CASE Written(w) /\ req[w].op = "redeem" /\ Redeems(w)
  <2> DEFINE o == req[w].order
  <2>1. CASE c # req[w].code
    <3>1. \A r \in Holders(c)' : r \in Holders(c) /\ orders'[r] = orders[r]
      BY <1>6, <2>1, HoldersRedeemed
    <3> QED
      BY <1>3, <3>1
  <2>2. CASE c = req[w].code
    <3>1. /\ Holders(c)' = Holders(c) \cup {o}
          /\ \A r \in Holders(c) : orders'[r] = orders[r]
      BY <1>6, <2>2, HoldersRedeemed
    <3>2. /\ coupon[w].code = c /\ coupon[w].type = "STANDARD"
          /\ orders'[o].user = req[w].customer
      BY <1>1, <1>6, <2>2 DEF Redeems
    <3>3. \A r \in Holders(c) : orders[r].user # req[w].customer
      BY <1>6, <3>2 DEF AlreadyUsed, Holders
    <3> QED
      BY <1>2, <3>1, <3>2, <3>3
  <2> QED
    BY <2>1, <2>2
<1> QED
  BY <1>4, <1>5, <1>6 DEF Writes, Written

-----------------------------------------------------------------------------
(* What the discipline of the services adds.                               *)

\* Every step restores what holds of the tables.
LEMMA TablesStep ==
  ASSUME IInv, NEW w \in Workers, WorkerStep(w), TypeInv'
  PROVE  TablesOK'
<1>1. HeldInv /\ TypeInv /\ ServiceOK(w)
  BY DEF IInv, HeldInv
<1>2. Writes(w)
  BY <1>1, StepWrites
<1>3. SingleUseAgrees /\ CountMatchesHolders /\ WithinCaps /\ OneUseEach
  BY LimitsAre DEF IInv, TablesOK
<1>4. /\ Written(w) /\ req[w].op = "redeem"
      /\ coupon[w].type = "STANDARD"
      => ~AlreadyUsed(coupon[w], req[w].customer, orders)
  BY <1>1 DEF Written, Commit, ServiceOK, CustomerChecked
<1>5. SingleUseAgrees' /\ CountMatchesHolders' /\ WithinCaps' /\ OneUseEach'
  BY <1>1, <1>2, <1>3, <1>4, AgreeStays, CountsStay, CapsStay, OneUseStays
<1>6. RedemptionLimits'
  BY <1>5 DEF CountMatchesHolders, RedemptionLimits, WithinCaps, OneUseEach
<1> QED
  BY <1>5, <1>6 DEF TablesOK

\* A turn of the policy loop records what the per-customer rule found.
LEMMA ServiceEnforcePolicy ==
  ASSUME IInv, NEW w \in Workers, RedeemEnforcePolicy(w)
  PROVE  ServiceOK(w)'
<1> DEFINE policies == for_type(coupon[w].type)
           policy   == policies[rule[w]]
           used     == AlreadyUsed(coupon[w], req[w].customer, orders)
<1>1. HeldInv /\ TypeInv /\ ServiceOK(w)
  BY DEF IInv, HeldInv
<1>2. CleanRollback(w)'
  BY <1>1, HeldRedeemEnforcePolicy
<1>3. /\ pc[w] = "policies" /\ req[w].op = "redeem" /\ saved[w] = {}
      /\ coupon[w].type \in CouponType
      /\ rule[w] \in 1 .. Len(policies)
  <2>1. pc[w] = "policies" /\ req[w].op = "redeem"
    BY DEF RedeemEnforcePolicy, At
  <2>2. saved[w] = {} /\ coupon[w].type \in CouponType
    BY <1>1, <2>1 DEF TypeInv, TypeOK, InstancesOK, CouponInstance
  <2>3. rule[w] \in 1 .. Len(policies)
    BY <1>1, <2>1, <2>2 DEF TypeInv, TypeOK, InstancesOK, for_type, CouponType
  <2> QED
    BY <2>1, <2>2, <2>3
<1>4. UNCHANGED <<orders, req, coupon, saved>>
  BY DEF RedeemEnforcePolicy, tables, client
<1>5. \/ pc'[w] = "rollback"
      \/ /\ pc'[w] = "policies" /\ rule'[w] = rule[w] + 1
         /\ policy = "single_use" => ~used
      \/ pc'[w] = "saveCount" /\ rule[w] = Len(policies)
  <2>1. \/ pc' = [pc EXCEPT ![w] = "rollback"]
        \/ /\ pc' = pc /\ rule' = [rule EXCEPT ![w] = rule[w] + 1]
           /\ policy = "single_use" => ~used
        \/ pc' = [pc EXCEPT ![w] = "saveCount"] /\ rule[w] = Len(policies)
    BY DEF RedeemEnforcePolicy, Raise, Goto, Refuses
  <2> HIDE DEF policies, policy, used
  <2> QED
    BY <1>1, <1>3, <2>1 DEF TypeInv, TypeOK
<1>6. coupon[w].type = "STANDARD" =>
        /\ rule[w] = 2 => policy = "single_use"
        /\ rule[w] = Len(policies) => rule[w] = 3
  BY <1>3, RuleOrder
<1>7. rule[w] = 3 /\ coupon[w].type = "STANDARD" => ~used
  BY <1>1, <1>3 DEF ServiceOK, CustomerChecked
<1>8. CustomerChecked(w)' => ~used
  <2> SUFFICES ASSUME CustomerChecked(w)' PROVE ~used
    OBVIOUS
  <2>1. coupon[w].type = "STANDARD"
    BY <1>4 DEF CustomerChecked
  <2>2. CASE pc'[w] = "policies"
    BY <1>3, <1>5, <1>6, <2>1, <2>2 DEF CustomerChecked
  <2>3. CASE pc'[w] = "saveCount"
    BY <1>5, <1>6, <1>7, <2>1, <2>3
  <2>4. pc'[w] # "rollback"
    BY DEF CustomerChecked
  <2> QED
    BY <1>5, <2>2, <2>3, <2>4
<1> QED
  BY <1>2, <1>4, <1>8 DEF ServiceOK, AlreadyUsed, Active

\* The redemption statements behind the loop, on the rows it was judged by.
LEMMA ServiceRedeems ==
  ASSUME IInv, NEW w \in Workers, RedeemSaveCount(w) \/ RedeemAttachCoupon(w)
  PROVE  ServiceOK(w)'
<1> DEFINE used == AlreadyUsed(coupon[w], req[w].customer, orders)
<1>1. HeldInv /\ TypeInv /\ ServiceOK(w)
  BY DEF IInv, HeldInv
<1>2. /\ pc[w] \in {"saveCount", "attachCoupon"} /\ req[w].op = "redeem"
      /\ coupon[w] \in CouponInstance
  <2>1. pc[w] \in {"saveCount", "attachCoupon"} /\ req[w].op = "redeem"
    BY DEF RedeemSaveCount, RedeemAttachCoupon, At
  <2> QED
    BY <1>1, <2>1 DEF TypeInv, TypeOK, InstancesOK
<1>3. UNCHANGED <<orders, req>>
  BY DEF RedeemSaveCount, RedeemAttachCoupon, tables, client
<1>4. coupon'[w].code = coupon[w].code /\ coupon'[w].type = coupon[w].type
  <2>1. CASE RedeemAttachCoupon(w)
    BY <2>1 DEF RedeemAttachCoupon
  <2>2. CASE RedeemSaveCount(w)
    <3> DEFINE counted == [coupon[w] EXCEPT !.redeemed_count =
                                              coupon[w].redeemed_count + 1]
    <3>1. counted.code = coupon[w].code /\ counted.type = coupon[w].type
      BY <1>2 DEF CouponInstance
    <3>2. coupon' = [coupon EXCEPT ![w] = counted]
      BY <2>2 DEF RedeemSaveCount, SaveRedeemedCount
    <3> HIDE DEF counted
    <3>3. coupon'[w] = counted
      BY <1>1, <3>2 DEF TypeInv, TypeOK
    <3> QED
      BY <3>1, <3>3
  <2> QED
    BY <2>1, <2>2
<1>5. coupon[w].type = "STANDARD" => ~used
  BY <1>1, <1>2 DEF ServiceOK, CustomerChecked
<1>6. CleanRollback(w)'
  <2>1. CASE RedeemSaveCount(w)
    BY <1>1, <2>1, HeldRedeemSaveCount
  <2>2. CASE RedeemAttachCoupon(w)
    BY <1>1, <1>5, <2>2, HeldRedeemAttachCoupon DEF CleanRollback
  <2> QED
    BY <2>1, <2>2
<1> QED
  BY <1>3, <1>4, <1>5, <1>6 DEF ServiceOK, CustomerChecked, AlreadyUsed, Active

\* The order of a cancellation is among those its coupon counts, so that
\* there is something to take off.
LEMMA NotRefused ==
  ASSUME TypeInv, TablesOK, NEW w \in Workers,
         req[w].order \in Orders, orders[req[w].order] # None
  PROVE  ~Refused(w)
<1> DEFINE o == req[w].order
           c == orders[o].coupon
<1> SUFFICES ASSUME Refused(w) PROVE FALSE
  OBVIOUS
<1>1. /\ orders[o].status = "PLACED" /\ c # None /\ coupons[c] # None
      /\ coupons[c].redeemed_count \notin 1 .. coupons[c].max_redemptions
  BY DEF Refused, CouponHeld
<1>2. c \in Codes
  BY <1>1 DEF TypeInv, TypeOK, OrderRow
<1>3. o \in Holders(c)
  BY <1>1 DEF Holders, Active
<1>4. Cardinality(Holders(c)) \in Nat \ {0}
  BY <1>2, <1>3, HoldersFinite, FS_EmptySet
<1>5. /\ coupons[c].redeemed_count = Cardinality(Holders(c))
      /\ Cardinality(Holders(c)) <= coupons[c].max_redemptions
      /\ coupons[c] \in CouponRow
  BY <1>1, <1>2
     DEF TablesOK, CountMatchesHolders, RedemptionLimits, TypeInv, TypeOK
<1> QED
  BY <1>1, <1>4, <1>5 DEF CouponRow

\* Cancellations.
LEMMA ServiceCancels ==
  ASSUME IInv, NEW w \in Workers, CancelStep(w)
  PROVE  ServiceOK(w)'
<1>1. HeldInv /\ TypeInv /\ TablesOK
  BY DEF IInv, HeldInv
<1>2. req'[w].op = "cancel"
  BY DEF CancelStep, CancelSaveCount, CancelMarkCancelled, At, client
<1>3. CleanRollback(w)'
  <2>1. CASE CancelSaveCount(w)
    <3>1. /\ pc[w] = "saveCount" /\ req[w].op = "cancel"
          /\ pc'[w] # "rollback" \/ Refused(w)
      BY <1>1, <2>1, HeldCancelSaveCount
    <3>2. req[w].order \in Orders /\ orders[req[w].order] # None
      <4>1. req[w] \in Requests
        BY <1>1, <3>1 DEF TypeInv, TypeOK, ControlOK
      <4> QED
        BY <1>1, <3>1, <4>1, RequestFields
           DEF TypeInv, InstancesOK, Guarded, Writing
    <3> QED
      BY <1>1, <3>1, <3>2, NotRefused DEF CleanRollback
  <2>2. CASE CancelMarkCancelled(w)
    BY <1>1, <2>2, HeldCancelMarkCancelled DEF CleanRollback
  <2> QED
    BY <2>1, <2>2 DEF CancelStep
<1> QED
  BY <1>2, <1>3 DEF ServiceOK, CustomerChecked

\* The statements that lock rows come before the policies.
LEMMA ServiceLocks ==
  ASSUME IInv, NEW w \in Workers, LockStep(w)
  PROVE  ServiceOK(w)'
<1>1. HeldInv /\ TypeInv
  BY DEF IInv, HeldInv
<1>2. CleanRollback(w)'
  BY <1>1, HeldRedeemLockOrder, HeldRedeemReplay, HeldRedeemLockCoupon,
     HeldCancelLockOrder, HeldCancelLockCoupon
     DEF LockStep, RedeemLock, CancelLock
<1>3. pc[w] \in {"lockOrder", "lockAttached", "lockCoupon"}
  BY DEF LockStep, RedeemLock, CancelLock, RedeemLockOrder, RedeemReplay,
         RedeemLockCoupon, CancelLockOrder, CancelLockCoupon, At
<1>4. rule'[w] = 1 /\ saved'[w] = {}
  <2>1. rule[w] = 1 /\ saved[w] = {}
    BY <1>1, <1>3 DEF TypeInv, InstancesOK
  <2>2. rule' = rule /\ saved' = saved
    BY DEF LockStep, RedeemLock, CancelLock, RedeemLockOrder, RedeemReplay,
           RedeemLockCoupon, CancelLockOrder, CancelLockCoupon
  <2> QED
    BY <2>1, <2>2
<1>5. pc'[w] \in {"rollback", "lockCoupon", "lockAttached", "policies",
                  "commit"} \/ req'[w].op = "cancel"
  BY <1>1 DEF LockStep, RedeemLock, CancelLock, RedeemLockOrder, RedeemReplay,
         RedeemLockCoupon, CancelLockOrder, CancelLockCoupon, At, Raise,
         Return, Goto, client, TypeInv, TypeOK
<1> QED
  BY <1>2, <1>4, <1>5 DEF ServiceOK, CustomerChecked

\* The other steps do not lead into a checked transaction, nor out of one by
\* an error.
LEMMA PlainStep ==
  ASSUME TypeInv, NEW w \in Workers,
         \/ \E r \in Requests : Receive(w, r)
         \/ Crash(w) \/ Respond(w) \/ Rollback(w) \/ Commit(w)
         \/ QueryReadCoupon(w) \/ SeedingStep(w)
  PROVE  pc'[w] \notin {"policies", "saveCount", "attachCoupon", "commit",
                        "rollback"}
<1>1. ASSUME NEW r \in Requests, Receive(w, r)
      PROVE  pc'[w] = FirstStatement[r.op]
  BY <1>1 DEF Receive, Goto, TypeInv, TypeOK
<1>2. CASE Crash(w) \/ Respond(w) \/ Rollback(w) \/ Commit(w)
  <2>1. pc' = [pc EXCEPT ![w] = "idle"] \/ pc' = [pc EXCEPT ![w] = "respond"]
    BY <1>2 DEF Crash, Respond, Rollback, Commit, Clear, Goto
  <2> QED
    BY <2>1 DEF TypeInv, TypeOK
<1>3. CASE QueryReadCoupon(w) \/ SeedingStep(w)
  <2>1. \/ pc' = [pc EXCEPT ![w] = "insertOrder"]
        \/ pc' = [pc EXCEPT ![w] = "respond"]
    BY <1>3 DEF QueryReadCoupon, SeedingStep, InsertUser, InsertCoupon,
                CheckUser, InsertOrder, Reply, Goto
  <2> QED
    BY <2>1 DEF TypeInv, TypeOK
<1> QED
  BY <1>1, <1>2, <1>3, RequestFields DEF FirstStatement

\* Every step of a worker leaves it within the discipline.
LEMMA ServiceStep ==
  ASSUME IInv, NEW w \in Workers, WorkerStep(w)
  PROVE  ServiceOK(w)'
<1>1. TypeInv
  BY DEF IInv, HeldInv
<1>2. CASE LockStep(w)
  BY <1>2, ServiceLocks
<1>3. CASE RedeemStep(w)
  BY <1>3, ServiceEnforcePolicy, ServiceRedeems DEF RedeemStep
<1>4. CASE CancelStep(w)
  BY <1>4, ServiceCancels
<1>5. CASE pc'[w] \notin {"policies", "saveCount", "attachCoupon", "commit",
                          "rollback"}
  BY <1>5 DEF ServiceOK, CustomerChecked, CleanRollback
<1> QED
  BY <1>1, <1>2, <1>3, <1>4, <1>5, PlainStep DEF WorkerStep, LocalStep

-----------------------------------------------------------------------------
(* The invariant, and the properties it implies.                           *)

\* Empty counters, no live order with a coupon, no worker at work.
THEOREM SafeInit == Init => IInv
<1> SUFFICES ASSUME Init PROVE IInv
  OBVIOUS
<1>1. TypeInv
  BY TypeInit
<1>2. ASSUME NEW w \in Workers PROVE WorkerOK(w)
  <2>1. /\ pc[w] = "idle" /\ order[w] = None /\ coupon[w] = None
        /\ resp[w] = None
        /\ \A o \in Orders : orderLock[o] # w
        /\ \A c \in Codes : couponLock[c] # w
    BY WorkersAssumption DEF Init
  <2> QED
    BY <2>1 DEF WorkerOK, LocksOK, MemoryOK, TransactionOK, Guarded, Writing
<1>3. \A o \in Orders : orders[o] # None => orders[o].coupon = None
  BY DEF Init, NewOrder
<1>4. \A c \in Codes : Holders(c) = {}
  BY <1>3, NoneAssumption DEF Holders, Active
<1>5. \A c \in Codes : coupons[c] # None =>
        coupons[c] \in CouponRow /\ coupons[c].redeemed_count = 0
  BY SeedAssumption DEF Init
<1>6. ASSUME NEW w \in Workers PROVE ServiceOK(w)
  <2>1. pc[w] = "idle"
    BY DEF Init
  <2> QED
    BY <2>1 DEF ServiceOK, CustomerChecked, CleanRollback
<1>7. TablesOK
  <2>1. SingleUseAgrees
    BY <1>3 DEF SingleUseAgrees
  <2>2. CountMatchesHolders
    BY <1>4, <1>5, FS_EmptySet DEF CountMatchesHolders
  <2>3. RedemptionLimits
    BY <1>4, <1>5, FS_EmptySet DEF RedemptionLimits, CouponRow
  <2> QED
    BY <2>1, <2>2, <2>3 DEF TablesOK
<1> QED
  BY <1>1, <1>2, <1>6, <1>7 DEF IInv, HeldInv

\* Every step of the service, and every stuttering step, keeps IInv.
THEOREM SafeStep == IInv /\ [Next]_vars => IInv'
<1> SUFFICES ASSUME IInv, [Next]_vars PROVE IInv'
  OBVIOUS
<1>1. HeldInv /\ TypeInv'
  BY TypeStep DEF IInv, HeldInv
<1>2. ASSUME NEW w \in Workers, WorkerStep(w) PROVE IInv'
  <2>1. Sound(w)
    BY <1>1, <1>2, HeldStep
  <2>2. HeldInv'
    BY <1>1, <2>1, SoundHeld
  <2>3. ASSUME NEW v \in Workers PROVE ServiceOK(v)'
    <3>1. CASE v = w
      BY <1>2, <3>1, ServiceStep
    <3>2. CASE v # w
      BY <1>1, <2>1, <3>2, ServiceStays DEF Sound, IInv
    <3> QED
      BY <3>1, <3>2
  <2>4. TablesOK'
    BY <1>1, <1>2, TablesStep
  <2> QED
    BY <2>2, <2>3, <2>4 DEF IInv
<1>3. CASE Tick \/ UNCHANGED vars
  <2>1. HeldInv'
    BY <1>1, <1>3, HeldTick
  <2>2. UNCHANGED <<orders, coupons, pc, req, coupon, rule, saved, resp>>
    BY <1>3 DEF Tick, vars, tables, client, instance
  <2>3. ASSUME NEW v \in Workers PROVE ServiceOK(v)'
    BY <2>2 DEF IInv, ServiceOK, CustomerChecked, CleanRollback, AlreadyUsed,
                Active
  <2>4. TablesOK'
    BY <2>2 DEF IInv, TablesOK, SingleUseAgrees, CountMatchesHolders,
                RedemptionLimits, Holders, Active
  <2> QED
    BY <2>1, <2>3, <2>4 DEF IInv
<1> QED
  BY <1>2, <1>3, NextSteps

\* Every reachable state satisfies the inductive invariant.
THEOREM SafetyCorrect == Spec => []IInv
BY SafeInit, SafeStep, PTL DEF Spec

\* The stored counter of a coupon always is the number of live orders that
\* carry it, whatever interleaving of redemptions, cancellations, replays,
\* rollbacks and crashes led there.
THEOREM CountCorrect == Spec => []CountMatchesHolders
<1>1. IInv => CountMatchesHolders
  BY DEF IInv, TablesOK
<1> QED
  BY <1>1, SafetyCorrect, PTL

\* No coupon is ever over its cap, and no customer holds a STANDARD coupon on
\* two live orders.
THEOREM LimitsCorrect == Spec => []RedemptionLimits
<1>1. IInv => RedemptionLimits
  BY DEF IInv, TablesOK
<1> QED
  BY <1>1, SafetyCorrect, PTL

\* The is_single_use flag of an order always agrees with its coupon's type.
THEOREM SingleUseCorrect == Spec => []SingleUseAgrees
<1>1. IInv => SingleUseAgrees
  BY DEF IInv, TablesOK
<1> QED
  BY <1>1, SafetyCorrect, PTL

\* Neither the CHECK constraints nor the unique index ever refuse a write.
THEOREM BackstopsCorrect == Spec => []BackstopsUnreached
<1>1. IInv => BackstopsUnreached
  BY DEF IInv, ServiceOK, CleanRollback, BackstopsUnreached
<1> QED
  BY <1>1, SafetyCorrect, PTL

\* What the invariant says of a worker past the policies.
LEMMA RedeemingKnows ==
  ASSUME IInv, NEW w \in Workers, Redeeming(w)
  PROVE  LET row == coupons[req[w].code] IN
         /\ OrderFree(w) /\ CouponHeld(w, req[w].code)
         /\ coupon[w].type = row.type
         /\ coupon[w].expires_at = row.expires_at
         /\ coupon[w].code = row.code
         /\ ~Exhausted(row)
<1> DEFINE row == coupons[req[w].code]
<1>1. TypeInv /\ MemoryOK(w) /\ TransactionOK(w)
  BY DEF IInv, HeldInv, WorkerOK
<1>2. pc[w] \in {"saveCount", "attachCoupon", "commit"} /\ req[w].op = "redeem"
  BY DEF Redeeming
<1>3. RedeemOK(w)
  BY <1>1, <1>2 DEF TransactionOK, Guarded, Writing
<1>4. pc[w] = "commit" => ~resp[w].replayed
  BY <1>1 DEF MemoryOK, Redeeming
<1>5. /\ OrderFree(w) /\ CouponHeld(w, req[w].code)
      /\ (Fresh(w) /\ ~Exhausted(coupon[w])) \/ Counted(w, 1)
  BY <1>2, <1>3, <1>4 DEF RedeemOK
<1>6. /\ coupon[w] \in CouponInstance /\ coupon[w].code = req[w].code
      /\ req[w].code \in Codes
      /\ row \in CouponRow /\ row.code = req[w].code
  BY <1>1, <1>5 DEF CouponHeld, TypeInv, TypeOK, CouponInstance
<1>7. coupon[w].type = row.type /\ coupon[w].expires_at = row.expires_at
  BY <1>5, <1>6 DEF Fresh, Counted, CouponRow
<1>8. ~Exhausted(row)
  <2>1. CASE Fresh(w) /\ ~Exhausted(coupon[w])
    BY <1>6, <2>1 DEF Fresh
  <2>2. CASE Counted(w, 1)
    <3>1. /\ coupon[w].redeemed_count = row.redeemed_count + 1
          /\ coupon[w].max_redemptions = row.max_redemptions
          /\ coupon[w].redeemed_count <= coupon[w].max_redemptions
      BY <1>6, <2>2 DEF Counted, RedeemedWithinCap, CouponRow
    <3> QED
      BY <1>6, <3>1 DEF Exhausted, CouponRow
  <2> QED
    BY <1>5, <2>1, <2>2
<1> QED
  BY <1>5, <1>6, <1>7, <1>8

\* A redemption that is no replay has saved something by its commit.
LEMMA SavedUnlessReplayed ==
  ASSUME IInv, NEW w \in Workers, Redeeming(w)
  PROVE  pc[w] = "commit" => saved[w] # {}
<1> SUFFICES ASSUME pc[w] = "commit" PROVE saved[w] # {}
  OBVIOUS
<1>1. MemoryOK(w) /\ TransactionOK(w) /\ req[w].op = "redeem"
  BY DEF IInv, HeldInv, WorkerOK, Redeeming
<1>2. ~resp[w].replayed /\ RedeemOK(w)
  BY <1>1 DEF MemoryOK, Redeeming, TransactionOK, Guarded, Writing
<1> QED
  BY <1>2 DEF RedeemOK, OrderAttached

\* What the policies checked holds of the committed tables until the commit.
THEOREM ChecksCorrect == Spec => []ChecksStillHold
<1>1. IInv => ChecksStillHold
  <2> SUFFICES ASSUME IInv, NEW w \in Workers, Redeeming(w)
               PROVE  /\ ~Exhausted(coupons[req[w].code])
                      /\ coupons[req[w].code].type = "STANDARD" =>
                           ~AlreadyUsed(coupons[req[w].code], req[w].customer,
                                        orders)
    BY DEF ChecksStillHold
  <2>1. /\ ~Exhausted(coupons[req[w].code])
        /\ coupon[w].type = coupons[req[w].code].type
        /\ coupon[w].code = coupons[req[w].code].code
    BY RedeemingKnows
  <2>2. pc[w] = "commit" => saved[w] # {}
    BY SavedUnlessReplayed
  <2>3. coupon[w].type = "STANDARD" => CustomerChecked(w)
    BY <2>2 DEF Redeeming, CustomerChecked
  <2>4. coupon[w].type = "STANDARD" =>
          ~AlreadyUsed(coupon[w], req[w].customer, orders)
    BY <2>3 DEF IInv, ServiceOK
  <2> QED
    BY <2>1, <2>4 DEF AlreadyUsed
<1> QED
  BY <1>1, SafetyCorrect, PTL

\* The order about to take a coupon stays live, free and its customer's.
THEOREM OrderFreeCorrect == Spec => []OrderStillFree
<1>1. IInv => OrderStillFree
  BY RedeemingKnows DEF OrderStillFree, OrderFree
<1> QED
  BY <1>1, SafetyCorrect, PTL

\* No set of workers waits in a circle.  A holder of a coupon lock waits for
\* nothing; a holder of an order lock waits for a coupon at most.
THEOREM DeadlockFree == Spec => []NoDeadlock
<1>1. ASSUME IInv, NEW W \in SUBSET Workers, NEW u \in W,
             \A w \in W : Blocker(w) \in W
      PROVE  FALSE
  <2> USE WorkersAssumption
  <2>1. \A w \in Workers : TypeInv /\ LocksOK(w) /\ None \notin W
    BY <1>1 DEF IInv, HeldInv, WorkerOK
  <2>2. ASSUME NEW w \in W PROVE pc[w] \in {"lockOrder", "lockCoupon",
                                            "lockAttached"}
    BY <1>1, <2>1, <2>2 DEF Blocker
  <2>3. ASSUME NEW w \in W PROVE \A c \in Codes : couponLock[c] # w
    BY <2>1, <2>2, <2>3 DEF LocksOK, Writing
  <2>4. ASSUME NEW w \in W PROVE pc[w] = "lockOrder"
    <3>1. CASE pc[w] = "lockCoupon"
      <4>1. req[w].code \in Codes
        <5>1. req[w] \in Requests /\ req[w].op = "redeem"
          BY <2>1, <3>1 DEF TypeInv, TypeOK, ControlOK, Serves
        <5> QED
          BY <5>1, RequestFields
      <4> QED
        BY <1>1, <2>3, <3>1, <4>1 DEF Blocker
    <3>2. CASE pc[w] = "lockAttached"
      <4>1. order[w].coupon \in Codes
        BY <2>1, <3>2 DEF TypeInv, TypeOK, InstancesOK, Guarded, OrderRow
      <4> QED
        BY <1>1, <2>3, <3>2, <4>1 DEF Blocker
    <3> QED
      BY <2>2, <3>1, <3>2
  <2>5. req[u].order \in Orders
    <3>1. /\ pc[u] = "lockOrder" /\ req[u] \in Requests
          /\ req[u].op \in {"redeem", "cancel"}
      BY <2>1, <2>4 DEF TypeInv, TypeOK, ControlOK, Serves
    <3> QED
      BY <3>1, RequestFields
  <2>6. orderLock[req[u].order] \in W
    BY <1>1, <2>4 DEF Blocker
  <2> DEFINE v == orderLock[req[u].order]
  <2>7. pc[v] \in Guarded \cup {"rollback"}
    BY <2>1, <2>5, <2>6 DEF LocksOK
  <2> QED
    BY <2>4, <2>6, <2>7 DEF Guarded, Writing
<1>2. IInv => NoDeadlock
  BY <1>1 DEF NoDeadlock
<1> QED
  BY <1>2, SafetyCorrect, PTL
=============================================================================
