-------------------------- MODULE MaintenanceProofs ---------------------------
(***************************************************************************)
(* What the constraints guarantee beside writers who know none of the      *)
(* services' rules.  Such a writer waits for row locks, so that HeldInv    *)
(* still holds; the counters no longer count, so that the rest of IInv     *)
(* does not, and what the constraints say of the tables takes its place.   *)
(***************************************************************************)
EXTENDS Maintenance, CouponSafetyProofs

\* A redemption that has passed the unique index has an entry there, for which
\* a clashing writer waits: its customer still does not hold the coupon.
EntryOK(w) ==
  pc[w] = "commit" /\ CustomerChecked(w) =>
    ~AlreadyUsed(coupon[w], req[w].customer, orders)

\* A transaction that failed on a CHECK constraint is a cancellation, which
\* still holds the rows that made it fail.
Stranded(w) ==
  pc[w] = "rollback" /\ resp[w].reason = "SERVER_ERROR" =>
    req[w].op = "cancel" /\ Refused(w)

\* The inductive invariant: ConstraintsHold, in the terms of CouponInvariant,
\* and what the two writers of a row know of each other.
MaintainedInv ==
  /\ HeldInv
  /\ SingleUseAgrees /\ WithinCaps /\ OneUseEach
  /\ \A w \in Workers : EntryOK(w) /\ Stranded(w)

\* The CHECK constraints and the unique index, stated of the counters and the
\* holders.
LEMMA ConstraintsAre ==
  ASSUME TypeInv, SingleUseAgrees, WithinCaps, OneUseEach
  PROVE  ConstraintsHold
<1>1. ASSUME NEW c \in Codes, coupons[c] # None
      PROVE  coupons[c].redeemed_count \in 0 .. coupons[c].max_redemptions
  <2>1. coupons[c] \in CouponRow
    BY <1>1 DEF TypeInv, TypeOK
  <2>2. coupons[c].redeemed_count <= coupons[c].max_redemptions
    BY <1>1 DEF WithinCaps
  <2> QED
    BY <2>1, <2>2 DEF CouponRow
<1>2. ASSUME NEW o \in Orders, NEW p \in Orders,
             orders[o] # None, orders[p] # None,
             orders[o].status = "PLACED", orders[p].status = "PLACED",
             orders[o].coupon # None, orders[o].coupon = orders[p].coupon,
             orders[o].user = orders[p].user,
             coupons[orders[o].coupon].type = "STANDARD"
      PROVE  o = p
  <2> DEFINE c == orders[o].coupon
  <2>1. c \in Codes /\ coupons[c] # None
    BY <1>2 DEF SingleUseAgrees, TypeInv, TypeOK, OrderRow
  <2>2. o \in Holders(c) /\ p \in Holders(c)
    BY <1>2 DEF Holders, Active
  <2> QED
    BY <1>2, <2>1, <2>2 DEF OneUseEach
<1> QED
  BY <1>1, <1>2 DEF ConstraintsHold

-----------------------------------------------------------------------------
(* Foreign writers.                                                        *)

\* A foreign writer moves no worker.
Unmoved == UNCHANGED <<pc, client, instance, saved, resp, locks, now, users>>

\* The row that takes the place of a coupon's, or of an order's.
NewCoupon(c, row) ==
  /\ coupons[c] # None /\ couponLock[c] = None
  /\ row \in CouponRow /\ row.code = c /\ row.type = coupons[c].type
  /\ row.redeemed_count <= row.max_redemptions
  /\ coupons' = [coupons EXCEPT ![c] = row]
  /\ orders' = orders /\ Unmoved

NewOrderRow(o, row) ==
  /\ orders[o] # None /\ orderLock[o] = None
  /\ row \in OrderRow
  /\ row.coupon \in {None, orders[o].coupon} \/ coupons[row.coupon] # None
  /\ AgreesWithType(row)
  /\ ~AwaitsEntry(row) /\ ~ViolatesUniqStandard(orders, o, row)
  /\ orders' = [orders EXCEPT ![o] = row]
  /\ coupons' = coupons /\ Unmoved

\* Every foreign update puts one row in the place of another, under no lock.
LEMMA ForeignRows ==
  ASSUME TypeInv, ForeignUpdate
  PROVE  \/ \E c \in Codes, row \in CouponRow : NewCoupon(c, row)
         \/ \E o \in Orders, row \in OrderRow : NewOrderRow(o, row)
<1>1. ASSUME NEW c \in Codes, NEW row \in Rows, UpdateCoupon(c, row)
      PROVE  row \in CouponRow /\ NewCoupon(c, row)
  BY <1>1, RowsAssumption
     DEF UpdateCoupon, NewCoupon, RedeemedWithinCap, Unmoved
<1>2. ASSUME NEW o \in Orders, NEW row \in OrderRow, UpdateOrder(o, row)
      PROVE  NewOrderRow(o, row)
  BY <1>2 DEF UpdateOrder, NewOrderRow, Unmoved
<1> QED
  BY <1>1, <1>2 DEF ForeignUpdate

\* The row that changes is under no worker's lock.
LEMMA ForeignUntouched ==
  ASSUME TypeInv, NEW v \in Workers,
         \/ \E c \in Codes, row \in CouponRow : NewCoupon(c, row)
         \/ \E o \in Orders, row \in OrderRow : NewOrderRow(o, row)
  PROVE  Untouched(v)
<1>1. ASSUME NEW c \in Codes, NEW row, NewCoupon(c, row)
      PROVE  Untouched(v)
  <2>1. couponLock[c] # v
    BY <1>1, WorkersAssumption DEF NewCoupon
  <2>2. \A d \in Codes : couponLock[d] = v => coupons'[d] = coupons[d]
    BY <1>1, <2>1 DEF NewCoupon, TypeInv, TypeOK
  <2> QED
    BY <1>1, <2>2 DEF NewCoupon, Unmoved, Untouched, client, instance, locks
<1>2. ASSUME NEW o \in Orders, NEW row, NewOrderRow(o, row)
      PROVE  Untouched(v)
  <2>1. orderLock[o] # v
    BY <1>2, WorkersAssumption DEF NewOrderRow
  <2>2. \A p \in Orders : orderLock[p] = v => orders'[p] = orders[p]
    BY <1>2, <2>1 DEF NewOrderRow, TypeInv, TypeOK
  <2> QED
    BY <1>2, <2>2 DEF NewOrderRow, Unmoved, Untouched, client, instance, locks
<1> QED
  BY <1>1, <1>2

\* No row goes away, and the new one is a row of its table.
LEMMA ForeignType ==
  ASSUME TypeInv,
         \/ \E c \in Codes, row \in CouponRow : NewCoupon(c, row)
         \/ \E o \in Orders, row \in OrderRow : NewOrderRow(o, row)
  PROVE  TypeInv'
<1>1. Unmoved
  BY DEF NewCoupon, NewOrderRow
<1>2. /\ orders' \in [Orders -> OrderRow \cup {None}]
      /\ coupons' \in [Codes -> CouponRow \cup {None}]
      /\ \A c \in Codes : coupons'[c] # None => coupons'[c].code = c
      /\ RowsStay
  <2>1. ASSUME NEW c \in Codes, NEW row \in CouponRow, NewCoupon(c, row)
        PROVE  /\ orders' \in [Orders -> OrderRow \cup {None}]
               /\ coupons' \in [Codes -> CouponRow \cup {None}]
               /\ \A d \in Codes : coupons'[d] # None => coupons'[d].code = d
               /\ RowsStay
    <3>1. row # None
      BY NoneAssumption DEF CouponRow, CouponInstance
    <3> QED
      BY <2>1, <3>1 DEF NewCoupon, RowsStay, TypeInv, TypeOK
  <2>2. ASSUME NEW o \in Orders, NEW row \in OrderRow, NewOrderRow(o, row)
        PROVE  /\ orders' \in [Orders -> OrderRow \cup {None}]
               /\ coupons' \in [Codes -> CouponRow \cup {None}]
               /\ \A d \in Codes : coupons'[d] # None => coupons'[d].code = d
               /\ RowsStay
    <3>1. row # None
      BY NoneAssumption
    <3> QED
      BY <2>2, <3>1 DEF NewOrderRow, RowsStay, TypeInv, TypeOK
  <2> QED
    BY <2>1, <2>2
<1>3. TypeOK'
  BY <1>1, <1>2
     DEF Unmoved, client, instance, locks, TypeInv, TypeOK
<1>4. ASSUME NEW v \in Workers PROVE ControlOK(v)' /\ InstancesOK(v)'
  <2>1. ControlOK(v) /\ InstancesOK(v)
    BY DEF TypeInv
  <2>2. UNCHANGED <<pc, req, order, coupon, rule, saved>>
    BY <1>1 DEF Unmoved, client, instance
  <2>3. ControlOK(v)'
    BY <2>1, <2>2 DEF ControlOK
  <2>4. pc[v] \in Guarded => orders'[req[v].order] # None
    <3> SUFFICES ASSUME pc[v] \in Guarded PROVE orders'[req[v].order] # None
      OBVIOUS
    <3>1. req[v] \in Requests /\ req[v].op \in {"redeem", "cancel"}
      BY <2>1 DEF ControlOK, Serves, TypeInv, TypeOK, Guarded, Writing
    <3>2. req[v].order \in Orders
      BY <3>1, RequestFields
    <3> QED
      BY <1>2, <2>1, <3>2 DEF InstancesOK, RowsStay
  <2>5. coupon[v] # None /\ coupons[coupon[v].code] # None
          => coupons'[coupon[v].code] # None
    BY <1>2 DEF TypeInv, TypeOK, CouponInstance, RowsStay
  <2>6. InstancesOK(v)'
    BY <2>1, <2>2, <2>4, <2>5 DEF InstancesOK
  <2> QED
    BY <2>3, <2>6
<1> QED
  BY <1>3, <1>4 DEF TypeInv

\* The statement is judged by the constraints like any other.
LEMMA ForeignCoupon ==
  ASSUME MaintainedInv, NEW c \in Codes, NEW row \in CouponRow,
         NewCoupon(c, row)
  PROVE  SingleUseAgrees' /\ WithinCaps' /\ OneUseEach'
<1>1. TypeInv /\ SingleUseAgrees /\ WithinCaps /\ OneUseEach
  BY DEF MaintainedInv, HeldInv
<1>2. /\ orders' = orders
      /\ coupons[c] # None /\ coupons'[c] = row /\ row # None
      /\ row.type = coupons[c].type
      /\ row.redeemed_count <= row.max_redemptions
      /\ \A d \in Codes \ {c} : coupons'[d] = coupons[d]
  BY <1>1, NoneAssumption
     DEF NewCoupon, TypeInv, TypeOK, CouponRow, CouponInstance
<1>3. \A d \in Codes :
        /\ coupons'[d] # None <=> coupons[d] # None
        /\ coupons[d] # None => coupons'[d].type = coupons[d].type
  BY <1>2
<1>4. SingleUseAgrees'
  <2> SUFFICES ASSUME NEW o \in Orders, orders[o] # None,
                      orders[o].coupon # None
               PROVE  /\ coupons'[orders[o].coupon] # None
                      /\ orders[o].is_single_use =
                           (coupons'[orders[o].coupon].type = "STANDARD")
    BY <1>2 DEF SingleUseAgrees
  <2>1. orders[o].coupon \in Codes
    BY <1>1 DEF TypeInv, TypeOK, OrderRow
  <2>2. /\ coupons[orders[o].coupon] # None
        /\ orders[o].is_single_use =
             (coupons[orders[o].coupon].type = "STANDARD")
    BY <1>1 DEF SingleUseAgrees
  <2> QED
    BY <1>3, <2>1, <2>2
<1>5. WithinCaps'
  BY <1>1, <1>2 DEF WithinCaps
<1>6. OneUseEach'
  BY <1>1, <1>2, <1>3 DEF OneUseEach, Holders, Active
<1> QED
  BY <1>4, <1>5, <1>6

\* An order that is changed is the only one of its customer on its coupon.
LEMMA ForeignOrder ==
  ASSUME MaintainedInv, NEW o \in Orders, NEW row \in OrderRow,
         NewOrderRow(o, row)
  PROVE  SingleUseAgrees' /\ WithinCaps' /\ OneUseEach'
<1>1. TypeInv /\ SingleUseAgrees /\ WithinCaps /\ OneUseEach
  BY DEF MaintainedInv, HeldInv
<1>2. /\ coupons' = coupons
      /\ orders[o] # None /\ orders'[o] = row /\ row # None
      /\ AgreesWithType(row)
      /\ ~ViolatesUniqStandard(orders, o, row)
      /\ \A p \in Orders \ {o} : orders'[p] = orders[p]
  BY <1>1, NoneAssumption DEF NewOrderRow, TypeInv, TypeOK
<1>3. SingleUseAgrees'
  <2> SUFFICES ASSUME NEW p \in Orders, orders'[p] # None,
                      orders'[p].coupon # None
               PROVE  /\ coupons[orders'[p].coupon] # None
                      /\ orders'[p].is_single_use =
                           (coupons[orders'[p].coupon].type = "STANDARD")
    BY <1>2 DEF SingleUseAgrees
  <2>1. CASE p = o
    <3>1. coupons[row.coupon] # None
      BY <1>1, <1>2, <2>1 DEF NewOrderRow, SingleUseAgrees
    <3> QED
      BY <1>2, <2>1, <3>1 DEF AgreesWithType
  <2>2. CASE p # o
    BY <1>1, <1>2, <2>2 DEF SingleUseAgrees
  <2> QED
    BY <2>1, <2>2
<1>4. WithinCaps'
  BY <1>1, <1>2 DEF WithinCaps
<1>5. OneUseEach'
  <2> SUFFICES ASSUME NEW c \in Codes, coupons[c] # None,
                      coupons[c].type = "STANDARD",
                      NEW p \in Holders(c)', NEW q \in Holders(c)',
                      orders'[p].user = orders'[q].user
               PROVE  p = q
    BY <1>2 DEF OneUseEach
  <2>1. \A r \in Holders(c)' :
          /\ r \in Orders /\ orders'[r] # None
          /\ orders'[r].coupon = c /\ orders'[r].status = "PLACED"
          /\ r # o => r \in Holders(c) /\ orders'[r] = orders[r]
    BY <1>2 DEF Holders, Active
  <2>2. ASSUME NEW r \in Holders(c)', r # o, o \in Holders(c)',
               orders'[r].user = orders'[o].user
        PROVE  FALSE
    <3>1. /\ r \in Orders /\ orders[r].user = row.user
          /\ Active(orders[r], c)
          /\ row.coupon = c /\ row.status = "PLACED"
      BY <1>2, <2>1, <2>2 DEF Holders
    <3>2. c # None
      BY NoneAssumption
    <3>3. row.is_single_use /\ orders[r].is_single_use
      BY <1>1, <1>2, <3>1, <3>2 DEF SingleUseAgrees, AgreesWithType, Active
    <3> QED
      BY <1>2, <2>2, <3>1, <3>2, <3>3
         DEF ViolatesUniqStandard, InIndex, Active
  <2>3. CASE p # o /\ q # o
    BY <1>1, <2>1, <2>3 DEF OneUseEach
  <2> QED
    BY <2>2, <2>3
<1> QED
  BY <1>3, <1>4, <1>5

-----------------------------------------------------------------------------
(* What the workers know of the others' writes.                            *)

\* A refused cancellation stays refused while its rows are locked.
LEMMA RefusedStays ==
  ASSUME HeldInv, NEW v \in Workers, Untouched(v), Stranded(v)
  PROVE  Stranded(v)'
<1> DEFINE row == orders[req[v].order]
           c   == row.coupon
<1>1. pc'[v] = pc[v] /\ req'[v] = req[v] /\ resp'[v] = resp[v]
  BY DEF Untouched
<1>2. SUFFICES ASSUME pc[v] = "rollback", req[v].op = "cancel", Refused(v)
               PROVE  Refused(v)'
  BY <1>1 DEF Stranded
<1>3. req[v].order \in Orders
  <2>1. req[v] \in Requests
    BY <1>2 DEF HeldInv, TypeInv, TypeOK, ControlOK
  <2> QED
    BY <1>2, <2>1, RequestFields
<1>4. row # None /\ c \in Codes
  <2>1. row # None
    BY <1>2, <1>3 DEF HeldInv, WorkerOK, LocksOK, Refused
  <2> QED
    BY <1>2, <1>3, <2>1 DEF HeldInv, TypeInv, TypeOK, OrderRow, Refused
<1>5. orderLock'[req[v].order] = v /\ orders'[req[v].order] = row
  BY <1>2, <1>3 DEF Refused, Untouched
<1>6. /\ coupon'[v] = coupon[v] /\ coupons'[c] = coupons[c]
      /\ couponLock'[c] = v
  BY <1>2, <1>4 DEF Refused, CouponHeld, Untouched
<1> QED
  BY <1>1, <1>2, <1>5, <1>6 DEF Refused, CouponHeld

\* A live order that a foreign writer leaves behind is not the customer's of
\* an entry in the index.
LEMMA EntryAwaited ==
  ASSUME MaintainedInv, NEW v \in Workers,
         NEW o \in Orders, NEW row \in OrderRow, NewOrderRow(o, row)
  PROVE  EntryOK(v)'
<1> DEFINE p == req[v].order
           c == coupon[v].code
<1>1. UNCHANGED <<pc, req, coupon, rule, saved, resp>>
  BY DEF NewOrderRow, Unmoved, client, instance
<1>2. SUFFICES ASSUME pc[v] = "commit", CustomerChecked(v)
               PROVE  ~AlreadyUsed(coupon[v], req[v].customer, orders')
  BY <1>1 DEF EntryOK, CustomerChecked, AlreadyUsed
<1>3. HeldInv /\ EntryOK(v)
  BY DEF MaintainedInv
<1>4. /\ req[v].op = "redeem" /\ coupon[v].type = "STANDARD"
      /\ saved[v] # {} /\ RedeemOK(v) /\ OrderHeld(v)
  BY <1>2, <1>3 DEF CustomerChecked, HeldInv, WorkerOK, TransactionOK, Guarded,
                    Writing
<1>5. /\ OrderFree(v) /\ OrderAttached(v)
      /\ CouponHeld(v, req[v].code) /\ Counted(v, 1)
  BY <1>2, <1>4 DEF RedeemOK
<1>6. req[v] \in Requests /\ p \in Orders /\ req[v].code \in Codes
  <2>1. req[v] \in Requests
    BY <1>2, <1>3 DEF HeldInv, TypeInv, TypeOK, ControlOK
  <2> QED
    BY <1>4, <2>1, RequestFields
<1>7. orders[p] \in OrderRow
  <2>1. orders[p] # None
    BY <1>3, <1>4, <1>6 DEF HeldInv, WorkerOK, LocksOK, OrderHeld
  <2> QED
    BY <1>3, <1>6, <2>1 DEF HeldInv, TypeInv, TypeOK
<1>8. c \in Codes /\ c # None /\ coupons[c].type = "STANDARD"
  <2>1. coupons[c] \in CouponRow /\ c = req[v].code
    BY <1>3, <1>5, <1>6 DEF CouponHeld, HeldInv, TypeInv, TypeOK
  <2>2. coupon[v] = [coupons[c] EXCEPT !.redeemed_count = @ + 1]
    BY <1>5 DEF Counted
  <2> QED
    BY <1>4, <1>6, <2>1, <2>2, NoneAssumption DEF CouponRow
<1>9. /\ {"coupon", "is_single_use"} \subseteq saved[v]
      /\ InIndex(order[v])
      /\ order[v].coupon = c /\ order[v].user = req[v].customer
  <2>1. /\ order[v].is_single_use = (coupon[v].type = "STANDARD")
        /\ order[v].coupon = c
        /\ order[v].user = orders[p].user
        /\ order[v].status = orders[p].status
        /\ order[v] \in OrderRow
    BY <1>5, <1>6, <1>7, <1>8 DEF OrderAttached, OrderRow
  <2> QED
    BY <1>4, <1>5, <1>8, <2>1, NoneAssumption
       DEF OrderAttached, OrderFree, InIndex
<1>10. ~(Active(row, c) /\ row.user = req[v].customer)
  <2> SUFFICES ASSUME Active(row, c), row.user = req[v].customer
               PROVE  FALSE
    OBVIOUS
  <2>1. InIndex(row)
    BY <1>8 DEF NewOrderRow, AgreesWithType, Active, InIndex
  <2> QED
    BY <1>9, <2>1 DEF NewOrderRow, AwaitsEntry, Active
<1>11. \A q \in Orders : orders'[q] = IF q = o THEN row ELSE orders[q]
  BY <1>3 DEF NewOrderRow, HeldInv, TypeInv, TypeOK
<1>12. ~AlreadyUsed(coupon[v], req[v].customer, orders)
  BY <1>2, <1>3 DEF EntryOK
<1> QED
  BY <1>10, <1>11, <1>12 DEF AlreadyUsed

\* A foreign update keeps MaintainedInv.
LEMMA MaintainedForeign ==
  ASSUME MaintainedInv, ForeignUpdate
  PROVE  MaintainedInv'
<1>1. HeldInv /\ TypeInv
  BY DEF MaintainedInv, HeldInv
<1>2. \/ \E c \in Codes, row \in CouponRow : NewCoupon(c, row)
      \/ \E o \in Orders, row \in OrderRow : NewOrderRow(o, row)
  BY <1>1, ForeignRows
<1>3. \A v \in Workers : Untouched(v)
  BY <1>1, <1>2, ForeignUntouched
<1>4. HeldInv'
  <2>1. TypeInv'
    BY <1>1, <1>2, ForeignType
  <2>2. \A v \in Workers : WorkerOK(v)'
    BY <1>1, <1>3, WorkerStays DEF HeldInv
  <2> QED
    BY <2>1, <2>2 DEF HeldInv
<1>5. SingleUseAgrees' /\ WithinCaps' /\ OneUseEach'
  BY <1>2, ForeignCoupon, ForeignOrder
<1>6. \A v \in Workers : Stranded(v)'
  BY <1>1, <1>3, RefusedStays DEF MaintainedInv
<1>7. ASSUME NEW v \in Workers PROVE EntryOK(v)'
  <2>1. EntryOK(v)
    BY DEF MaintainedInv
  <2>2. ASSUME NEW c \in Codes, NEW row \in CouponRow, NewCoupon(c, row)
        PROVE  EntryOK(v)'
    BY <2>1, <2>2 DEF NewCoupon, Unmoved, client, instance, EntryOK,
       CustomerChecked, AlreadyUsed, Active
  <2> QED
    BY <1>2, <2>2, EntryAwaited
<1> QED
  BY <1>4, <1>5, <1>6, <1>7 DEF MaintainedInv

-----------------------------------------------------------------------------
(* The services.                                                           *)

\* A redemption that the unique index lets pass has an entry no other live
\* order clashes with.
LEMMA EntryMade ==
  ASSUME MaintainedInv, NEW w \in Workers, RedeemAttachCoupon(w)
  PROVE  EntryOK(w)'
<1> DEFINE o == req[w].order
           c == req[w].code
<1>1. HeldInv /\ TypeInv /\ WorkerOK(w) /\ SingleUseAgrees
  BY DEF MaintainedInv, HeldInv
<1>2. UNCHANGED <<orders, req, coupon>>
  BY DEF RedeemAttachCoupon, tables, client
<1>3. SUFFICES ASSUME pc'[w] = "commit", coupon[w].type = "STANDARD"
               PROVE  ~AlreadyUsed(coupon[w], req[w].customer, orders)
  BY <1>2 DEF EntryOK, CustomerChecked, AlreadyUsed, Active
<1>4. /\ pc[w] = "attachCoupon" /\ req[w].op = "redeem"
      /\ ~ViolatesUniqStandard(orders, o, Attached(w))
  BY <1>1, <1>3, HeldRedeemAttachCoupon
<1>5. /\ OrderFree(w) /\ CouponHeld(w, c) /\ Counted(w, 1)
      /\ order[w] = orders[o] /\ orders[o] # None
  BY <1>1, <1>4 DEF WorkerOK, TransactionOK, RedeemOK, OrderHeld, InstancesOK,
                    TypeInv, Guarded, Writing
<1>6. o \in Orders /\ c \in Codes /\ order[w] \in OrderRow
  <2>1. req[w] \in Requests
    BY <1>1, <1>4 DEF TypeInv, TypeOK, ControlOK
  <2>2. o \in Orders /\ c \in Codes
    BY <1>4, <2>1, RequestFields
  <2> QED
    BY <1>1, <1>5, <2>2 DEF TypeInv, TypeOK
<1>7. /\ InIndex(Attached(w))
      /\ Attached(w).coupon = c /\ Attached(w).user = req[w].customer
  <2>1. /\ Attached(w).status = "PLACED" /\ Attached(w).is_single_use
        /\ Attached(w).coupon = c /\ Attached(w).user = req[w].customer
        /\ Attached(w) \in OrderRow
    BY <1>3, <1>5, <1>6 DEF Attached, OrderRow, OrderFree, CouponHeld
  <2> QED
    BY <1>6, <2>1, NoneAssumption DEF InIndex
<1>8. coupons[c].type = "STANDARD"
  <2>1. coupons[c] \in CouponRow /\ coupon[w].code = c
    BY <1>1, <1>5, <1>6 DEF CouponHeld, TypeInv, TypeOK
  <2>2. coupon[w] = [coupons[c] EXCEPT !.redeemed_count = @ + 1]
    BY <1>5, <2>1 DEF Counted
  <2> QED
    BY <1>3, <2>1, <2>2 DEF CouponRow
<1>9. ASSUME NEW p \in Orders, Active(orders[p], coupon[w].code),
             orders[p].user = req[w].customer
      PROVE  FALSE
  <2>1. coupon[w].code = c /\ c # None
    BY <1>5, <1>6, NoneAssumption DEF CouponHeld
  <2>2. p # o
    BY <1>5, <1>9, <2>1 DEF OrderFree, Active
  <2>3. orders[p].is_single_use
    BY <1>1, <1>8, <1>9, <2>1 DEF SingleUseAgrees, Active
  <2> QED
    BY <1>4, <1>7, <1>9, <2>1, <2>2, <2>3
       DEF ViolatesUniqStandard, InIndex, Active
<1> QED
  BY <1>9 DEF AlreadyUsed

\* No other step leads to such a COMMIT.
LEMMA EntryStep ==
  ASSUME MaintainedInv, NEW w \in Workers, WorkerStep(w)
  PROVE  EntryOK(w)'
<1>1. TypeInv
  BY DEF MaintainedInv, HeldInv
<1>2. CASE LockStep(w)
  <2>1. saved'[w] = {}
    BY <1>1, <1>2 DEF LockStep, RedeemLock, CancelLock, RedeemLockOrder,
       RedeemReplay, RedeemLockCoupon, CancelLockOrder, CancelLockCoupon, At,
       TypeInv, InstancesOK
  <2> QED
    BY <2>1 DEF EntryOK, CustomerChecked
<1>3. CASE RedeemEnforcePolicy(w) \/ RedeemSaveCount(w)
  <2>1. pc'[w] # "commit"
    BY <1>1, <1>3 DEF RedeemEnforcePolicy, RedeemSaveCount, SaveRedeemedCount,
       At, Raise, Goto, TypeInv, TypeOK
  <2> QED
    BY <2>1 DEF EntryOK
<1>4. CASE CancelStep(w)
  <2>1. req'[w].op = "cancel"
    BY <1>4 DEF CancelStep, CancelSaveCount, CancelMarkCancelled, At, client
  <2> QED
    BY <2>1 DEF EntryOK, CustomerChecked
<1>5. CASE pc'[w] # "commit"
  BY <1>5 DEF EntryOK
<1> QED
  BY <1>1, <1>2, <1>3, <1>4, <1>5, PlainStep, EntryMade
     DEF WorkerStep, LocalStep, RedeemStep

\* Only a cancellation fails on a CHECK constraint.
LEMMA StrandedStep ==
  ASSUME MaintainedInv, NEW w \in Workers, WorkerStep(w)
  PROVE  Stranded(w)'
<1>1. HeldInv /\ TypeInv
  BY DEF MaintainedInv, HeldInv
<1>2. CASE CleanRollback(w)'
  BY <1>2 DEF CleanRollback, Stranded
<1>3. CASE LockStep(w)
  BY <1>1, <1>2, <1>3, HeldRedeemLockOrder, HeldRedeemReplay,
     HeldRedeemLockCoupon, HeldCancelLockOrder, HeldCancelLockCoupon
     DEF LockStep, RedeemLock, CancelLock
<1>4. CASE RedeemEnforcePolicy(w) \/ RedeemSaveCount(w)
  BY <1>1, <1>2, <1>4, HeldRedeemEnforcePolicy, HeldRedeemSaveCount
<1>5. CASE RedeemAttachCoupon(w)
  BY <1>1, <1>5, HeldRedeemAttachCoupon DEF Stranded
<1>6. CASE CancelSaveCount(w)
  <2>1. req'[w].op = "cancel"
    BY <1>6 DEF CancelSaveCount, At, client
  <2> QED
    BY <1>1, <1>6, <2>1, HeldCancelSaveCount DEF Stranded, CancelSaveCount
<1>7. CASE CancelMarkCancelled(w)
  BY <1>1, <1>7, HeldCancelMarkCancelled DEF Stranded
<1>8. CASE pc'[w] # "rollback"
  BY <1>8 DEF Stranded
<1> QED
  BY <1>1, <1>3, <1>4, <1>5, <1>6, <1>7, <1>8, PlainStep
     DEF WorkerStep, LocalStep, RedeemStep, CancelStep

\* Every step of a worker keeps MaintainedInv.
LEMMA MaintainedWorker ==
  ASSUME MaintainedInv, NEW w \in Workers, WorkerStep(w), TypeInv'
  PROVE  MaintainedInv'
<1>1. HeldInv /\ TypeInv /\ EntryOK(w)
  BY DEF MaintainedInv, HeldInv
<1>2. Sound(w) /\ Writes(w)
  BY <1>1, HeldStep, StepWrites
<1>3. HeldInv'
  BY <1>1, <1>2, SoundHeld
<1>4. SingleUseAgrees' /\ WithinCaps' /\ OneUseEach'
  <2>1. /\ Written(w) /\ req[w].op = "redeem"
        /\ coupon[w].type = "STANDARD"
        => ~AlreadyUsed(coupon[w], req[w].customer, orders)
    BY <1>1 DEF Written, Commit, EntryOK, CustomerChecked
  <2> QED
    BY <1>1, <1>2, <2>1, AgreeStays, CapsStay, OneUseStays DEF MaintainedInv
<1>5. ASSUME NEW v \in Workers PROVE EntryOK(v)' /\ Stranded(v)'
  <2>1. CASE v = w
    BY <2>1, EntryStep, StrandedStep
  <2>2. CASE v # w
    <3>1. Others(w) /\ Kept(w) /\ EntryOK(v) /\ Stranded(v)
      BY <1>2 DEF Sound, MaintainedInv
    <3>2. Untouched(v)
      BY <2>2, <3>1, OthersUntouched
    <3>3. Stranded(v)'
      BY <1>1, <3>1, <3>2, RefusedStays
    <3>4. /\ pc'[v] = pc[v]
          /\ CustomerChecked(v)' <=> CustomerChecked(v)
      BY <3>2 DEF Untouched, CustomerChecked
    <3>5. EntryOK(v)'
      BY <1>1, <2>2, <3>1, <3>4, UnusedStays DEF EntryOK
    <3> QED
      BY <3>3, <3>5
  <2> QED
    BY <2>1, <2>2
<1> QED
  BY <1>3, <1>4, <1>5 DEF MaintainedInv

-----------------------------------------------------------------------------
(* MaintainedInv, and the properties it implies.                           *)

\* Empty counters, no live order with a coupon, no worker at work.
THEOREM MaintainedInit == Init => MaintainedInv
<1> SUFFICES ASSUME Init PROVE MaintainedInv
  OBVIOUS
<1>1. HeldInv /\ SingleUseAgrees /\ WithinCaps /\ OneUseEach
  BY SafeInit, LimitsAre DEF IInv, TablesOK
<1>2. \A w \in Workers : pc[w] = "idle"
  BY DEF Init
<1> QED
  BY <1>1, <1>2 DEF MaintainedInv, EntryOK, Stranded

\* Every step of the service or of a foreign writer keeps MaintainedInv.
THEOREM MaintainedStep ==
  MaintainedInv /\ [MaintainedNext]_vars => MaintainedInv'
<1> SUFFICES ASSUME MaintainedInv, [MaintainedNext]_vars PROVE MaintainedInv'
  OBVIOUS
<1>1. HeldInv /\ TypeInv
  BY DEF MaintainedInv, HeldInv
<1>2. CASE ForeignUpdate
  BY <1>2, MaintainedForeign
<1>3. CASE [Next]_vars
  <2>1. TypeInv'
    BY <1>1, <1>3, TypeStep
  <2>2. CASE \E w \in Workers : WorkerStep(w)
    BY <2>1, <2>2, MaintainedWorker
  <2>3. CASE Tick \/ UNCHANGED vars
    <3>1. HeldInv'
      BY <1>1, <2>1, <2>3, HeldTick
    <3>2. UNCHANGED <<orders, coupons, orderLock, couponLock, pc, req, coupon,
                      rule, saved, resp>>
      BY <2>3 DEF Tick, vars, tables, locks, client, instance
    <3>3. SingleUseAgrees' /\ WithinCaps' /\ OneUseEach'
      BY <3>2 DEF MaintainedInv, SingleUseAgrees, WithinCaps, OneUseEach,
         Holders, Active
    <3>4. ASSUME NEW v \in Workers PROVE EntryOK(v)' /\ Stranded(v)'
      <4>1. EntryOK(v) /\ Stranded(v)
        BY DEF MaintainedInv
      <4>2. EntryOK(v)'
        BY <3>2, <4>1 DEF EntryOK, CustomerChecked, AlreadyUsed, Active
      <4>3. Stranded(v)'
        BY <3>2, <4>1 DEF Stranded, Refused, CouponHeld
      <4> QED
        BY <4>2, <4>3
    <3> QED
      BY <3>1, <3>3, <3>4 DEF MaintainedInv
  <2> QED
    BY <1>3, <2>2, <2>3, NextSteps
<1> QED
  BY <1>2, <1>3 DEF MaintainedNext

\* What holds of every state that the services and foreign writers reach.
THEOREM MaintainedCorrect == MaintainedSpec => []MaintainedInv
BY MaintainedInit, MaintainedStep, PTL DEF MaintainedSpec

\* Beside any one-row UPDATEs that leave a coupon's code and type alone, keep
\* is_single_use with the type and attach no STANDARD coupon to a live order, a
\* stored counter is within its cap, and no customer holds a STANDARD coupon on
\* two live orders.
THEOREM ConstraintsCorrect == MaintainedSpec => []ConstraintsHold
<1>1. MaintainedInv => ConstraintsHold
  BY ConstraintsAre DEF MaintainedInv, HeldInv
<1> QED
  BY <1>1, MaintainedCorrect, PTL

\* The only raw database error that foreign writers can provoke is a
\* cancellation's, from a counter that has lost orders.
THEOREM DriftErrorsCorrect == MaintainedSpec => []RawErrorsOnlyOnDrift
<1>1. ASSUME MaintainedInv, NEW w \in Workers,
             pc[w] = "rollback", resp[w].reason = "SERVER_ERROR"
      PROVE  req[w].op = "cancel" /\ Drift(coupon[w].code) < 0
  <2> DEFINE o == req[w].order
             c == orders[o].coupon
  <2>1. req[w].op = "cancel" /\ Refused(w) /\ HeldInv /\ WithinCaps
    BY <1>1 DEF MaintainedInv, Stranded
  <2>2. o \in Orders
    <3>1. req[w] \in Requests
      BY <1>1, <2>1 DEF HeldInv, TypeInv, TypeOK, ControlOK
    <3> QED
      BY <2>1, <3>1, RequestFields
  <2>3. orders[o] # None
    BY <2>1, <2>2 DEF HeldInv, WorkerOK, LocksOK, Refused
  <2>4. /\ c \in Codes /\ c # None /\ coupon[w].code = c
        /\ coupons[c] # None /\ orders[o].status = "PLACED"
        /\ coupons[c].redeemed_count \notin 1 .. coupons[c].max_redemptions
    BY <2>1, <2>2, <2>3
       DEF Refused, CouponHeld, HeldInv, TypeInv, TypeOK, OrderRow
  <2>5. coupons[c].redeemed_count = 0
    <3>1. coupons[c] \in CouponRow
      BY <2>1, <2>4 DEF HeldInv, TypeInv, TypeOK
    <3>2. coupons[c].redeemed_count <= coupons[c].max_redemptions
      BY <2>1, <2>4 DEF WithinCaps
    <3> QED
      BY <2>4, <3>1, <3>2 DEF CouponRow
  <2>6. Cardinality(Holders(c)) \in Nat \ {0}
    <3>1. o \in Holders(c)
      BY <2>2, <2>3, <2>4 DEF Holders, Active
    <3> QED
      BY <2>4, <3>1, HoldersFinite, FS_EmptySet
  <2> QED
    BY <2>1, <2>4, <2>5, <2>6 DEF Drift
<1>2. MaintainedInv => RawErrorsOnlyOnDrift
  BY <1>1 DEF RawErrorsOnlyOnDrift
<1> QED
  BY <1>2, MaintainedCorrect, PTL

\* No step of a worker moves a counter against the orders it counts, whoever
\* has moved it before.
THEOREM DriftCorrect == MaintainedSpec => ServicesKeepDrift
<1>1. MaintainedInv /\ [MaintainedNext]_vars => [DriftKept]_vars
  <2> SUFFICES ASSUME MaintainedInv, [MaintainedNext]_vars, pc' # pc,
                      NEW c \in Codes, coupons[c] # None
               PROVE  Drift(c)' = Drift(c)
    BY DEF DriftKept
  <2>1. HeldInv /\ TypeInv
    BY DEF MaintainedInv, HeldInv
  <2>2. ~ForeignUpdate
    BY <2>1, ForeignRows DEF NewCoupon, NewOrderRow, Unmoved
  <2>3. PICK w \in Workers : WorkerStep(w)
    BY <2>2, NextSteps DEF MaintainedNext, Tick, vars
  <2>4. Writes(w) /\ TypeInv'
    BY <2>1, <2>2, <2>3, StepWrites, TypeStep DEF MaintainedNext
  <2>5. coupons[c].redeemed_count \in Nat
    BY <2>1 DEF TypeInv, TypeOK, CouponRow
  <2> QED
    BY <2>1, <2>4, <2>5, DriftStays DEF Drift
<1> QED
  BY <1>1, MaintainedCorrect, PTL DEF MaintainedSpec, ServicesKeepDrift
=============================================================================
