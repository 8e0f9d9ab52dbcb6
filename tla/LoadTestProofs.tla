---------------------------- MODULE LoadTestProofs -----------------------------
(***************************************************************************)
(* The verdict of the load test: whenever the script passes one, it is     *)
(* PASS, and as many orders carry the coupon as there were slots, for any  *)
(* number of contenders, slots, threads and workers, and whatever calls    *)
(* time out or workers die.  LoadInv adds to AnswerInv what the tables can *)
(* hold, whom each worker answers, and what main and its tasks may rely on *)
(* at each stage.                                                          *)
(***************************************************************************)
EXTENDS LoadTest, CouponAnswerProofs

\* All that is in the tables is what the script made: one coupon, with as many
\* slots as it asked for, and live orders of its contenders.
OnlyCoupon ==
  \A c \in Codes : coupons[c] # None =>
    /\ c = Code
    /\ coupons[c].type = "STACKABLE" /\ coupons[c].expires_at = MaxTime
    /\ coupons[c].max_redemptions = Capacity

OnlyOrders ==
  \A o \in Orders : orders[o] # None =>
    /\ orders[o].status = "PLACED"
    /\ \E i \in Tasks : o = OrderOf[i] /\ orders[o].user = CustomerOf[i]

\* A contender holds the coupon.
Carries(i) ==
  orders[OrderOf[i]] # None /\ orders[OrderOf[i]].coupon = Code

\* All slots are gone.
Full == coupons[Code] # None /\ Cardinality(Holders(Code)) = Capacity

ScriptTypeOK ==
  /\ stage \in {"coupon", "user", "order", "redeem", "detail", "done"}
  /\ index \in Tasks
  /\ caller \in [Workers -> Tasks \cup {0, None}]
  /\ outcomes \in [Tasks -> {None, "OK", "COUPON_EXHAUSTED", "LOST",
                             "CANCELLED"}]
  /\ verdict \in {None, "PASS", "ERROR"}

\* Whom a worker serves: main, a task that waits for it, or nobody any more.
ServesOK(w) ==
  /\ caller[w] # None => pc[w] # "idle"
  /\ pc[w] # "idle" => req[w] \in ScriptRequests
  /\ caller[w] = 0 =>
       /\ verdict = None
       /\ stage \in DOMAIN SeedRequest(index)
       /\ req[w] = SeedRequest(index)[stage]
  /\ caller[w] \in Tasks =>
       /\ stage = "redeem" /\ outcomes[caller[w]] = None
       /\ req[w] = RedeemTask(caller[w])
  /\ pc[w] # "idle" /\ req[w].op = "redeem" =>
       \E i \in Tasks : /\ req[w] = RedeemTask(i)
                        /\ caller[w] = i \/ outcomes[i] = "LOST"

OneCall ==
  \A v, w \in Workers : caller[v] = caller[w] /\ caller[v] # None => v = w

\* A redemption finds its order and the coupon, and is refused only because
\* all slots are gone.
ContenderOK(w) ==
  pc[w] # "idle" /\ req[w].op = "redeem" =>
    /\ orders[req[w].order] # None
    /\ coupons[Code] # None
    /\ pc[w] \in {"rollback", "respond"} /\ resp[w].reason # "OK" =>
         resp[w].reason = "COUPON_EXHAUSTED" /\ Full

\* What main is about to hear is so.
SeedOK(w) ==
  caller[w] = 0 /\ pc[w] = "respond" =>
    /\ stage = "coupon" => coupons[Code] # None
    /\ stage = "user" => CustomerOf[index] \in users
    /\ stage = "order" => orders[OrderOf[index]] # None
    /\ stage = "detail" /\ resp[w].reason = "OK" => resp[w].remaining = 0

\* A task's outcome is true, and a contender that holds the coupon has heard
\* so, or has had an exception, or is about to hear.
OutcomeOK(i) ==
  /\ outcomes[i] = "OK" => Carries(i)
  /\ outcomes[i] = "COUPON_EXHAUSTED" => Full
  /\ outcomes[i] = "CANCELLED" => \E j \in Tasks : outcomes[j] = "LOST"
  /\ Carries(i) =>
       \/ outcomes[i] \in {"OK", "LOST"}
       \/ \E w \in Workers :
            caller[w] = i /\ pc[w] = "respond" /\ resp[w].reason = "OK"

\* What main relies on at each stage, unless it has already given up.
StageOK ==
  verdict # "ERROR" =>
    /\ stage # "coupon" => coupons[Code] # None
    /\ \A i \in Tasks : i < index \/ stage \notin {"coupon", "user", "order"}
         => orders[OrderOf[i]] # None
    /\ stage = "order" => CustomerOf[index] \in users
    /\ stage \in {"detail", "done"} =>
         Full /\ Cardinality({i \in Tasks : outcomes[i] = "OK"}) = Capacity

VerdictOK ==
  /\ stage = "redeem" => verdict = None
  /\ verdict = "PASS" => stage = "done"

\* The inductive invariant of the script and the service.
LoadInv ==
  /\ AnswerInv
  /\ ScriptTypeOK
  /\ OnlyCoupon /\ OnlyOrders
  /\ OneCall
  /\ \A w \in Workers : ServesOK(w) /\ ContenderOK(w) /\ SeedOK(w)
  /\ \A i \in Tasks : OutcomeOK(i)
  /\ StageOK /\ VerdictOK

-----------------------------------------------------------------------------
(* What the script makes up and asks.                                      *)

\* Its customers, orders and code are the service's, and its requests too.
LEMMA MadeUp ==
  /\ Code \in Codes /\ Code # None
  /\ Capacity \in Nat /\ Contenders \in Nat /\ 1 \in Tasks
  /\ None \notin Tasks \cup {0} /\ 0 \notin Tasks
  /\ \A i \in Tasks :
       /\ OrderOf[i] \in Orders
       /\ RedeemTask(i) \in ScriptRequests
       /\ \A seed \in DOMAIN SeedRequest(i) :
            SeedRequest(i)[seed] \in ScriptRequests
<1>1. ASSUME NEW i \in Tasks
      PROVE  /\ RedeemTask(i) \in ScriptRequests
             /\ \A seed \in DOMAIN SeedRequest(i) :
                  SeedRequest(i)[seed] \in ScriptRequests
  BY <1>1 DEF ScriptRequests, SeedRequest
<1>2. ASSUME NEW i \in Tasks PROVE OrderOf[i] \in Orders /\ Code \in Codes
  <2>1. RedeemTask(i) \in Requests
    BY <1>1, <1>2, LoadTestAssumption
  <2>2. /\ RedeemTask(i).op = "redeem" /\ RedeemTask(i).code = Code
        /\ RedeemTask(i).order = OrderOf[i]
    BY DEF RedeemTask
  <2> QED
    BY <2>1, <2>2, RequestFields
<1>3. Capacity \in Nat /\ Contenders \in Nat /\ 1 \in Tasks /\ 0 \notin Tasks
  BY LoadTestAssumption DEF Tasks
<1>4. None \notin Tasks \cup {0}
  BY <1>3, WorkersAssumption DEF Tasks
<1> QED
  BY <1>1, <1>2, <1>3, <1>4, NoneAssumption

\* Each of its requests asks for the coupon and for a contender's order.
LEMMA Asked ==
  ASSUME NEW r \in ScriptRequests
  PROVE  /\ r \in Requests /\ r.op # "cancel"
         /\ r.op = "redeem" => \E i \in Tasks : r = RedeemTask(i)
         /\ r.op \in {"redeem", "query", "create_coupon"} => r.code = Code
         /\ r.op = "create_coupon" =>
              /\ r.row.type = "STACKABLE" /\ r.row.expires_at = MaxTime
              /\ r.row.max_redemptions = Capacity
         /\ r.op = "create_order" => \E i \in Tasks :
              r.order = OrderOf[i] /\ r.customer = CustomerOf[i]
<1>1. r \in Requests
  BY LoadTestAssumption
<1>2. PICK i \in Tasks :
        r \in {SeedRequest(i).coupon, SeedRequest(i).user,
               SeedRequest(i).order, SeedRequest(i).detail, RedeemTask(i)}
  BY DEF ScriptRequests
<1>3. CASE r = SeedRequest(i).coupon
  BY <1>1, <1>3 DEF SeedRequest
<1>4. CASE r = SeedRequest(i).user
  BY <1>1, <1>4 DEF SeedRequest
<1>5. CASE r = SeedRequest(i).order
  BY <1>1, <1>5 DEF SeedRequest
<1>6. CASE r = SeedRequest(i).detail
  BY <1>1, <1>6 DEF SeedRequest
<1>7. CASE r = RedeemTask(i)
  BY <1>1, <1>7 DEF RedeemTask
<1> QED
  BY <1>2, <1>3, <1>4, <1>5, <1>6, <1>7

\* What main asks at each stage.
LEMMA Seeds ==
  ASSUME NEW i \in Tasks
  PROVE  LET seed == SeedRequest(i) IN
         /\ DOMAIN seed = {"coupon", "user", "order", "detail"}
         /\ seed["coupon"].op = "create_coupon"
         /\ seed["coupon"].code = Code
         /\ seed["user"].op = "create_user"
         /\ seed["user"].customer = CustomerOf[i]
         /\ seed["order"].op = "create_order"
         /\ seed["order"].customer = CustomerOf[i]
         /\ seed["order"].order = OrderOf[i]
         /\ seed["detail"].op = "query"
         /\ seed["detail"].code = Code
BY DEF SeedRequest

\* A task redeems the coupon on its contender's order, and only its own does.
LEMMA TaskAsks ==
  ASSUME NEW i \in Tasks
  PROVE  /\ RedeemTask(i).op = "redeem" /\ RedeemTask(i).code = Code
         /\ RedeemTask(i).customer = CustomerOf[i]
         /\ RedeemTask(i).order = OrderOf[i]
         /\ \A j \in Tasks : OrderOf[i] = OrderOf[j] => i = j
BY LoadTestAssumption DEF RedeemTask

-----------------------------------------------------------------------------
(* The steps of the script and of the service.                             *)

\* A step is a call, an answer, a loss, a worker's statement or the pool's.
LEMMA ScriptKinds ==
  ASSUME [LoadNext]_loadVars
  PROVE  \/ \E w \in Workers : \/ MainCall(w)
                               \/ \E i \in Tasks : TaskCall(w, i)
                               \/ Answered(w)
                               \/ TimesOut(w)
                               \/ Dies(w)
                               \/ Work(w)
         \/ PoolRaises
         \/ PoolEnds
         \/ UNCHANGED loadVars
BY DEF LoadNext, ScriptStep

\* Whoever calls sends the request that the script makes up for it.
Takes(w, who, r) ==
  /\ ~Waiting(who)
  /\ Call(w, who, r)
  /\ who = 0 => /\ verdict = None
                /\ stage \in DOMAIN SeedRequest(index)
                /\ r = SeedRequest(index)[stage]
  /\ who \in Tasks => /\ stage = "redeem" /\ outcomes[who] = None
                      /\ r = RedeemTask(who)

LEMMA Calls ==
  ASSUME ScriptTypeOK, NEW w \in Workers,
         MainCall(w) \/ \E i \in Tasks : TaskCall(w, i)
  PROVE  \E who \in Tasks \cup {0}, r \in ScriptRequests : Takes(w, who, r)
<1>1. CASE MainCall(w)
  <2>1. /\ index \in Tasks /\ verdict = None /\ ~Waiting(0)
        /\ stage \in DOMAIN SeedRequest(index)
        /\ Call(w, 0, SeedRequest(index)[stage])
    BY <1>1 DEF MainCall, ScriptTypeOK
  <2> QED
    BY <2>1, MadeUp DEF Takes
<1>2. ASSUME NEW i \in Tasks, TaskCall(w, i)
      PROVE  Takes(w, i, RedeemTask(i))
  BY <1>2, MadeUp DEF TaskCall, Takes
<1> QED
  BY <1>1, <1>2, MadeUp

\* A step of the system is a step of one worker, or leaves the service alone.
LEMMA LoadSteps ==
  ASSUME ScriptTypeOK, [LoadNext]_loadVars
  PROVE  [Next]_vars /\ (UNCHANGED vars \/ \E w \in Workers : WorkerStep(w))
<1>1. ASSUME NEW w \in Workers, MainCall(w) \/ \E i \in Tasks : TaskCall(w, i)
      PROVE  Next /\ WorkerStep(w)
  <2>1. PICK r \in Requests : Receive(w, r)
    BY <1>1, Calls, Asked DEF Takes, Call
  <2> QED
    BY <2>1 DEF Next, WorkerStep
<1>2. ASSUME NEW w \in Workers, Answered(w) \/ Dies(w) \/ Work(w)
      PROVE  Next /\ WorkerStep(w)
  BY <1>2 DEF Answered, Dies, Work, Next, WorkerStep, LocalStep
<1>3. ASSUME NEW w \in Workers, TimesOut(w) PROVE UNCHANGED vars
  BY <1>3 DEF TimesOut
<1>4. CASE PoolRaises \/ PoolEnds \/ UNCHANGED loadVars
  BY <1>4 DEF PoolRaises, PoolEnds, loadVars, vars
<1> QED
  BY <1>1, <1>2, <1>3, <1>4, ScriptKinds
-----------------------------------------------------------------------------
(* The tables of the load test.                                            *)

\* The service's own invariant goes on holding.
LEMMA ServiceGoesOn ==
  ASSUME LoadInv, [LoadNext]_loadVars
  PROVE  AnswerInv'
BY LoadSteps, AnswerStep DEF LoadInv

\* A COMMIT changes nothing of a coupon but its counter.
LEMMA TermsStay ==
  ASSUME TypeInv, NEW w \in Workers, Commit(w), NEW c \in Codes,
         coupons[c] # None
  PROVE  /\ coupons'[c] # None /\ coupons'[c].type = coupons[c].type
         /\ coupons'[c].expires_at = coupons[c].expires_at
         /\ coupons'[c].max_redemptions = coupons[c].max_redemptions
<1>1. CASE "redeemed_count" \notin saved[w]
  BY <1>1 DEF Commit, InstallCoupon
<1>2. CASE "redeemed_count" \in saved[w]
  <2> DEFINE count == coupon[w].redeemed_count
             d     == coupon[w].code
             row   == [coupons[c] EXCEPT !.redeemed_count = count]
  <2>1. coupons \in [Codes -> CouponRow \cup {None}]
    BY DEF TypeInv, TypeOK
  <2>2. coupons'[c] \in {coupons[c], row}
    BY <1>2, <2>1 DEF Commit, InstallCoupon
  <2>3. coupons[c] \in CouponRow
    BY <2>1
  <2> HIDE DEF count
  <2>4. /\ row.type = coupons[c].type
        /\ row.expires_at = coupons[c].expires_at
        /\ row.max_redemptions = coupons[c].max_redemptions
    BY <2>3 DEF CouponRow
  <2>5. count \in Int
    BY <1>2 DEF TypeInv, TypeOK, InstancesOK, CouponInstance, count
  <2>6. row \in CouponInstance
    BY <2>3, <2>5 DEF CouponRow, CouponInstance
  <2> QED
    BY <2>2, <2>4, <2>6, NoneAssumption
<1> QED
  BY <1>1, <1>2

\* A statement of a worker is one of a request of the script.
LEMMA Serving ==
  ASSUME LoadInv, NEW w \in Workers, pc[w] # "idle"
  PROVE  req[w] \in ScriptRequests /\ ContenderOK(w) /\ ServesOK(w)
BY DEF LoadInv, ServesOK

\* No coupon but the script's is ever created, and it keeps its terms.
LEMMA CouponsStay ==
  ASSUME LoadInv, NEW w \in Workers, Writes(w)
  PROVE  OnlyCoupon'
<1>1. HeldInv /\ TypeInv /\ OnlyCoupon
  BY DEF LoadInv, AnswerInv, IInv, HeldInv
<1>2. CASE coupons' = coupons
  BY <1>1, <1>2 DEF OnlyCoupon
<1>3. CASE CouponAdded(w)
  <2> DEFINE row == req[w].row
  <2>1. pc[w] # "idle" /\ req[w].op = "create_coupon"
    BY <1>3 DEF CouponAdded, InsertCoupon, At
  <2>2. /\ req[w].code = Code
        /\ row.type = "STACKABLE" /\ row.expires_at = MaxTime
        /\ row.max_redemptions = Capacity
    BY <2>1, Serving, Asked
  <2>3. coupons' = [coupons EXCEPT ![Code] = row]
    BY <1>3, <2>2 DEF CouponAdded
  <2> HIDE DEF row
  <2>4. \A c \in Codes : coupons'[c] = IF c = Code THEN row ELSE coupons[c]
    BY <1>1, <2>3 DEF TypeInv, TypeOK
  <2> QED
    BY <1>1, <2>2, <2>4 DEF OnlyCoupon
<1>4. CASE Written(w)
  <2>1. Commit(w) /\ pc[w] # "idle" /\ req[w].op # "cancel"
    BY <1>4, Serving, Asked DEF Written, Commit
  <2>2. Redeems(w)
    BY <1>4, <2>1 DEF Written
  <2>3. \A c \in Codes : coupons'[c] # None => coupons[c] # None
    BY <2>2 DEF Redeems
  <2> QED
    BY <1>1, <2>1, <2>3, TermsStay DEF OnlyCoupon
<1> QED
  BY <1>2, <1>3, <1>4 DEF Writes, tables, UserAdded, OrderAdded

\* No order but the contenders' is ever created, and none is cancelled.
LEMMA OnlyOrdersStay ==
  ASSUME LoadInv, NEW w \in Workers, Writes(w)
  PROVE  OnlyOrders'
<1>1. HeldInv /\ TypeInv /\ OnlyOrders
  BY DEF LoadInv, AnswerInv, IInv, HeldInv
<1>2. CASE orders' = orders
  BY <1>1, <1>2 DEF OnlyOrders
<1>3. CASE OrderAdded(w)
  <2> DEFINE o == req[w].order
  <2>1. pc[w] # "idle" /\ req[w].op = "create_order"
    BY <1>3 DEF OrderAdded, InsertOrder, At
  <2>2. \E i \in Tasks : o = OrderOf[i] /\ req[w].customer = CustomerOf[i]
    BY <2>1, Serving, Asked
  <2>3. orders' = [orders EXCEPT ![o] = NewOrder(req[w].customer)]
    BY <1>3 DEF OrderAdded
  <2>4. \A p \in Orders : orders'[p] = IF p = o THEN NewOrder(req[w].customer)
                                                ELSE orders[p]
    BY <1>1, <2>3 DEF TypeInv, TypeOK
  <2>5. /\ NewOrder(req[w].customer).status = "PLACED"
        /\ NewOrder(req[w].customer).user = req[w].customer
    BY DEF NewOrder
  <2> QED
    BY <1>1, <2>2, <2>4, <2>5 DEF OnlyOrders
<1>4. CASE Written(w)
  <2>1. pc[w] # "idle" /\ req[w].op # "cancel"
    BY <1>4, Serving, Asked DEF Written, Commit
  <2>2. Redeems(w)
    BY <1>4, <2>1 DEF Written
  <2> QED
    BY <1>1, <2>2 DEF OnlyOrders, Redeems
<1> QED
  BY <1>2, <1>3, <1>4 DEF Writes, tables, UserAdded, CouponAdded

\* Whatever happens, the tables hold what they should.
LEMMA LoadTables ==
  ASSUME LoadInv, [LoadNext]_loadVars
  PROVE  OnlyCoupon' /\ OnlyOrders'
<1>1. CASE UNCHANGED vars
  BY <1>1 DEF LoadInv, vars, tables, OnlyCoupon, OnlyOrders
<1>2. ASSUME NEW w \in Workers, WorkerStep(w)
      PROVE  OnlyCoupon' /\ OnlyOrders'
  BY <1>2, StepWrites, CouponsStay, OnlyOrdersStay
     DEF LoadInv, AnswerInv, IInv
<1> QED
  BY <1>1, <1>2, LoadSteps DEF LoadInv

-----------------------------------------------------------------------------
(* What is so, stays so.                                                   *)

\* The holders of the coupon are the contenders that carry it.
LEMMA HoldersAre ==
  OnlyOrders =>
    Holders(Code) = {OrderOf[i] : i \in {j \in Tasks : Carries(j)}}
BY MadeUp DEF OnlyOrders, Holders, Active, Carries

\* At most as many as there are slots.
LEMMA HoldersWithin ==
  AnswerInv /\ OnlyCoupon /\ coupons[Code] # None =>
    /\ IsFiniteSet(Holders(Code)) /\ Cardinality(Holders(Code)) \in Nat
    /\ Cardinality(Holders(Code)) <= Capacity
<1> SUFFICES ASSUME AnswerInv, OnlyCoupon, coupons[Code] # None
             PROVE  Cardinality(Holders(Code)) <= Capacity
  BY HoldersFinite, MadeUp
<1>1. RedemptionLimits
  BY DEF AnswerInv, IInv, TablesOK
<1> QED
  BY <1>1, MadeUp DEF OnlyCoupon, RedemptionLimits

\* A counter that has reached its limit has that many holders.
LEMMA FullIfExhausted ==
  ASSUME AnswerInv, OnlyCoupon, coupons[Code] # None, Exhausted(coupons[Code])
  PROVE  Full
<1>1. /\ coupons[Code].redeemed_count = Cardinality(Holders(Code))
      /\ coupons[Code].max_redemptions = Capacity
  BY MadeUp DEF AnswerInv, IInv, TablesOK, CountMatchesHolders, OnlyCoupon
<1> QED
  BY <1>1, HoldersWithin, MadeUp DEF Exhausted, Full

\* What grows: the tables, the holders of the coupon, and so the number of
\* slots that are gone.
Grows ==
  /\ users \subseteq users'
  /\ coupons[Code] # None => coupons'[Code] # None
  /\ \A i \in Tasks :
       /\ orders[OrderOf[i]] # None => orders'[OrderOf[i]] # None
       /\ Carries(i) => Carries(i)'
  /\ Full => Full'

\* Slots that are gone never come back: nobody cancels here.
LEMMA FullStays ==
  ASSUME AnswerInv', OnlyCoupon', OnlyOrders, OnlyOrders', Full,
         coupons'[Code] # None, \A i \in Tasks : Carries(i) => Carries(i)'
  PROVE  Full'
<1>1. Holders(Code) \subseteq Holders(Code)'
  <2>1. (OnlyOrders =>
           Holders(Code) = {OrderOf[i] : i \in {j \in Tasks : Carries(j)}})'
    BY HoldersAre, PTL
  <2> QED
    BY <2>1, HoldersAre
<1>2. (AnswerInv /\ OnlyCoupon /\ coupons[Code] # None =>
         /\ IsFiniteSet(Holders(Code)) /\ Cardinality(Holders(Code)) \in Nat
         /\ Cardinality(Holders(Code)) <= Capacity)'
  BY HoldersWithin, PTL
<1>3. Cardinality(Holders(Code)) <= Cardinality(Holders(Code)')
  BY <1>1, <1>2, FS_Subset
<1> QED
  BY <1>2, <1>3, MadeUp DEF Full

\* No step takes anything back.
LEMMA LoadGrows ==
  ASSUME LoadInv, [LoadNext]_loadVars
  PROVE  Grows
<1>1. OrdersGrow /\ users \subseteq users'
  <2>1. CASE UNCHANGED vars
    BY <2>1 DEF vars, tables, OrdersGrow
  <2>2. ASSUME NEW w \in Workers, WorkerStep(w)
        PROVE  OrdersGrow /\ users \subseteq users'
    BY <2>2, StepWrites, TablesGrow DEF LoadInv, AnswerInv, IInv, HeldInv
  <2> QED
    BY <2>1, <2>2, LoadSteps DEF LoadInv
<1>2. coupons[Code] # None => coupons'[Code] # None
  <2>1. CASE UNCHANGED vars
    BY <2>1 DEF vars, tables
  <2>2. ASSUME NEW w \in Workers, WorkerStep(w), coupons[Code] # None
        PROVE  coupons'[Code] # None
    <3>1. TypeInv /\ Writes(w)
      BY <2>2, StepWrites DEF LoadInv, AnswerInv, IInv, HeldInv
    <3>2. CASE CouponAdded(w)
      BY <2>2, <3>1, <3>2, MadeUp DEF CouponAdded, TypeInv, TypeOK
    <3>3. CASE Written(w)
      BY <2>2, <3>1, <3>3, MadeUp, TermsStay DEF Written
    <3> QED
      BY <2>2, <3>1, <3>2, <3>3 DEF Writes, tables, UserAdded, OrderAdded
  <2> QED
    BY <2>1, <2>2, LoadSteps DEF LoadInv
<1>3. \A i \in Tasks :
        /\ orders[OrderOf[i]] # None => orders'[OrderOf[i]] # None
        /\ Carries(i) => Carries(i)'
  BY <1>1, MadeUp DEF OrdersGrow, Carries
<1> QED
  BY <1>1, <1>2, <1>3, ServiceGoesOn, LoadTables, FullStays
     DEF Grows, LoadInv, Full

-----------------------------------------------------------------------------
(* What the service answers to a contender and to main.                    *)

\* The order of a redemption is there for it to take, and the coupon too.
LEMMA Contending ==
  ASSUME LoadInv, NEW w \in Workers, pc[w] # "idle", req[w].op = "redeem"
  PROVE  LET o == req[w].order IN
         /\ req[w].code = Code /\ coupons[Code] # None
         /\ coupons[Code].code = Code
         /\ coupons[Code].type = "STACKABLE"
         /\ coupons[Code].expires_at = MaxTime
         /\ o \in Orders /\ orders[o] # None /\ orders[o].status = "PLACED"
         /\ orders[o].user = req[w].customer
         /\ orders[o].coupon # None => orders[o].coupon = Code
<1>1. TypeInv /\ OnlyCoupon /\ OnlyOrders /\ SingleUseAgrees
  BY DEF LoadInv, AnswerInv, IInv, HeldInv, TablesOK
<1>2. PICK i \in Tasks : req[w] = RedeemTask(i)
  BY Serving, Asked
<1>3. /\ req[w].order = OrderOf[i] /\ req[w].customer = CustomerOf[i]
      /\ req[w].code = Code
  BY <1>2, TaskAsks
<1>4. orders[OrderOf[i]] # None /\ coupons[Code] # None
  BY <1>3, Serving DEF ContenderOK
<1>5. /\ OrderOf[i] \in Orders /\ orders[OrderOf[i]].status = "PLACED"
      /\ orders[OrderOf[i]].user = CustomerOf[i]
  BY <1>1, <1>4, MadeUp, TaskAsks DEF OnlyOrders
<1>6. /\ coupons[Code].code = Code /\ coupons[Code].type = "STACKABLE"
      /\ coupons[Code].expires_at = MaxTime
  BY <1>1, <1>4, MadeUp DEF OnlyCoupon, TypeInv, TypeOK
<1>7. orders[OrderOf[i]].coupon # None => orders[OrderOf[i]].coupon = Code
  <2>1. orders[OrderOf[i]].coupon \in Codes \cup {None}
    BY <1>1, <1>4, <1>5 DEF TypeInv, TypeOK, OrderRow
  <2> QED
    BY <1>1, <1>4, <1>5, <2>1 DEF OnlyCoupon, SingleUseAgrees
<1> QED
  BY <1>3, <1>4, <1>5, <1>6, <1>7

\* The only rule that can refuse a contender is the one of capacity.
LEMMA OnlyCapacity ==
  ASSUME LoadInv, NEW w \in Workers, RedeemEnforcePolicy(w)
  PROVE  /\ pc'[w] # "respond"
         /\ pc'[w] = "rollback" =>
              resp'[w].reason = "COUPON_EXHAUSTED" /\ Full
<1> DEFINE cpn    == coupon[w]
           policy == for_type(cpn.type)[rule[w]]
<1>1. TypeInv /\ TransactionOK(w) /\ AnswerInv /\ OnlyCoupon
  BY DEF LoadInv, AnswerInv, IInv, HeldInv, WorkerOK
<1>2. pc[w] = "policies" /\ req[w].op = "redeem" /\ pc[w] # "idle"
  BY DEF RedeemEnforcePolicy, At
<1>3. /\ req[w].code = Code /\ coupons[Code] # None
      /\ coupons[Code].type = "STACKABLE"
      /\ coupons[Code].expires_at = MaxTime
  BY <1>2, Contending
<1>4. cpn = coupons[Code]
  BY <1>1, <1>2, <1>3
     DEF TransactionOK, RedeemOK, Guarded, Fresh, CouponHeld
<1>5. /\ now \in Nat /\ now <= MaxTime
      /\ rule[w] \in 1 .. Len(for_type(cpn.type)) /\ cpn.type \in CouponType
  <2>1. cpn.type \in CouponType
    BY <1>3, <1>4 DEF CouponType
  <2>2. /\ rule[w] \in 1 .. 3 /\ rule[w] <= Len(for_type(cpn.type))
        /\ now \in 0 .. MaxTime
    BY <1>1, <1>2 DEF TypeInv, TypeOK, InstancesOK
  <2>3. Len(for_type(cpn.type)) \in 2 .. 3
    BY <2>1, RuleCount
  <2> QED
    BY <2>1, <2>2, <2>3, TimeAssumption
<1>6. /\ policy \in Rules
      /\ policy = "single_use" => cpn.type = "STANDARD"
  BY <1>5, WhichRule
<1>7. CASE Raise(w, PolicyError[policy])
             /\ Refuses(policy, cpn, req[w].customer, orders, now)
  <2>1. policy # "expiry"
    BY <1>3, <1>4, <1>5, <1>7, TimeAssumption DEF Refuses, Expired
  <2>2. policy = "capacity"
    BY <1>3, <1>4, <1>6, <2>1 DEF Rules
  <2>3. Exhausted(coupons[Code])
    BY <1>4, <1>7, <2>2 DEF Refuses
  <2>4. Full
    BY <1>1, <1>3, <2>3, FullIfExhausted
  <2>5. pc'[w] = "rollback" /\ resp'[w] = Error("COUPON_EXHAUSTED")
    BY <1>1, <1>7, <2>2 DEF Raise, Goto, PolicyError, TypeInv, TypeOK
  <2> QED
    BY <2>4, <2>5 DEF Error
<1>8. CASE pc' = pc \/ Goto(w, "saveCount")
  BY <1>1, <1>2, <1>8 DEF Goto, TypeInv, TypeOK
<1> QED
  BY <1>7, <1>8 DEF RedeemEnforcePolicy

\* Nothing but capacity stands between a contender and its slot.
LEMMA Unrefused ==
  ASSUME LoadInv, AnswerInv', NEW w \in Workers,
         LockStep(w) \/ RedeemStep(w), req[w].op = "redeem"
  PROVE  /\ pc'[w] # "respond"
         /\ pc'[w] = "rollback" =>
              resp'[w].reason = "COUPON_EXHAUSTED" /\ Full
<1>1. TypeInv /\ TransactionOK(w) /\ CleanRollback(w)'
  BY DEF LoadInv, AnswerInv, IInv, HeldInv, WorkerOK, ServiceOK
<1>2. CASE RedeemLockOrder(w)
  <2>1. pc[w] # "idle"
    BY <1>2 DEF RedeemLockOrder, At
  <2>2. \E label \in {"lockAttached", "lockCoupon"} : Goto(w, label)
    BY <1>2, <2>1, Contending DEF RedeemLockOrder
  <2> QED
    BY <1>1, <2>2 DEF Goto, TypeInv, TypeOK
<1>3. CASE RedeemReplay(w)
  <2>1. pc[w] = "lockAttached" /\ req[w].op = "redeem"
    BY <1>3 DEF RedeemReplay, At
  <2>2. order[w] = orders[req[w].order] /\ order[w].coupon # None
    BY <1>1, <2>1
       DEF TransactionOK, OrderHeld, Guarded, TypeInv, InstancesOK
  <2>3. order[w].coupon = Code
    BY <2>1, <2>2, Contending
  <2>4. Goto(w, "commit")
    BY <1>3, <2>1, <2>3, Contending DEF RedeemReplay, Return
  <2> QED
    BY <1>1, <2>4 DEF Goto, TypeInv, TypeOK
<1>4. CASE RedeemLockCoupon(w)
  <2>1. pc[w] # "idle"
    BY <1>4 DEF RedeemLockCoupon, At
  <2>2. Goto(w, "policies")
    BY <1>4, <2>1, Contending DEF RedeemLockCoupon
  <2> QED
    BY <1>1, <2>2 DEF Goto, TypeInv, TypeOK
<1>5. CASE RedeemSaveCount(w)
  <2>1. Goto(w, "attachCoupon") \/ Raise(w, "SERVER_ERROR")
    BY <1>5 DEF RedeemSaveCount, SaveRedeemedCount
  <2>2. Raise(w, "SERVER_ERROR") => resp'[w] = Error("SERVER_ERROR")
    BY <1>1 DEF Raise, TypeInv, TypeOK
  <2>3. Raise(w, "SERVER_ERROR") => ~CleanRollback(w)'
    BY <1>1, <2>2 DEF Raise, Goto, CleanRollback, Error, TypeInv, TypeOK
  <2> QED
    BY <1>1, <2>1, <2>3 DEF Goto, TypeInv, TypeOK
<1>6. CASE RedeemAttachCoupon(w)
  <2>1. saved[w] = {"redeemed_count"}
    BY <1>1, <1>6
       DEF RedeemAttachCoupon, At, TransactionOK, RedeemOK, Guarded, Writing
  <2>2. Goto(w, "commit") \/ (Goto(w, "rollback") /\ saved' = saved)
    BY <1>6 DEF RedeemAttachCoupon, Return, Raise
  <2> QED
    BY <1>1, <2>1, <2>2 DEF Goto, CleanRollback, TypeInv, TypeOK
<1>7. ~CancelLock(w)
  BY DEF CancelLock, CancelLockOrder, CancelLockCoupon, At
<1> QED
  BY <1>2, <1>3, <1>4, <1>5, <1>6, <1>7, OnlyCapacity
     DEF LockStep, RedeemLock, RedeemStep

\* A contender keeps its order, the coupon and a refusal's reason.
LEMMA ContenderStays ==
  ASSUME LoadInv, Grows, NEW v \in Workers,
         req'[v] = req[v], resp'[v] = resp[v],
         pc'[v] = pc[v] \/ (pc[v] = "rollback" /\ pc'[v] = "respond")
  PROVE  ContenderOK(v)'
<1> SUFFICES ASSUME pc[v] # "idle", req[v].op = "redeem"
             PROVE  ContenderOK(v)'
  BY DEF ContenderOK
<1>1. ContenderOK(v) /\ \E i \in Tasks : req[v] = RedeemTask(i)
  BY Serving, Asked
<1>2. \E i \in Tasks : req[v].order = OrderOf[i]
  BY <1>1, TaskAsks
<1> QED
  BY <1>1, <1>2 DEF ContenderOK, Grows

\* No statement refuses a contender for another reason, or without one.
LEMMA ContenderWorks ==
  ASSUME LoadInv, AnswerInv', Grows, NEW w \in Workers, Work(w)
  PROVE  ContenderOK(w)'
<1>1. TypeInv /\ req' = req
  BY StatementStays DEF Work, LoadInv, AnswerInv, IInv, HeldInv
<1> SUFFICES ASSUME req[w].op = "redeem" PROVE ContenderOK(w)'
  BY <1>1 DEF ContenderOK
<1>2. CASE LockStep(w) \/ RedeemStep(w)
  <2>1. pc[w] # "idle"
    BY <1>2 DEF LockStep, RedeemLock, CancelLock, RedeemLockOrder,
       RedeemReplay, RedeemLockCoupon, CancelLockOrder, CancelLockCoupon,
       RedeemStep, RedeemEnforcePolicy, RedeemSaveCount, RedeemAttachCoupon, At
  <2>2. ContenderOK(w) /\ \E i \in Tasks : req[w] = RedeemTask(i)
    BY <2>1, Serving, Asked
  <2>3. \E i \in Tasks : req[w].order = OrderOf[i]
    BY <2>2, TaskAsks
  <2>4. /\ pc'[w] # "respond"
        /\ pc'[w] = "rollback" =>
             resp'[w].reason = "COUPON_EXHAUSTED" /\ Full
    BY <1>2, Unrefused
  <2> QED
    BY <1>1, <2>1, <2>2, <2>3, <2>4 DEF ContenderOK, Grows
<1>3. CASE Commit(w)
  <2>1. /\ pc[w] = "commit" /\ resp' = resp
        /\ pc'[w] = "respond" /\ resp[w].reason = "OK"
    BY <1>1, <1>3
       DEF Commit, Goto, TypeInv, TypeOK, LoadInv, AnswerInv, AnswerOK, CommitOK
  <2>2. ContenderOK(w) /\ \E i \in Tasks : req[w] = RedeemTask(i)
    BY <2>1, Serving, Asked
  <2>3. \E i \in Tasks : req[w].order = OrderOf[i]
    BY <2>2, TaskAsks
  <2> QED
    BY <1>1, <2>1, <2>2, <2>3 DEF ContenderOK, Grows
<1>4. CASE Rollback(w)
  <2>1. pc[w] = "rollback" /\ pc'[w] = "respond" /\ resp' = resp
    BY <1>1, <1>4 DEF Rollback, Goto, TypeInv, TypeOK
  <2> QED
    BY <1>1, <2>1, ContenderStays
<1>5. ~CancelStep(w) /\ ~QueryReadCoupon(w) /\ ~SeedingStep(w)
  BY DEF CancelStep, CancelSaveCount, CancelMarkCancelled, QueryReadCoupon,
     SeedingStep, InsertUser, InsertCoupon, CheckUser, InsertOrder, At
<1> QED
  BY <1>2, <1>3, <1>4, <1>5 DEF Work, LocalStep, Respond

\* What main asked for has come about when the answer is ready.
LEMMA SeedWorks ==
  ASSUME LoadInv, Grows, NEW w \in Workers, Work(w)
  PROVE  SeedOK(w)'
<1> SUFFICES ASSUME caller[w] = 0, pc'[w] = "respond" PROVE SeedOK(w)'
  BY DEF SeedOK, Work, scriptVars
<1> DEFINE seed == SeedRequest(index)
<1>1. TypeInv /\ HeldInv /\ AnswerInv /\ OnlyCoupon /\ index \in Tasks
  BY DEF LoadInv, AnswerInv, IInv, HeldInv, ScriptTypeOK
<1>2. /\ verdict = None /\ stage \in {"coupon", "user", "order", "detail"}
      /\ req[w] = seed[stage]
  BY <1>1, Seeds DEF LoadInv, ServesOK
<1>3. UNCHANGED <<stage, index>>
  BY DEF Work, scriptVars
<1>4. req[w].op \notin {"redeem", "cancel"}
  BY <1>1, <1>2, Seeds
<1>5. SeedingStep(w) \/ QueryReadCoupon(w)
  <2>1. ~LockStep(w) /\ ~RedeemStep(w) /\ ~CancelStep(w)
    BY <1>4 DEF LockStep, RedeemLock, CancelLock, RedeemLockOrder,
       RedeemReplay, RedeemLockCoupon, CancelLockOrder, CancelLockCoupon,
       RedeemStep, RedeemEnforcePolicy, RedeemSaveCount, RedeemAttachCoupon,
       CancelStep, CancelSaveCount, CancelMarkCancelled, At
  <2>2. ~Commit(w)
    BY <1>1, <1>4, CommitInstalls
  <2>3. ~Rollback(w)
    BY <1>1, <1>4 DEF Rollback, TypeInv, ControlOK, Serves
  <2> QED
    BY <2>1, <2>2, <2>3 DEF Work, LocalStep, Respond
<1>6. CASE stage = "coupon"
  <2>1. req[w].op = "create_coupon" /\ req[w].code = Code
    BY <1>1, <1>2, <1>6, Seeds
  <2>2. InsertCoupon(w)
    BY <1>5, <2>1 DEF SeedingStep, InsertUser, CheckUser, InsertOrder,
       QueryReadCoupon, At
  <2>3. CASE coupons[Code] # None
    BY <1>3, <1>6, <2>3 DEF SeedOK, Grows
  <2>4. CASE coupons[Code] = None
    <3>1. /\ coupons' = [coupons EXCEPT ![Code] = req[w].row]
          /\ req[w].row \in CouponRow
      BY <1>1, <2>1, <2>2, <2>4, RequestFields
         DEF InsertCoupon, At, TypeInv, TypeOK, ControlOK
    <3>2. coupons'[Code] \in CouponRow
      BY <1>1, <3>1, MadeUp DEF TypeInv, TypeOK
    <3>3. coupons'[Code] # None
      BY <3>2, NoneAssumption DEF CouponRow, CouponInstance
    <3> QED
      BY <1>3, <1>6, <3>3 DEF SeedOK
  <2> QED
    BY <2>3, <2>4
<1>7. CASE stage = "user"
  <2>1. req[w].op = "create_user" /\ req[w].customer = CustomerOf[index]
    BY <1>1, <1>2, <1>7, Seeds
  <2>2. InsertUser(w)
    BY <1>5, <2>1 DEF SeedingStep, InsertCoupon, CheckUser, InsertOrder,
       QueryReadCoupon, At
  <2>3. CustomerOf[index] \in users'
    BY <2>1, <2>2 DEF InsertUser
  <2> QED
    BY <1>3, <1>7, <2>3 DEF SeedOK
<1>8. CASE stage = "order"
  <2>1. /\ req[w].op = "create_order" /\ req[w].customer = CustomerOf[index]
        /\ req[w].order = OrderOf[index]
    BY <1>1, <1>2, <1>8, Seeds
  <2>2. CustomerOf[index] \in users
    BY <1>2, <1>8, OutcomeAssumption DEF LoadInv, StageOK
  <2>3. ~CheckUser(w)
    BY <1>1, <2>1, <2>2 DEF CheckUser, Goto, TypeInv, TypeOK
  <2>4. InsertOrder(w)
    BY <1>5, <2>1, <2>3 DEF SeedingStep, InsertUser, InsertCoupon,
       QueryReadCoupon, At
  <2>5. CASE orders[OrderOf[index]] # None
    BY <1>1, <1>3, <1>8, <2>5 DEF SeedOK, Grows
  <2>6. CASE orders[OrderOf[index]] = None
    <3>1. orders' = [orders EXCEPT ![OrderOf[index]] =
                       NewOrder(req[w].customer)]
      BY <2>1, <2>4, <2>6 DEF InsertOrder
    <3>2. req[w] \in Requests
      BY <1>2, <1>8, <1>1, MadeUp, Seeds, Asked
    <3>3. req[w].customer \in Customers
      BY <2>1, <3>2, RequestFields
    <3>4. NewOrder(req[w].customer) \in OrderRow
      BY <3>3 DEF NewOrder, OrderRow, OrderStatus
    <3>5. orders'[OrderOf[index]] = NewOrder(req[w].customer)
      BY <1>1, <3>1, MadeUp DEF TypeInv, TypeOK
    <3> QED
      BY <1>3, <1>8, <3>4, <3>5, NoneAssumption DEF SeedOK
  <2> QED
    BY <2>5, <2>6
<1>9. CASE stage = "detail"
  <2>1. req[w].op = "query" /\ req[w].code = Code
    BY <1>1, <1>2, <1>9, Seeds
  <2>2. QueryReadCoupon(w)
    BY <1>5, <2>1 DEF SeedingStep, InsertUser, InsertCoupon, CheckUser,
       InsertOrder, At
  <2>3. Full
    BY <1>2, <1>9, OutcomeAssumption DEF LoadInv, StageOK
  <2>4. /\ coupons[Code] # None /\ coupons[Code].redeemed_count = Capacity
        /\ coupons[Code].max_redemptions = Capacity
    BY <1>1, <2>3, MadeUp
       DEF Full, OnlyCoupon, AnswerInv, IInv, TablesOK, CountMatchesHolders
  <2>5. remaining(coupons[Code]) = 0
    BY <2>4, MadeUp DEF remaining
  <2>6. resp'[w] = Success(remaining(coupons[Code]), FALSE)
    BY <1>1, <2>1, <2>2, <2>4 DEF QueryReadCoupon, Reply, TypeInv, TypeOK
  <2> QED
    BY <1>3, <1>9, <2>5, <2>6 DEF SeedOK, Success
<1> QED
  BY <1>2, <1>6, <1>7, <1>8, <1>9

-----------------------------------------------------------------------------
(* What the script's threads hear.                                         *)

\* A task that worker w serves has its outcome: the truth, or an exception.
TaskHears(w) ==
  /\ caller[w] \in Tasks
  /\ \E outcome \in {"OK", "COUPON_EXHAUSTED", "LOST"} :
       /\ HearTask(caller[w], outcome)
       /\ outcome \in {"LOST", resp[w].reason}
       /\ outcome = "OK" => Carries(caller[w])
       /\ outcome = "COUPON_EXHAUSTED" => Full

\* main gives up, or goes on with an answer that lets it.
MainRaises(w) ==
  /\ caller[w] = 0
  /\ verdict' = "ERROR"
  /\ UNCHANGED <<stage, index, outcomes>>

MainGoesOn(w) ==
  /\ caller[w] = 0 /\ pc[w] = "respond" /\ SeedOK(w)
  /\ Advance
  /\ verdict' = IF stage = "detail" THEN Judge(resp[w].remaining) ELSE verdict
  /\ stage \in {"user", "detail"} => resp[w].reason = "OK"
  /\ UNCHANGED outcomes

NobodyHears(w) ==
  caller[w] = None /\ UNCHANGED <<stage, index, outcomes, verdict>>

\* The end of a call, however it ends.
Ends(w) == Answered(w) \/ TimesOut(w) \/ Dies(w)

\* A caller loses its worker and hears the truth, if anything.
LEMMA Hears ==
  ASSUME LoadInv, NEW w \in Workers, Ends(w)
  PROVE  /\ caller' = [caller EXCEPT ![w] = None]
         /\ NobodyHears(w) \/ TaskHears(w) \/ MainRaises(w) \/ MainGoesOn(w)
<1>1. caller' = [caller EXCEPT ![w] = None]
  BY DEF Ends, Answered, TimesOut, Dies, Hangup
<1>2. caller[w] \in Tasks \cup {0, None}
  BY DEF LoadInv, ScriptTypeOK
<1>3. CASE caller[w] # None /\ Raises(caller[w])
  BY <1>1, <1>2, <1>3, MadeUp DEF Raises, TaskHears, MainRaises
<1>4. CASE caller[w] = None /\ UNCHANGED <<stage, index, outcomes, verdict>>
  BY <1>1, <1>4 DEF NobodyHears
<1>5. CASE pc[w] = "respond" /\ caller[w] = 0 /\ HearMain(resp[w])
  <2>1. SeedOK(w)
    BY DEF LoadInv
  <2> QED
    BY <1>1, <1>5, <2>1, MadeUp
       DEF HearMain, Raises, MainRaises, MainGoesOn
<1>6. CASE /\ pc[w] = "respond" /\ caller[w] \in Tasks
           /\ HearTask(caller[w], resp[w].reason)
  <2>1. /\ req[w] = RedeemTask(caller[w]) /\ req[w].op = "redeem"
        /\ req[w].code = Code /\ req[w].order = OrderOf[caller[w]]
    BY <1>6, TaskAsks DEF LoadInv, ServesOK
  <2>2. resp[w].reason # "OK" =>
          resp[w].reason = "COUPON_EXHAUSTED" /\ Full
    BY <1>6, <2>1 DEF LoadInv, ContenderOK
  <2>3. resp[w].reason = "OK" => Carries(caller[w])
    BY <1>6, <2>1 DEF LoadInv, AnswerInv, AnswerOK, Done, Carries
  <2> QED
    BY <1>1, <1>6, <2>2, <2>3 DEF TaskHears
<1> QED
  BY <1>1, <1>2, <1>3, <1>4, <1>5, <1>6, MadeUp
     DEF Ends, Answered, TimesOut, Dies, Respond

\* The other workers do not notice.
LEMMA OthersGoOn ==
  ASSUME LoadInv, NEW w \in Workers, Ends(w) \/ Work(w),
         NEW v \in Workers \ {w}
  PROVE  /\ pc'[v] = pc[v] /\ req'[v] = req[v] /\ resp'[v] = resp[v]
         /\ caller'[v] = caller[v]
<1>1. caller' = [caller EXCEPT ![w] = None] \/ caller' = caller
  BY Hears DEF Work, scriptVars
<1>2. UNCHANGED vars \/ WorkerStep(w)
  BY DEF Ends, Answered, TimesOut, Dies, Work, WorkerStep, LocalStep
<1>3. UNCHANGED vars \/ Others(w)
  BY <1>2, StepApart DEF Apart, LoadInv, AnswerInv, IInv
<1> QED
  BY <1>1, <1>3 DEF LoadInv, ScriptTypeOK, Others, vars, client

\* Neither do they notice a call, which a free worker takes up.
LEMMA CallTaken ==
  ASSUME LoadInv, NEW w \in Workers, NEW who \in Tasks \cup {0},
         NEW r \in ScriptRequests, Takes(w, who, r)
  PROVE  /\ pc[w] = "idle" /\ caller'[w] = who /\ req'[w] = r
         /\ pc'[w] \notin {"idle", "rollback", "respond"}
         /\ \A v \in Workers \ {w} :
              /\ pc'[v] = pc[v] /\ req'[v] = req[v] /\ resp'[v] = resp[v]
              /\ caller'[v] = caller[v]
         /\ UNCHANGED <<tables, resp, stage, index, outcomes, verdict>>
<1>1. TypeInv /\ ScriptTypeOK
  BY DEF LoadInv, AnswerInv, IInv, HeldInv
<1>2. FirstStatement[r.op] \notin {"idle", "rollback", "respond"}
  BY Asked, RequestFields DEF FirstStatement
<1>3. /\ pc[w] = "idle"
      /\ pc' = [pc EXCEPT ![w] = FirstStatement[r.op]]
      /\ req' = [req EXCEPT ![w] = r]
      /\ caller' = [caller EXCEPT ![w] = who]
      /\ UNCHANGED <<tables, resp, stage, index, outcomes, verdict>>
  BY DEF Takes, Call, Receive, Goto
<1> QED
  BY <1>1, <1>2, <1>3 DEF TypeInv, TypeOK, ScriptTypeOK

\* What the pool does of itself is seen by no worker.
PoolStep == PoolRaises \/ PoolEnds

LEMMA PoolAlone ==
  ASSUME PoolStep
  PROVE  stage = "redeem" /\ UNCHANGED <<vars, index, caller>>
BY DEF PoolStep, PoolRaises, PoolEnds

\* The cases of a step, told by what the script's threads hear.
LEMMA LoadKinds ==
  ASSUME LoadInv, [LoadNext]_loadVars
  PROVE  \/ \E w \in Workers, who \in Tasks \cup {0}, r \in ScriptRequests :
              Takes(w, who, r)
         \/ \E w \in Workers : Ends(w) \/ Work(w)
         \/ PoolStep
         \/ UNCHANGED loadVars
<1>1. ScriptTypeOK
  BY DEF LoadInv
<1>2. ASSUME NEW w \in Workers, MainCall(w) \/ \E i \in Tasks : TaskCall(w, i)
      PROVE  \E who \in Tasks \cup {0}, r \in ScriptRequests :
               Takes(w, who, r)
  BY <1>1, <1>2, Calls
<1> QED
  BY <1>2, ScriptKinds DEF Ends, PoolStep

\* A statement is executed by a worker that serves a request.
LEMMA Working ==
  ASSUME NEW w \in Workers, Work(w)
  PROVE  pc[w] # "idle"
<1>1. CASE LockStep(w)
  BY <1>1 DEF LockStep, RedeemLock, CancelLock, RedeemLockOrder, RedeemReplay,
     RedeemLockCoupon, CancelLockOrder, CancelLockCoupon, At
<1>2. CASE RedeemStep(w) \/ CancelStep(w)
  BY <1>2 DEF RedeemStep, RedeemEnforcePolicy, RedeemSaveCount,
     RedeemAttachCoupon, CancelStep, CancelSaveCount, CancelMarkCancelled, At
<1>3. CASE SeedingStep(w) \/ QueryReadCoupon(w)
  BY <1>3 DEF SeedingStep, InsertUser, InsertCoupon, CheckUser, InsertOrder,
     QueryReadCoupon, At
<1> QED
  BY <1>1, <1>2, <1>3 DEF Work, LocalStep, Commit, Rollback, Respond

\* main goes on from stage to stage, and ends with PASS.
LEMMA MainStages ==
  ASSUME LoadInv, NEW w \in Workers, MainGoesOn(w)
  PROVE  /\ verdict = None /\ index \in Tasks
         /\ stage # "detail" => verdict' = None
         /\ stage # "order" => index' = index
         /\ \/ stage = "coupon" /\ stage' = "user" /\ coupons[Code] # None
            \/ /\ stage = "user" /\ stage' = "order"
               /\ CustomerOf[index] \in users
            \/ /\ stage = "order" /\ orders[OrderOf[index]] # None
               /\ \/ /\ stage' = "user"
                     /\ index' = index + 1 /\ index' \in Tasks
                  \/ stage' = "redeem" /\ index' = index /\ index = Contenders
            \/ stage = "detail" /\ stage' = "done" /\ verdict' = "PASS"
<1>1. /\ verdict = None /\ index \in Tasks
      /\ stage \in {"coupon", "user", "order", "detail"}
  BY Seeds DEF MainGoesOn, LoadInv, ServesOK, ScriptTypeOK
<1>2. CASE stage = "coupon"
  BY <1>1, <1>2 DEF MainGoesOn, SeedOK, Advance
<1>3. CASE stage = "user"
  BY <1>1, <1>3 DEF MainGoesOn, SeedOK, Advance
<1>4. CASE stage = "order"
  <2>1. orders[OrderOf[index]] # None /\ verdict' = None
    BY <1>1, <1>4 DEF MainGoesOn, SeedOK
  <2>2. IF index < Contenders THEN stage' = "user" /\ index' = index + 1
                              ELSE stage' = "redeem" /\ index' = index
    BY <1>4 DEF MainGoesOn, Advance
  <2>3. IF index < Contenders THEN index + 1 \in Tasks ELSE index = Contenders
    BY <1>1, MadeUp DEF Tasks
  <2> QED
    BY <1>1, <1>4, <2>1, <2>2, <2>3
<1>5. CASE stage = "detail"
  <2>1. resp[w].remaining = 0
    BY <1>5 DEF MainGoesOn, SeedOK
  <2>2. Cardinality({i \in Tasks : outcomes[i] = "OK"}) = Capacity
    BY <1>1, <1>5, OutcomeAssumption DEF LoadInv, StageOK
  <2>3. Judge(resp[w].remaining) = "PASS"
    BY <2>1, <2>2, MadeUp DEF Judge
  <2>4. stage' = "done" /\ index' = index
    BY <1>5 DEF MainGoesOn, Advance
  <2> QED
    BY <1>1, <1>5, <2>3, <2>4 DEF MainGoesOn
<1> QED
  BY <1>1, <1>2, <1>3, <1>4, <1>5

\* main gives up, or goes on, before its tasks or after them.
LEMMA MainApart ==
  ASSUME LoadInv, NEW w \in Workers, caller[w] = 0
  PROVE  stage # "redeem" /\ \A v \in Workers : caller[v] \notin Tasks
BY Seeds DEF LoadInv, ServesOK, ScriptTypeOK

-----------------------------------------------------------------------------
(* LoadInv is inductive.                                                   *)

\* Every variable of the script goes on holding a value of its kind.
LEMMA LoadTypes ==
  ASSUME LoadInv, [LoadNext]_loadVars
  PROVE  ScriptTypeOK'
<1>1. ScriptTypeOK
  BY DEF LoadInv
<1>2. CASE UNCHANGED scriptVars
  BY <1>1, <1>2 DEF ScriptTypeOK, scriptVars
<1>3. ASSUME NEW w \in Workers, NEW who \in Tasks \cup {0},
             NEW r \in ScriptRequests, Takes(w, who, r)
      PROVE  ScriptTypeOK'
  BY <1>1, <1>3 DEF Takes, Call, ScriptTypeOK
<1>4. ASSUME NEW w \in Workers, Ends(w) PROVE ScriptTypeOK'
  <2>1. caller' \in [Workers -> Tasks \cup {0, None}]
    BY <1>1, <1>4, Hears DEF ScriptTypeOK
  <2>2. CASE NobodyHears(w) \/ MainRaises(w)
    BY <1>1, <2>1, <2>2 DEF ScriptTypeOK, NobodyHears, MainRaises
  <2>3. CASE TaskHears(w)
    BY <1>1, <2>1, <2>3 DEF ScriptTypeOK, TaskHears, HearTask
  <2>4. CASE MainGoesOn(w)
    <3>1. outcomes' = outcomes
      BY <2>4 DEF MainGoesOn
    <3> QED
      BY <1>1, <2>1, <2>4, <3>1, MainStages DEF ScriptTypeOK
  <2> QED
    BY <1>4, <2>2, <2>3, <2>4, Hears
<1>5. CASE PoolStep
  BY <1>1, <1>5 DEF ScriptTypeOK, PoolStep, PoolRaises, PoolEnds
<1> QED
  BY <1>2, <1>3, <1>4, <1>5, LoadKinds DEF Work, loadVars, scriptVars

\* Nobody waits for two workers.
LEMMA LoadOneCall ==
  ASSUME LoadInv, [LoadNext]_loadVars
  PROVE  OneCall'
<1>1. OneCall /\ caller \in [Workers -> Tasks \cup {0, None}]
  BY DEF LoadInv, ScriptTypeOK
<1>2. CASE caller' = caller
  BY <1>1, <1>2 DEF OneCall
<1>3. ASSUME NEW w \in Workers, NEW who \in Tasks \cup {0},
             NEW r \in ScriptRequests, Takes(w, who, r)
      PROVE  OneCall'
  BY <1>1, <1>3 DEF Takes, Call, Waiting, OneCall
<1>4. ASSUME NEW w \in Workers, Ends(w) PROVE OneCall'
  <2>1. caller' = [caller EXCEPT ![w] = None]
    BY <1>4, Hears
  <2> QED
    BY <1>1, <2>1 DEF OneCall
<1> QED
  BY <1>2, <1>3, <1>4, LoadKinds, PoolAlone DEF Work, loadVars, scriptVars

\* What a task has returned stays.
LEMMA OutcomesKept ==
  ASSUME LoadInv, [LoadNext]_loadVars, NEW i \in Tasks, outcomes[i] # None
  PROVE  outcomes'[i] = outcomes[i]
<1>1. outcomes \in [Tasks -> {None, "OK", "COUPON_EXHAUSTED", "LOST",
                              "CANCELLED"}]
  BY DEF LoadInv, ScriptTypeOK
<1>2. ASSUME NEW w \in Workers, Ends(w) PROVE outcomes'[i] = outcomes[i]
  <2>1. CASE TaskHears(w)
    <3>1. outcomes[caller[w]] = None
      BY <2>1 DEF TaskHears, LoadInv, ServesOK
    <3> QED
      BY <1>1, <2>1, <3>1 DEF TaskHears, HearTask
  <2> QED
    BY <1>2, <2>1, Hears DEF NobodyHears, MainRaises, MainGoesOn
<1>3. CASE PoolStep
  BY <1>1, <1>3 DEF PoolStep, PoolRaises, PoolEnds, Finished
<1> QED
  BY <1>2, <1>3, LoadKinds DEF Takes, Call, Work, loadVars, scriptVars

\* A worker serves the call that main or the task still waits for, or one
\* that was lost.
LEMMA LoadServes ==
  ASSUME LoadInv, [LoadNext]_loadVars, NEW v \in Workers
  PROVE  ServesOK(v)'
<1>1. TypeInv /\ ScriptTypeOK /\ OneCall /\ ServesOK(v)
  BY DEF LoadInv, AnswerInv, IInv, HeldInv
<1>2. \A i \in Tasks : outcomes[i] = "LOST" => outcomes'[i] = "LOST"
  BY OutcomesKept, OutcomeAssumption
<1>3. CASE UNCHANGED loadVars
  BY <1>1, <1>3 DEF loadVars, vars, client, scriptVars, ServesOK
<1>4. ASSUME NEW w \in Workers, NEW who \in Tasks \cup {0},
             NEW r \in ScriptRequests, Takes(w, who, r)
      PROVE  ServesOK(v)'
  <2>1. CASE v # w
    BY <1>1, <1>4, <2>1, CallTaken DEF ServesOK
  <2>2. CASE v = w
    <3>1. CASE who = 0
      <4>1. r.op # "redeem"
        BY <1>1, <1>4, <3>1, Seeds DEF Takes, ScriptTypeOK
      <4> QED
        BY <1>4, <2>2, <3>1, <4>1, CallTaken, MadeUp DEF Takes, ServesOK
    <3>2. CASE who \in Tasks
      BY <1>4, <2>2, <3>2, CallTaken, MadeUp DEF Takes, ServesOK
    <3> QED
      BY <3>1, <3>2
  <2> QED
    BY <2>1, <2>2
<1>5. ASSUME NEW w \in Workers, Ends(w), v # w PROVE ServesOK(v)'
  <2>1. /\ pc'[v] = pc[v] /\ req'[v] = req[v] /\ caller'[v] = caller[v]
        /\ NobodyHears(w) \/ TaskHears(w) \/ MainRaises(w) \/ MainGoesOn(w)
    BY <1>5, OthersGoOn, Hears
  <2>2. CASE NobodyHears(w)
    BY <1>1, <2>1, <2>2 DEF NobodyHears, ServesOK
  <2>3. CASE TaskHears(w)
    <3>1. /\ UNCHANGED <<stage, index, verdict>>
          /\ \A i \in Tasks : i # caller[w] => outcomes'[i] = outcomes[i]
      BY <1>1, <2>3 DEF TaskHears, HearTask, ScriptTypeOK
    <3>2. caller[v] \in Tasks => caller[v] # caller[w]
      BY <1>1, <1>5, MadeUp DEF OneCall
    <3> QED
      BY <1>1, <1>2, <2>1, <3>1, <3>2 DEF ServesOK
  <2>4. CASE MainRaises(w) \/ MainGoesOn(w)
    <3>1. caller[w] = 0 /\ outcomes' = outcomes
      BY <2>4 DEF MainRaises, MainGoesOn
    <3>2. caller[v] \notin Tasks \cup {0}
      BY <1>1, <1>5, <3>1, MadeUp, MainApart DEF OneCall
    <3> QED
      BY <1>1, <2>1, <3>1, <3>2 DEF ServesOK
  <2> QED
    BY <2>1, <2>2, <2>3, <2>4
<1>6. ASSUME NEW w \in Workers, Ends(w), v = w PROVE ServesOK(v)'
  <2>1. caller'[w] = None
    BY <1>1, <1>6, Hears DEF ScriptTypeOK
  <2>2. CASE Answered(w) \/ Dies(w)
    <3>1. pc'[w] = "idle"
      BY <1>1, <2>2
         DEF Answered, Respond, Dies, Crash, Clear, Goto, TypeInv, TypeOK
    <3> QED
      BY <1>6, <2>1, <3>1, MadeUp DEF ServesOK
  <2>3. CASE TimesOut(w)
    <3>1. pc' = pc /\ req' = req /\ Raises(caller[w])
      BY <2>3 DEF TimesOut, vars, client
    <3>2. ASSUME NEW i \in Tasks, caller[w] = i PROVE outcomes'[i] = "LOST"
      BY <1>1, <3>1, <3>2 DEF Raises, HearTask, ScriptTypeOK
    <3> QED
      BY <1>1, <1>2, <1>6, <2>1, <3>1, <3>2, MadeUp DEF ServesOK
  <2> QED
    BY <1>6, <2>2, <2>3 DEF Ends
<1>7. ASSUME NEW w \in Workers, Work(w) PROVE ServesOK(v)'
  <2>1. CASE v # w
    BY <1>1, <1>7, <2>1, OthersGoOn DEF Work, scriptVars, ServesOK
  <2>2. CASE v = w
    <3>1. pc[w] # "idle" /\ pc'[w] # "idle" /\ req' = req
      BY <1>1, <1>7, Working, StatementStays DEF Work
    <3> QED
      BY <1>1, <1>7, <2>2, <3>1 DEF Work, scriptVars, ServesOK
  <2> QED
    BY <2>1, <2>2
<1>8. CASE PoolStep
  <2>1. /\ stage = "redeem" /\ pc' = pc /\ req' = req /\ caller' = caller
    BY <1>8, PoolAlone DEF vars, client
  <2>2. caller[v] # 0
    BY <2>1, MainApart
  <2>3. caller[v] \in Tasks =>
          stage' = "redeem" /\ outcomes'[caller[v]] = None
    BY <1>1, <1>8, <2>1
       DEF PoolStep, PoolRaises, PoolEnds, Finished, Waiting, ServesOK
  <2> QED
    BY <1>1, <1>2, <2>1, <2>2, <2>3 DEF ServesOK
<1> QED
  BY <1>3, <1>4, <1>5, <1>6, <1>7, <1>8, LoadKinds

\* A contender is refused only when all slots are gone.
LEMMA LoadContenders ==
  ASSUME LoadInv, [LoadNext]_loadVars, NEW v \in Workers
  PROVE  ContenderOK(v)'
<1>1. TypeInv /\ Grows /\ AnswerInv'
  BY LoadGrows, ServiceGoesOn DEF LoadInv, AnswerInv, IInv, HeldInv
<1>2. CASE UNCHANGED vars
  BY <1>1, <1>2, ContenderStays DEF vars, client
<1>3. ASSUME NEW w \in Workers, Ends(w) \/ Work(w), v # w
      PROVE  ContenderOK(v)'
  BY <1>1, <1>3, OthersGoOn, ContenderStays
<1>4. ASSUME NEW w \in Workers, Work(w), v = w PROVE ContenderOK(v)'
  BY <1>1, <1>4, ContenderWorks
<1>5. ASSUME NEW w \in Workers, Ends(w), v = w PROVE ContenderOK(v)'
  <2>1. UNCHANGED vars \/ pc'[w] = "idle"
    BY <1>1, <1>5
       DEF Ends, Answered, TimesOut, Dies, Respond, Crash, Clear, Goto, TypeInv,
           TypeOK
  <2> QED
    BY <1>2, <1>5, <2>1 DEF ContenderOK
<1>6. ASSUME NEW w \in Workers, NEW who \in Tasks \cup {0},
             NEW r \in ScriptRequests, Takes(w, who, r)
      PROVE  ContenderOK(v)'
  <2>1. CASE v # w
    BY <1>1, <1>6, <2>1, CallTaken, ContenderStays
  <2>2. CASE v = w
    <3>1. CASE who = 0
      <4>1. r.op # "redeem"
        BY <1>6, <3>1, Seeds DEF Takes, LoadInv, ScriptTypeOK
      <4> QED
        BY <1>6, <2>2, <4>1, CallTaken DEF ContenderOK
    <3>2. CASE who \in Tasks
      <4>1. /\ stage = "redeem" /\ verdict = None
            /\ r.order = OrderOf[who]
        BY <1>6, <3>2, TaskAsks DEF Takes, LoadInv, VerdictOK
      <4>2. coupons[Code] # None /\ orders[OrderOf[who]] # None
        BY <3>2, <4>1, OutcomeAssumption DEF LoadInv, StageOK
      <4> QED
        BY <1>6, <2>2, <4>1, <4>2, CallTaken DEF ContenderOK, tables
    <3> QED
      BY <3>1, <3>2
  <2> QED
    BY <2>1, <2>2
<1> QED
  BY <1>2, <1>3, <1>4, <1>5, <1>6, LoadKinds, PoolAlone DEF loadVars

\* What main is about to hear is so.
LEMMA LoadSeeds ==
  ASSUME LoadInv, [LoadNext]_loadVars, NEW v \in Workers
  PROVE  SeedOK(v)'
<1>1. ScriptTypeOK /\ OneCall /\ ServesOK(v) /\ SeedOK(v) /\ Grows
  BY LoadGrows DEF LoadInv
<1>2. ASSUME caller'[v] = caller[v], pc'[v] = pc[v], resp'[v] = resp[v],
             caller[v] = 0 => UNCHANGED <<stage, index>>
      PROVE  SeedOK(v)'
  BY <1>1, <1>2 DEF SeedOK, Grows, ScriptTypeOK
<1>3. CASE UNCHANGED loadVars
  BY <1>2, <1>3 DEF loadVars, vars, scriptVars
<1>4. ASSUME NEW w \in Workers, NEW who \in Tasks \cup {0},
             NEW r \in ScriptRequests, Takes(w, who, r)
      PROVE  SeedOK(v)'
  <2>1. CASE v # w
    BY <1>2, <1>4, <2>1, CallTaken
  <2>2. CASE v = w
    BY <1>4, <2>2, CallTaken DEF SeedOK
  <2> QED
    BY <2>1, <2>2
<1>5. ASSUME NEW w \in Workers, Ends(w), v # w PROVE SeedOK(v)'
  <2>1. caller[v] = 0 => UNCHANGED <<stage, index>>
    <3>1. caller[v] = 0 => caller[w] # 0
      BY <1>1, <1>5, MadeUp DEF OneCall
    <3> QED
      BY <1>5, <3>1, Hears
         DEF NobodyHears, TaskHears, HearTask, MainRaises, MainGoesOn
  <2> QED
    BY <1>2, <1>5, <2>1, OthersGoOn
<1>6. ASSUME NEW w \in Workers, Ends(w), v = w PROVE SeedOK(v)'
  <2>1. caller'[w] = None
    BY <1>1, <1>6, Hears DEF ScriptTypeOK
  <2> QED
    BY <1>6, <2>1, MadeUp DEF SeedOK
<1>7. ASSUME NEW w \in Workers, Work(w) PROVE SeedOK(v)'
  <2>1. CASE v # w
    BY <1>2, <1>7, <2>1, OthersGoOn DEF Work, scriptVars
  <2>2. CASE v = w
    BY <1>1, <1>7, <2>2, SeedWorks
  <2> QED
    BY <2>1, <2>2
<1>8. CASE PoolStep
  <2>1. stage = "redeem" /\ pc' = pc /\ resp' = resp /\ caller' = caller
    BY <1>8, PoolAlone DEF vars
  <2>2. caller[v] # 0
    BY <2>1, MainApart
  <2> QED
    BY <1>2, <2>1, <2>2
<1> QED
  BY <1>3, <1>4, <1>5, <1>6, <1>7, <1>8, LoadKinds

\* An order takes the coupon only by the COMMIT of its own contender's
\* redemption, which then answers OK.
LEMMA Attaching ==
  ASSUME LoadInv, [LoadNext]_loadVars, NEW i \in Tasks,
         ~Carries(i), Carries(i)'
  PROVE  \E w \in Workers :
           /\ Work(w) /\ req[w] = RedeemTask(i) /\ pc[w] # "idle"
           /\ pc'[w] = "respond" /\ resp'[w].reason = "OK"
<1>1. HeldInv /\ TypeInv
  BY DEF LoadInv, AnswerInv, IInv, HeldInv
<1>2. ASSUME UNCHANGED tables PROVE FALSE
  BY <1>2 DEF tables, Carries
<1>3. PICK w \in Workers : Work(w)
  <2>1. ASSUME NEW w \in Workers, Ends(w) PROVE UNCHANGED tables
    BY <2>1 DEF Ends, Answered, Respond, TimesOut, Dies, Crash, vars
  <2>2. ASSUME NEW w \in Workers, NEW who \in Tasks \cup {0},
               NEW r \in ScriptRequests, Takes(w, who, r)
        PROVE  UNCHANGED tables
    BY <2>2, CallTaken
  <2>3. CASE PoolStep \/ UNCHANGED loadVars
    BY <1>2, <2>3, PoolAlone DEF loadVars, vars
  <2> QED
    BY <1>2, <2>1, <2>2, <2>3, LoadKinds
<1>4. Writes(w)
  BY <1>1, <1>3, StepWrites DEF Work, WorkerStep
<1>5. CASE UserAdded(w) \/ CouponAdded(w)
  BY <1>5 DEF UserAdded, CouponAdded, Carries
<1>6. CASE OrderAdded(w)
  <2>1. orders' = [orders EXCEPT ![req[w].order] = NewOrder(req[w].customer)]
    BY <1>6 DEF OrderAdded
  <2>2. NewOrder(req[w].customer).coupon = None
    BY DEF NewOrder
  <2>3. \/ orders'[OrderOf[i]] = orders[OrderOf[i]]
        \/ orders'[OrderOf[i]] = NewOrder(req[w].customer)
    BY <1>1, <2>1, MadeUp DEF TypeInv, TypeOK
  <2> QED
    BY <2>2, <2>3, MadeUp DEF Carries
<1>7. CASE Written(w)
  <2>1. /\ Commit(w) /\ pc[w] = "commit" /\ req[w].op # "cancel"
    BY <1>7, Serving, Asked DEF Written, Commit
  <2>2. Redeems(w) /\ req[w].op = "redeem"
    BY <1>7, <2>1 DEF Written
  <2>3. req[w].order = OrderOf[i]
    BY <2>2, MadeUp DEF Redeems, Carries
  <2>4. req[w] = RedeemTask(i)
    BY <2>1, <2>2, <2>3, Serving, Asked, TaskAsks
  <2>5. pc'[w] = "respond" /\ resp' = resp /\ resp[w].reason = "OK"
    BY <1>1, <2>1
       DEF Commit, Goto, TypeInv, TypeOK, LoadInv, AnswerInv, AnswerOK, CommitOK
  <2> QED
    BY <1>3, <2>1, <2>4, <2>5
<1> QED
  BY <1>2, <1>4, <1>5, <1>6, <1>7 DEF Writes

\* A task that returns has heard the truth, had an exception, or been
\* cancelled because of another's.
LEMMA Returns ==
  ASSUME LoadInv, [LoadNext]_loadVars, NEW i \in Tasks,
         outcomes[i] = None, outcomes'[i] # None
  PROVE  \/ \E w \in Workers :
              /\ Ends(w) /\ caller[w] = i
              /\ outcomes'[i] \in {"LOST", resp[w].reason}
              /\ outcomes'[i] \in {"OK", "COUPON_EXHAUSTED", "LOST"}
              /\ outcomes'[i] = "OK" => Carries(i)
              /\ outcomes'[i] = "COUPON_EXHAUSTED" => Full
         \/ /\ outcomes'[i] = "CANCELLED" /\ ~Waiting(i)
            /\ \E j \in Tasks : outcomes[j] = "LOST"
<1>1. ScriptTypeOK
  BY DEF LoadInv
<1>2. ASSUME NEW w \in Workers, Ends(w)
      PROVE  /\ caller[w] = i
             /\ outcomes'[i] \in {"LOST", resp[w].reason}
             /\ outcomes'[i] \in {"OK", "COUPON_EXHAUSTED", "LOST"}
             /\ outcomes'[i] = "OK" => Carries(i)
             /\ outcomes'[i] = "COUPON_EXHAUSTED" => Full
  <2>1. TaskHears(w)
    BY <1>2, Hears DEF NobodyHears, MainRaises, MainGoesOn
  <2> QED
    BY <1>1, <2>1 DEF TaskHears, HearTask, ScriptTypeOK
<1>3. CASE PoolStep
  <2>1. PoolRaises
    BY <1>3 DEF PoolStep, PoolEnds
  <2> QED
    BY <1>1, <2>1 DEF PoolRaises, ScriptTypeOK
<1> QED
  BY <1>2, <1>3, LoadKinds DEF Takes, Call, Work, loadVars, scriptVars

\* A contender that has the coupon has heard so, or is about to.
LEMMA LoadCarriers ==
  ASSUME LoadInv, [LoadNext]_loadVars, NEW i \in Tasks, Carries(i)'
  PROVE  \/ outcomes'[i] \in {"OK", "LOST"}
         \/ \E w \in Workers :
              caller'[w] = i /\ pc'[w] = "respond" /\ resp'[w].reason = "OK"
<1>1. ScriptTypeOK /\ OneCall /\ OutcomeOK(i)
  BY DEF LoadInv
<1>2. CASE outcomes[i] \in {"OK", "LOST"}
  BY <1>2, OutcomesKept, OutcomeAssumption DEF Reason
<1>3. ASSUME ~Carries(i), outcomes[i] \notin {"OK", "LOST"}
      PROVE  \E w \in Workers :
               caller'[w] = i /\ pc'[w] = "respond" /\ resp'[w].reason = "OK"
  <2>1. PICK w \in Workers :
          /\ Work(w) /\ req[w] = RedeemTask(i) /\ pc[w] # "idle"
          /\ pc'[w] = "respond" /\ resp'[w].reason = "OK"
    BY <1>3, Attaching
  <2>2. PICK j \in Tasks : /\ req[w] = RedeemTask(j)
                           /\ caller[w] = j \/ outcomes[j] = "LOST"
    BY <2>1, TaskAsks, Serving DEF ServesOK
  <2>3. OrderOf[j] = OrderOf[i]
    <3>1. RedeemTask(i) = RedeemTask(j)
      BY <2>1, <2>2
    <3>2. RedeemTask(i).order = OrderOf[i] /\ RedeemTask(j).order = OrderOf[j]
      BY TaskAsks
    <3> QED
      BY <3>1, <3>2
  <2>4. j = i
    BY <2>3, LoadTestAssumption
  <2> QED
    BY <1>3, <2>1, <2>2, <2>4 DEF Work, scriptVars
<1>4. ASSUME NEW v \in Workers,
             caller[v] = i, pc[v] = "respond", resp[v].reason = "OK"
      PROVE  \/ outcomes'[i] \in {"OK", "LOST"}
             \/ caller'[v] = i /\ pc'[v] = "respond" /\ resp'[v].reason = "OK"
  <2>1. CASE UNCHANGED loadVars \/ PoolStep
    BY <1>4, <2>1, PoolAlone DEF loadVars, vars, scriptVars
  <2>2. ASSUME NEW w \in Workers, NEW who \in Tasks \cup {0},
               NEW r \in ScriptRequests, Takes(w, who, r)
        PROVE  caller'[v] = i /\ pc'[v] = "respond" /\ resp'[v].reason = "OK"
    BY <1>4, <2>2, CallTaken
  <2>3. ASSUME NEW w \in Workers, Ends(w) \/ Work(w), v # w
        PROVE  caller'[v] = i /\ pc'[v] = "respond" /\ resp'[v].reason = "OK"
    BY <1>4, <2>3, OthersGoOn
  <2>4. ASSUME Ends(v) PROVE outcomes'[i] \in {"OK", "LOST"}
    <3>1. TaskHears(v)
      BY <1>4, <2>4, MadeUp, Hears DEF NobodyHears, MainRaises, MainGoesOn
    <3> QED
      BY <1>1, <1>4, <3>1 DEF TaskHears, HearTask, ScriptTypeOK
  <2>5. ASSUME Work(v)
        PROVE  caller'[v] = i /\ pc'[v] = "respond" /\ resp'[v].reason = "OK"
    <3>1. FALSE
      BY <1>4, <2>5
         DEF Work, LockStep, RedeemLock, CancelLock, RedeemLockOrder,
             RedeemReplay, RedeemLockCoupon, CancelLockOrder, CancelLockCoupon,
             At
    <3> QED
      BY <3>1
  <2> QED
    BY <2>1, <2>2, <2>3, <2>4, <2>5, LoadKinds
<1> QED
  BY <1>1, <1>2, <1>3, <1>4 DEF OutcomeOK

\* What the tasks have returned is true.
LEMMA LoadOutcomes ==
  ASSUME LoadInv, [LoadNext]_loadVars, NEW i \in Tasks
  PROVE  OutcomeOK(i)'
<1>1. OutcomeOK(i) /\ Grows
  BY LoadGrows DEF LoadInv
<1>2. \A j \in Tasks : outcomes[j] = "LOST" => outcomes'[j] = "LOST"
  BY OutcomesKept, OutcomeAssumption
<1>3. CASE outcomes[i] # None
  <2>1. outcomes'[i] = outcomes[i]
    BY <1>3, OutcomesKept
  <2>2. /\ outcomes'[i] = "OK" => Carries(i)'
        /\ outcomes'[i] = "COUPON_EXHAUSTED" => Full'
        /\ outcomes'[i] = "CANCELLED" => \E j \in Tasks : outcomes'[j] = "LOST"
    BY <1>1, <1>2, <2>1 DEF OutcomeOK, Grows
  <2> QED
    BY <2>2, LoadCarriers DEF OutcomeOK
<1>4. CASE outcomes[i] = None /\ outcomes'[i] # None
  <2>1. /\ outcomes'[i] = "OK" => Carries(i)'
        /\ outcomes'[i] = "COUPON_EXHAUSTED" => Full'
        /\ outcomes'[i] = "CANCELLED" => \E j \in Tasks : outcomes'[j] = "LOST"
    BY <1>1, <1>2, <1>4, Returns DEF Grows
  <2> QED
    BY <2>1, LoadCarriers DEF OutcomeOK
<1>5. CASE outcomes'[i] = None
  BY <1>5, LoadCarriers, OutcomeAssumption DEF OutcomeOK, Reason
<1> QED
  BY <1>3, <1>4, <1>5

\* When the pool is done, and no task had an exception, all slots are gone and
\* as many tasks have heard so: those that heard OK are those that carry the
\* coupon, and if no task was refused there are no fewer of them than slots.
LEMMA PoolDone ==
  ASSUME LoadInv, stage = "redeem", Finished = Tasks,
         \A i \in Tasks : outcomes[i] # "LOST"
  PROVE  Full /\ Cardinality({i \in Tasks : outcomes[i] = "OK"}) = Capacity
<1> DEFINE winners == {i \in Tasks : outcomes[i] = "OK"}
<1>1. /\ AnswerInv /\ OnlyCoupon /\ OnlyOrders /\ ScriptTypeOK
      /\ \A i \in Tasks : OutcomeOK(i)
  BY DEF LoadInv
<1>2. ASSUME NEW i \in Tasks
      PROVE  /\ outcomes[i] \in {"OK", "COUPON_EXHAUSTED"}
             /\ outcomes[i] = "OK" <=> Carries(i)
             /\ outcomes[i] = "COUPON_EXHAUSTED" => Full
  <2>1. outcomes[i] # None
    BY DEF Finished
  <2>2. outcomes[i] \in {"OK", "COUPON_EXHAUSTED"}
    BY <1>1, <2>1 DEF ScriptTypeOK, OutcomeOK
  <2>3. ASSUME Carries(i) PROVE outcomes[i] = "OK"
    <3>1. \A w \in Workers : caller[w] # i
      BY <2>1 DEF LoadInv, ServesOK
    <3> QED
      BY <1>1, <2>3, <3>1 DEF OutcomeOK
  <2> QED
    BY <1>1, <2>2, <2>3 DEF OutcomeOK
<1>3. coupons[Code] # None
  <2>1. verdict = None
    BY DEF LoadInv, VerdictOK
  <2> QED
    BY <2>1, OutcomeAssumption DEF LoadInv, StageOK
<1>4. Holders(Code) = {OrderOf[i] : i \in winners}
  BY <1>1, <1>2, HoldersAre
<1>5. IsFiniteSet(winners) /\ Cardinality(winners) = Cardinality(Holders(Code))
  <2>1. IsFiniteSet(Tasks)
    BY MadeUp, FS_Interval DEF Tasks
  <2>2. IsFiniteSet(winners)
    BY <2>1, FS_Subset
  <2> DEFINE held == [i \in winners |-> OrderOf[i]]
  <2>3. /\ held \in [winners -> Holders(Code)]
        /\ \A o \in Holders(Code) : \E i \in winners : held[i] = o
    BY <1>4
  <2>4. \A i, j \in winners : held[i] = held[j] => i = j
    BY LoadTestAssumption
  <2> HIDE DEF held, winners
  <2>5. held \in Bijection(winners, Holders(Code))
    BY <2>3, <2>4 DEF Bijection, Injection, Surjection, IsInjective
  <2>6. ExistsBijection(winners, Holders(Code))
    BY <2>5 DEF ExistsBijection
  <2> QED
    BY <2>2, <2>6, FS_Bijection
<1>6. Full
  <2>1. CASE \E i \in Tasks : outcomes[i] = "COUPON_EXHAUSTED"
    BY <1>2, <2>1
  <2>2. CASE \A i \in Tasks : outcomes[i] # "COUPON_EXHAUSTED"
    <3>1. winners = Tasks
      BY <1>2, <2>2
    <3>2. Cardinality(Tasks) = Contenders
      BY MadeUp, FS_Interval DEF Tasks
    <3>3. Cardinality(Holders(Code)) = Contenders
      BY <1>5, <3>1, <3>2
    <3> QED
      BY <1>1, <1>3, <3>3, HoldersWithin, LoadTestAssumption DEF Full
  <2> QED
    BY <2>1, <2>2
<1> QED
  BY <1>5, <1>6 DEF Full

\* Once main has given up it does no more.
LEMMA StillTrying ==
  ASSUME LoadInv, [LoadNext]_loadVars, verdict' # "ERROR"
  PROVE  verdict # "ERROR"
<1>1. ASSUME NEW w \in Workers, Ends(w), verdict = "ERROR" PROVE FALSE
  <2>1. NobodyHears(w) \/ TaskHears(w) \/ MainGoesOn(w)
    BY <1>1, Hears DEF MainRaises
  <2>2. ~MainGoesOn(w)
    BY <1>1, MainStages, OutcomeAssumption
  <2> QED
    BY <1>1, <2>1, <2>2 DEF NobodyHears, TaskHears, HearTask
<1>2. ASSUME PoolStep, verdict = "ERROR" PROVE FALSE
  BY <1>2, PoolAlone, OutcomeAssumption DEF LoadInv, VerdictOK
<1> QED
  BY <1>1, <1>2, LoadKinds DEF Takes, Call, Work, loadVars, scriptVars

\* At each stage main can rely on what the stages before have made.
LEMMA LoadStages ==
  ASSUME LoadInv, [LoadNext]_loadVars
  PROVE  StageOK'
<1> DEFINE winners == {i \in Tasks : outcomes[i] = "OK"}
<1> SUFFICES ASSUME verdict' # "ERROR" PROVE StageOK'
  BY DEF StageOK
<1>1. /\ ScriptTypeOK /\ Grows
      /\ stage # "coupon" => coupons[Code] # None
      /\ \A i \in Tasks : i < index \/ stage \notin {"coupon", "user", "order"}
           => orders[OrderOf[i]] # None
      /\ stage = "order" => CustomerOf[index] \in users
      /\ stage \in {"detail", "done"} => Full /\ Cardinality(winners) = Capacity
  BY LoadGrows, StillTrying DEF LoadInv, StageOK
<1>2. CASE /\ UNCHANGED <<stage, index>>
           /\ stage \in {"detail", "done"} => outcomes' = outcomes
  <2>1. stage \in {"detail", "done"} =>
          Full' /\ Cardinality(winners)' = Capacity
    BY <1>1, <1>2 DEF Grows
  <2>2. /\ stage' # "coupon" => coupons'[Code] # None
        /\ \A i \in Tasks :
             i < index' \/ stage' \notin {"coupon", "user", "order"}
               => orders'[OrderOf[i]] # None
        /\ stage' = "order" => CustomerOf[index'] \in users'
    BY <1>1, <1>2 DEF Grows
  <2> QED
    BY <1>2, <2>1, <2>2 DEF StageOK
<1>3. ASSUME NEW w \in Workers, Ends(w) PROVE StageOK'
  <2>1. CASE NobodyHears(w)
    BY <1>2, <2>1 DEF NobodyHears
  <2>2. CASE TaskHears(w)
    <3>1. stage = "redeem" /\ UNCHANGED <<stage, index>>
      BY <2>2 DEF TaskHears, HearTask, LoadInv, ServesOK
    <3> QED
      BY <1>2, <3>1
  <2>3. CASE MainRaises(w)
    BY <2>3 DEF MainRaises
  <2>4. CASE MainGoesOn(w)
    <3>1. /\ outcomes' = outcomes
          /\ \/ stage = "coupon" /\ stage' = "user" /\ coupons[Code] # None
             \/ /\ stage = "user" /\ stage' = "order"
                /\ CustomerOf[index] \in users
             \/ /\ stage = "order" /\ orders[OrderOf[index]] # None
                /\ \/ /\ stage' = "user"
                      /\ index' = index + 1 /\ index' \in Tasks
                   \/ /\ stage' = "redeem" /\ index' = index
                      /\ index = Contenders
             \/ stage = "detail" /\ stage' = "done"
          /\ stage # "order" => index' = index
      BY <2>4, MainStages DEF MainGoesOn
    <3>2. /\ index \in Int
          /\ \A i \in Tasks : i \in Int /\ i <= Contenders
      BY <1>1, MadeUp DEF Tasks, ScriptTypeOK
    <3>3. stage' # "coupon" => coupons'[Code] # None
      BY <1>1, <3>1 DEF Grows
    <3>4. ASSUME NEW i \in Tasks,
                 i < index' \/ stage' \notin {"coupon", "user", "order"}
          PROVE  orders'[OrderOf[i]] # None
      <4>1. i < index \/ i = index
              \/ stage \notin {"coupon", "user", "order"}
        BY <3>1, <3>2, <3>4, MadeUp
      <4>2. i = index /\ ~(i < index) => stage = "order" \/ stage = "detail"
        BY <3>1, <3>2, <3>4
      <4>3. orders[OrderOf[i]] # None
        BY <1>1, <3>1, <3>2, <4>1, <4>2
      <4> QED
        BY <1>1, <4>3 DEF Grows
    <3>5. stage' = "order" => CustomerOf[index'] \in users'
      BY <1>1, <3>1 DEF Grows
    <3>6. stage' \in {"detail", "done"} =>
            Full' /\ Cardinality(winners)' = Capacity
      BY <1>1, <3>1 DEF Grows
    <3> QED
      BY <3>3, <3>4, <3>5, <3>6 DEF StageOK
  <2> QED
    BY <1>3, <2>1, <2>2, <2>3, <2>4, Hears
<1>4. CASE PoolStep
  <2>1. stage = "redeem" /\ index' = index
    BY <1>4, PoolAlone
  <2>2. CASE PoolRaises
    BY <1>2, <2>1, <2>2 DEF PoolRaises
  <2>3. CASE PoolEnds
    <3>1. /\ stage' = "detail" /\ Finished = Tasks /\ outcomes' = outcomes
          /\ \A i \in Tasks : outcomes[i] # "LOST"
      BY <2>3 DEF PoolEnds
    <3>2. Full /\ Cardinality(winners) = Capacity
      BY <2>1, <3>1, PoolDone
    <3>3. Full' /\ Cardinality(winners)' = Capacity
      BY <1>1, <3>1, <3>2 DEF Grows
    <3>4. coupons'[Code] # None /\ \A i \in Tasks : orders'[OrderOf[i]] # None
      BY <1>1, <2>1 DEF Grows
    <3> QED
      BY <3>1, <3>3, <3>4 DEF StageOK
  <2> QED
    BY <1>4, <2>2, <2>3 DEF PoolStep
<1> QED
  BY <1>2, <1>3, <1>4, LoadKinds DEF Takes, Call, Work, loadVars, scriptVars

\* The verdict comes last.
LEMMA LoadVerdicts ==
  ASSUME LoadInv, [LoadNext]_loadVars
  PROVE  VerdictOK'
<1>1. VerdictOK
  BY DEF LoadInv
<1>2. CASE UNCHANGED <<stage, verdict>>
  BY <1>1, <1>2 DEF VerdictOK
<1>3. ASSUME NEW w \in Workers, Ends(w) PROVE VerdictOK'
  <2>1. CASE NobodyHears(w) \/ TaskHears(w)
    BY <1>2, <2>1 DEF NobodyHears, TaskHears, HearTask
  <2>2. CASE MainRaises(w)
    <3>1. stage # "redeem"
      BY <1>3, <2>2, MainApart DEF MainRaises
    <3> QED
      BY <2>2, <3>1 DEF MainRaises, VerdictOK
  <2>3. CASE MainGoesOn(w)
    BY <2>3, MainStages, OutcomeAssumption DEF VerdictOK
  <2> QED
    BY <1>3, <2>1, <2>2, <2>3, Hears
<1>4. CASE PoolStep
  BY <1>1, <1>4, OutcomeAssumption
     DEF PoolStep, PoolRaises, PoolEnds, VerdictOK
<1> QED
  BY <1>2, <1>3, <1>4, LoadKinds DEF Takes, Call, Work, loadVars, scriptVars

\* The tables are empty, nobody has called and nobody has heard anything.
THEOREM LoadInitially == LoadInit => LoadInv
<1> SUFFICES ASSUME LoadInit PROVE LoadInv
  OBVIOUS
<1>1. AnswerInv
  BY AnswerInit DEF LoadInit
<1>2. ScriptTypeOK
  BY MadeUp DEF LoadInit, ScriptTypeOK
<1>3. /\ \A c \in Codes : coupons[c] = None
      /\ \A o \in Orders : orders[o] = None
      /\ \A w \in Workers : pc[w] = "idle" /\ caller[w] = None
      /\ \A i \in Tasks : outcomes[i] = None
  BY LoadTestAssumption DEF LoadInit, Init
<1>4. OnlyCoupon /\ OnlyOrders /\ OneCall
  BY <1>3 DEF OnlyCoupon, OnlyOrders, OneCall
<1>5. \A w \in Workers : ServesOK(w) /\ ContenderOK(w) /\ SeedOK(w)
  BY <1>3, MadeUp DEF ServesOK, ContenderOK, SeedOK
<1>6. \A i \in Tasks : OutcomeOK(i)
  BY <1>3, MadeUp, OutcomeAssumption DEF OutcomeOK, Carries, Reason
<1>7. StageOK
  <2>1. \A i \in Tasks : ~(i < 1)
    BY MadeUp DEF Tasks
  <2> QED
    BY <2>1 DEF StageOK, LoadInit
<1>8. VerdictOK
  BY OutcomeAssumption DEF VerdictOK, LoadInit
<1> QED
  BY <1>1, <1>2, <1>4, <1>5, <1>6, <1>7, <1>8 DEF LoadInv

\* Every step of the script and of the service keeps LoadInv.
THEOREM LoadStep == LoadInv /\ [LoadNext]_loadVars => LoadInv'
<1> SUFFICES ASSUME LoadInv, [LoadNext]_loadVars PROVE LoadInv'
  OBVIOUS
<1>1. AnswerInv' /\ ScriptTypeOK' /\ OnlyCoupon' /\ OnlyOrders' /\ OneCall'
  BY ServiceGoesOn, LoadTypes, LoadTables, LoadOneCall
<1>2. \A w \in Workers : ServesOK(w)' /\ ContenderOK(w)' /\ SeedOK(w)'
  BY LoadServes, LoadContenders, LoadSeeds
<1>3. (\A i \in Tasks : OutcomeOK(i)') /\ StageOK' /\ VerdictOK'
  BY LoadOutcomes, LoadStages, LoadVerdicts
<1> QED
  BY <1>1, <1>2, <1>3 DEF LoadInv

\* Whatever times out or dies, the script and the service are as LoadInv says
\* in every reachable state.
THEOREM LoadCorrect == LoadSpec => []LoadInv
BY LoadInitially, LoadStep, PTL DEF LoadSpec

\* The script never says FAIL, and says PASS only when as many orders carry
\* the coupon as it had slots, for any number of contenders and threads.
THEOREM VerdictCorrect == LoadSpec => []VerdictTrue
<1>1. LoadInv => VerdictTrue
  BY OutcomeAssumption
     DEF LoadInv, ScriptTypeOK, StageOK, VerdictOK, Full, VerdictTrue
<1> QED
  BY <1>1, LoadCorrect, PTL

\* Under the script the service runs as it does under any clients, so what is
\* proved of the service alone holds here too.
THEOREM LoadRefines == LoadSpec => Spec
<1>1. LoadInit => Init
  BY DEF LoadInit
<1>2. LoadInv /\ [LoadNext]_loadVars => [Next]_vars
  BY LoadSteps DEF LoadInv
<1> QED
  BY <1>1, <1>2, LoadCorrect, PTL DEF LoadSpec, Spec
=============================================================================
