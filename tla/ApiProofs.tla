------------------------------ MODULE ApiProofs ------------------------------
(***************************************************************************)
(* The properties of the boundary.  Around the services, each worker       *)
(* serves one call whose id it is bound to and whose request it works on;  *)
(* that, with the invariant of the services, gives what the tables store,  *)
(* what a key protects, and whose id an error bears.                       *)
(***************************************************************************)
EXTENDS Api, CouponAnswerProofs

Pages == [shape : {"payload", "page", "error"},
          reason : Reason \cup {"PARSE_ERROR", "VALIDATION_ERROR",
                                "IDEMPOTENCY_KEY_MISMATCH"},
          id : Ids \cup {NoId}]

ApiTypeOK ==
  /\ call \in [Workers -> Calls \cup {None}]
  /\ id \in [Workers -> Ids \cup {NoId}]
  /\ context \in [Workers -> Ids \cup {NoId}]
  /\ answer \in [Workers -> Pages \cup {None}]

\* A worker is bound to the id of its call for as long as it serves it, and
\* works on nothing but the request of that call.
CallOK(w) ==
  /\ context[w] = id[w]
  /\ call[w] = None => id[w] = NoId /\ answer[w] = None /\ pc[w] = "idle"
  /\ call[w] # None => id[w] \in Ids
  /\ pc[w] # "idle" =>
       /\ Accepted(call[w]) /\ KeyMatches(call[w])
       /\ req[w] = Clean(call[w])
  /\ answer[w] # None =>
       /\ pc[w] \in {"idle", "respond"}
       /\ answer[w].shape = "error" => answer[w].id = id[w]

\* The inductive invariant of the boundary.
ApiInv ==
  /\ IInv
  /\ ApiTypeOK
  /\ \A w \in Workers : CallOK(w)
  /\ StoredIsValid


-----------------------------------------------------------------------------
(* The boundary's operators.                                               *)

\* The request made of an accepted call.
LEMMA CleanFields ==
  ASSUME NEW cl \in Calls, Accepted(cl)
  PROVE  /\ Clean(cl) \in Requests
         /\ Clean(cl).op = cl.op
         /\ cl.op \in {"redeem", "query", "create_coupon"} =>
              cl.code \in Codes /\ Clean(cl).code = normalise_code(cl.code)
         /\ cl.op = "redeem" => Clean(cl).order = cl.order
         /\ cl.op = "create_coupon" =>
              /\ Clean(cl).row.max_redemptions = cl.max
              /\ cl.max \in Int /\ cl.max >= 1
              /\ normalise_code(cl.code) # Blank
<1>1. Clean(cl) \in Requests
  BY CallsAssumption
<1>2. cl \in RedeemCall \cup CancelCall \cup QueryCall \cup UserCall
               \cup CouponCall \cup OrderCall
  BY ApiAssumption
<1>3. CASE cl \in RedeemCall
  <2>1. Clean(cl) = [op |-> "redeem", code |-> normalise_code(cl.code),
                     customer |-> cl.customer, order |-> cl.order]
    BY <1>3 DEF Clean, RedeemCall
  <2> QED
    BY <1>1, <1>3, <2>1 DEF RedeemCall
<1>4. CASE cl \in CancelCall \cup UserCall \cup OrderCall
  <2>1. Clean(cl) \in {[op |-> "cancel", order |-> cl.order],
                       [op |-> "create_user", customer |-> cl.customer],
                       [op |-> "create_order", customer |-> cl.customer,
                        order |-> cl.order]}
        /\ Clean(cl).op = cl.op
    BY <1>4 DEF Clean, CancelCall, UserCall, OrderCall
  <2> QED
    BY <1>1, <1>4, <2>1 DEF CancelCall, UserCall, OrderCall
<1>5. CASE cl \in QueryCall
  <2>1. Clean(cl) = [op |-> "query", code |-> normalise_code(cl.code)]
    BY <1>5 DEF Clean, QueryCall, DetailRequest
  <2> QED
    BY <1>1, <1>5, <2>1 DEF QueryCall
<1>6. CASE cl \in CouponCall
  <2>1. Clean(cl) = [op |-> "create_coupon", code |-> normalise_code(cl.code),
                     row |-> [code |-> normalise_code(cl.code),
                              type |-> cl.type, max_redemptions |-> cl.max,
                              redeemed_count |-> 0,
                              expires_at |-> cl.expires]]
    BY <1>6 DEF Clean, CouponCall
  <2>2. cl.max >= 1 /\ normalise_code(cl.code) # Blank
    BY <1>6 DEF Accepted, CodeAccepted, CouponCall
  <2> QED
    BY <1>1, <1>6, <2>1, <2>2 DEF CouponCall
<1> QED
  BY <1>2, <1>3, <1>4, <1>5, <1>6

\* A canonical code is its own canonical form.
LEMMA CanonicalOnce ==
  ASSUME NEW c \in Codes
  PROVE  /\ normalise_code(c) \in Codes
         /\ normalise_code(normalise_code(c)) = normalise_code(c)
BY ApiAssumption DEF normalise_code

\* A response is a page, and an error among them bears the id of the context.
LEMMA RenderedIs ==
  ASSUME NEW w \in Workers, context[w] \in Ids \cup {NoId},
         NEW reason \in Reason \cup {"PARSE_ERROR", "VALIDATION_ERROR",
                                     "IDEMPOTENCY_KEY_MISMATCH"}
  PROVE  /\ Rendered(w, reason) \in Pages
         /\ Rendered(w, reason).shape = "error" =>
              Rendered(w, reason).id = context[w]
BY DEF Rendered, Pages

\* An INSERT that its column refuses.
LEMMA SafeInsertRefused ==
  ASSUME IInv, NEW w \in Workers, InsertRefused(w)
  PROVE  IInv' /\ Others(w) /\ pc'[w] = "respond"
<1>1. HeldInv /\ TypeInv /\ TablesOK
  BY DEF IInv, HeldInv
<1>2. /\ Reply(w, Error("SERVER_ERROR"))
      /\ pc[w] \in {"insertUser", "insertCoupon"}
      /\ UNCHANGED <<users, orders, coupons, orderLock, couponLock>>
      /\ UNCHANGED <<locks, now, client, instance, saved>>
  BY DEF InsertRefused, Inserting, tables, locks
<1>3. Error("SERVER_ERROR") \in {Error(e) : e \in Reason}
  BY DEF Reason
<1>4. Others(w) /\ WorkerOK(w)'
  BY <1>1, <1>2, <1>3, ReplyAnswers, ReplySafe
<1>5. TypeInv'
  <2>1. /\ users' \subseteq Customers
        /\ orders' \in [Orders -> OrderRow \cup {None}]
        /\ coupons' \in [Codes -> CouponRow \cup {None}]
        /\ \A c \in Codes : coupons'[c] # None => coupons'[c].code = c
        /\ RowsStay
    BY <1>1, <1>2 DEF TypeInv, TypeOK, RowsStay
  <2> QED
    BY <1>1, <1>2, <1>3, <2>1, ReplyType, AutocommitType
<1>6. Kept(w)
  BY <1>1, <1>2, KeptByLocalStep
<1>7. HeldInv'
  BY <1>1, <1>4, <1>5, <1>6, SoundHeld DEF Sound
<1>8. ASSUME NEW v \in Workers PROVE ServiceOK(v)'
  <2>1. CASE v = w
    <3>1. pc'[w] = "respond"
      BY <1>1, <1>2 DEF Reply, Goto, TypeInv, TypeOK
    <3> QED
      BY <2>1, <3>1 DEF ServiceOK, CustomerChecked, CleanRollback
  <2>2. CASE v # w
    BY <1>1, <1>4, <1>6, <2>2, ServiceStays DEF IInv
  <2> QED
    BY <2>1, <2>2
<1>9. TablesOK'
  BY <1>1, <1>2 DEF TablesOK, SingleUseAgrees, CountMatchesHolders,
     RedemptionLimits, Holders
<1>10. IInv'
  BY <1>7, <1>8, <1>9 DEF IInv
<1> QED
  BY <1>1, <1>2, <1>4, <1>10 DEF Reply, Goto, TypeInv, TypeOK

-----------------------------------------------------------------------------
(* The services, seen from the boundary.                                   *)

\* What a step may do to the coupons, whatever the call: add one that is not
\* there yet, or change a counter.
CouponsGrow(w) ==
  \A c \in Codes :
    \/ coupons'[c] = coupons[c]
    \/ /\ coupons[c] = None
       /\ InsertCoupon(w)
       /\ c = req[w].code /\ coupons'[c] = req[w].row
    \/ /\ coupons[c] # None /\ coupons'[c] # None
       /\ coupons'[c].max_redemptions = coupons[c].max_redemptions

\* Every step of a worker, a service's or a seeding call's, does just that.
LEMMA StepCoupons ==
  ASSUME IInv, NEW w \in Workers, WorkerStep(w)
  PROVE  CouponsGrow(w)
<1>1. TypeInv /\ Writes(w)
  BY StepWrites DEF IInv, HeldInv
<1>2. CASE UNCHANGED tables \/ UserAdded(w) \/ OrderAdded(w)
  BY <1>2 DEF tables, UserAdded, OrderAdded, CouponsGrow
<1>3. CASE CouponAdded(w)
  BY <1>1, <1>3 DEF CouponAdded, CouponsGrow, TypeInv, TypeOK
<1>4. CASE Written(w) /\ Redeems(w)
  BY <1>4 DEF Redeems, CouponsGrow
<1>5. CASE Written(w) /\ Cancels(w)
  BY <1>5, NoneAssumption DEF Cancels, CouponsGrow
<1> QED
  BY <1>1, <1>2, <1>3, <1>4, <1>5 DEF Writes, Written

\* The only table a step adds users to is users, by POST /users.
LEMMA StepUsers ==
  ASSUME IInv, NEW w \in Workers, WorkerStep(w)
  PROVE  users' = users \/ UserAdded(w)
BY StepWrites DEF IInv, Writes, Written, CouponAdded, OrderAdded, tables

\* A statement of a service leaves the request alone, and comes after the
\* first and before the last.
LEMMA ServeRequest ==
  ASSUME IInv, NEW w \in Workers,
         LockStep(w) \/ (pc[w] # "respond" /\ LocalStep(w))
  PROVE  /\ WorkerStep(w) /\ req' = req
         /\ pc[w] \notin {"idle", "respond"}
<1>1. TypeInv
  BY DEF IInv, HeldInv
<1>2. CASE LockStep(w)
  BY <1>2 DEF LockStep, RedeemLock, CancelLock, RedeemLockOrder, RedeemReplay,
       RedeemLockCoupon, CancelLockOrder, CancelLockCoupon, At, client,
       WorkerStep
<1>3. CASE RedeemStep(w) \/ CancelStep(w)
  BY <1>3 DEF RedeemStep, CancelStep, RedeemEnforcePolicy, RedeemSaveCount,
       RedeemAttachCoupon, CancelSaveCount, CancelMarkCancelled, At, client,
       WorkerStep, LocalStep
<1>4. CASE SeedingStep(w) \/ QueryReadCoupon(w)
  BY <1>4 DEF SeedingStep, InsertUser, InsertCoupon, CheckUser, InsertOrder,
       QueryReadCoupon, At, client, WorkerStep, LocalStep
<1>5. CASE Commit(w) \/ Rollback(w)
  BY <1>5 DEF Commit, Rollback, client, WorkerStep, LocalStep
<1>6. Respond(w) => pc[w] = "respond"
  BY DEF Respond
<1> QED
  BY <1>2, <1>3, <1>4, <1>5, <1>6 DEF LocalStep


-----------------------------------------------------------------------------
(* ApiInv is inductive.                                                    *)

\* The rest of the boundary stands still.
OtherCalls(w) ==
  \A v \in Workers \ {w} :
    /\ pc'[v] = pc[v] /\ req'[v] = req[v]
    /\ call'[v] = call[v] /\ id'[v] = id[v]
    /\ context'[v] = context[v] /\ answer'[v] = answer[v]

\* What is true of a call stays true while another one is served.
LEMMA CallsStay ==
  ASSUME NEW w \in Workers, OtherCalls(w), NEW v \in Workers \ {w}, CallOK(v)
  PROVE  CallOK(v)'
BY DEF OtherCalls, CallOK

\* A step keeps to its own worker's call.
LEMMA StepCalls ==
  ASSUME ApiTypeOK, NEW w \in Workers, Others(w),
         UNCHANGED apiVars
  PROVE  OtherCalls(w) /\ ApiTypeOK'
BY DEF OtherCalls, Others, apiVars, ApiTypeOK

\* Whatever is stored has passed serializer and column.
LEMMA StoredStays ==
  ASSUME ApiInv, NEW w \in Workers, WorkerStep(w),
         Inserting(w) => Fits(req[w])
  PROVE  StoredIsValid'
<1>1. IInv /\ TypeInv /\ TypeInv' /\ StoredIsValid /\ CallOK(w)
  <2>1. [Next]_vars
    BY DEF WorkerStep, Next
  <2> QED
    BY <2>1, SafeStep DEF ApiInv, IInv, HeldInv
<1>2. CouponsGrow(w)
  BY <1>1, StepCoupons
<1>3. users' \cap LongEmails \subseteq SeededUsers
  <2>1. CASE users' = users
    BY <1>1, <2>1 DEF StoredIsValid
  <2>2. CASE UserAdded(w)
    <3>1. /\ users' = users \cup {req[w].customer}
          /\ pc[w] = "insertUser" /\ req[w].op = "create_user"
      BY <2>2 DEF UserAdded, InsertUser, At
    <3>2. req[w].customer \notin LongEmails
      BY <3>1 DEF Inserting, Fits
    <3> QED
      BY <1>1, <3>1, <3>2 DEF StoredIsValid
  <2> QED
    BY <1>1, <2>1, <2>2, StepUsers
<1>4. ASSUME NEW c \in Codes, coupons'[c] # None
      PROVE  /\ c # Blank /\ normalise_code(c) = c /\ Length[c] <= MaxLength
             /\ coupons'[c].max_redemptions \in 1 .. MaxInteger
  <2>1. CASE coupons'[c] = coupons[c]
    BY <1>1, <1>4, <2>1 DEF StoredIsValid
  <2>2. CASE /\ coupons[c] # None /\ coupons'[c] # None
             /\ coupons'[c].max_redemptions = coupons[c].max_redemptions
    BY <1>1, <1>4, <2>2 DEF StoredIsValid
  <2>3. CASE /\ InsertCoupon(w) /\ c = req[w].code
             /\ coupons'[c] = req[w].row
    <3> DEFINE cl == call[w]
    <3>1. /\ pc[w] = "insertCoupon" /\ req[w].op = "create_coupon"
          /\ Fits(req[w])
      BY <2>3 DEF InsertCoupon, At, Inserting
    <3>2. /\ cl # None /\ Accepted(cl) /\ req[w] = Clean(cl)
      BY <1>1, <3>1 DEF CallOK
    <3>3. cl \in Calls
      BY <3>2 DEF ApiInv, ApiTypeOK
    <3>4. cl.op = "create_coupon"
      BY <3>1, <3>2, <3>3, CleanFields
    <3>5. /\ cl.code \in Codes /\ c = normalise_code(cl.code) /\ c # Blank
          /\ coupons'[c].max_redemptions = cl.max
          /\ cl.max \in Int /\ cl.max >= 1
      BY <2>3, <3>2, <3>3, <3>4, CleanFields
    <3>6. normalise_code(c) = c
      BY <3>5, CanonicalOnce
    <3>7. Length[c] <= MaxLength /\ cl.max <= MaxInteger
      BY <2>3, <3>1, <3>5 DEF Fits
    <3> QED
      BY <3>5, <3>6, <3>7, ApiAssumption
  <2> QED
    BY <1>2, <2>1, <2>2, <2>3 DEF CouponsGrow
<1> QED
  BY <1>3, <1>4 DEF StoredIsValid

\* A step that no worker of the services takes.
LEMMA StoredUnmoved ==
  ASSUME ApiInv, UNCHANGED <<users, coupons>>
  PROVE  StoredIsValid'
BY DEF ApiInv, StoredIsValid

\* A call taken up.
LEMMA ApiAccept ==
  ASSUME ApiInv, NEW w \in Workers, NEW cl \in Calls, NEW i \in Ids,
         Accept(w, cl, i)
  PROVE  ApiInv'
<1>1. /\ IInv' /\ UNCHANGED <<users, coupons, pc, req, answer>>
      /\ call[w] = None
      /\ call' = [call EXCEPT ![w] = cl] /\ id' = [id EXCEPT ![w] = i]
      /\ context' = [context EXCEPT ![w] = i]
  BY SafeStep DEF Accept, ApiInv, vars, tables, client
<1>2. ApiTypeOK' /\ OtherCalls(w)
  BY <1>1 DEF ApiInv, ApiTypeOK, OtherCalls
<1>3. CallOK(w)'
  <2>1. call'[w] = cl /\ id'[w] = i /\ context'[w] = i /\ cl # None
    BY <1>1, ApiAssumption DEF ApiInv, ApiTypeOK
  <2>2. pc'[w] = "idle" /\ answer'[w] = None
    BY <1>1 DEF ApiInv, CallOK
  <2> QED
    BY <2>1, <2>2 DEF CallOK
<1> QED
  BY <1>1, <1>2, <1>3, CallsStay, StoredUnmoved DEF ApiInv

\* A call refused, or handed to its service.
LEMMA ApiHandle ==
  ASSUME ApiInv, NEW w \in Workers, Handle(w)
  PROVE  ApiInv'
<1>1. /\ IInv /\ TypeInv /\ ApiTypeOK /\ CallOK(w)
      /\ call[w] \in Calls /\ call[w] # None /\ answer[w] = None
      /\ pc[w] = "idle" /\ UNCHANGED <<call, id, context>>
  BY DEF Handle, ApiInv, IInv, HeldInv, ApiTypeOK
<1>2. CASE \E reason \in {"PARSE_ERROR", "VALIDATION_ERROR",
                          "IDEMPOTENCY_KEY_MISMATCH"} : Refuse(w, reason)
  <2>1. PICK reason \in {"PARSE_ERROR", "VALIDATION_ERROR",
                         "IDEMPOTENCY_KEY_MISMATCH"} : Refuse(w, reason)
    BY <1>2
  <2>2. /\ IInv' /\ UNCHANGED <<users, coupons, pc, req>>
        /\ answer' = [answer EXCEPT ![w] = Rendered(w, reason)]
    BY <1>1, <2>1, SafeStep DEF Refuse, Produce, vars, tables, client
  <2>3. /\ Rendered(w, reason) \in Pages
        /\ Rendered(w, reason).shape = "error" =>
             Rendered(w, reason).id = context[w]
    BY <1>1, RenderedIs DEF ApiTypeOK
  <2>4. ApiTypeOK' /\ OtherCalls(w) /\ answer'[w] = Rendered(w, reason)
    BY <1>1, <2>2, <2>3 DEF ApiTypeOK, OtherCalls
  <2>5. CallOK(w)'
    BY <1>1, <2>2, <2>3, <2>4 DEF CallOK
  <2> QED
    BY <2>2, <2>4, <2>5, CallsStay, StoredUnmoved DEF ApiInv
<1>3. CASE /\ Accepted(call[w]) /\ KeyMatches(call[w])
           /\ Receive(w, Clean(call[w])) /\ UNCHANGED answer
  <2>1. Clean(call[w]) \in Requests
    BY <1>1, <1>3, CleanFields
  <2>2. WorkerStep(w) /\ IInv'
    BY <1>1, <1>3, <2>1, SafeStep DEF WorkerStep, Next
  <2>3. Others(w)
    BY <1>1, <2>2, StepApart DEF Apart, IInv
  <2>4. OtherCalls(w) /\ ApiTypeOK'
    BY <1>1, <1>3, <2>3, StepCalls DEF apiVars
  <2>5. req'[w] = Clean(call[w]) /\ UNCHANGED <<users, coupons>>
    BY <1>1, <1>3 DEF Receive, tables, TypeInv, TypeOK
  <2>6. CallOK(w)'
    BY <1>1, <1>3, <2>5 DEF CallOK
  <2> QED
    BY <2>2, <2>4, <2>5, <2>6, CallsStay, StoredUnmoved DEF ApiInv
<1> QED
  BY <1>2, <1>3 DEF Handle

\* A statement of the service.
LEMMA ApiServe ==
  ASSUME ApiInv, NEW w \in Workers, Serve(w)
  PROVE  ApiInv'
<1>1. IInv /\ ApiTypeOK /\ CallOK(w) /\ UNCHANGED apiVars
  BY DEF Serve, ApiInv
<1>2. /\ WorkerStep(w) /\ req' = req
      /\ pc[w] \notin {"idle", "respond"}
  BY <1>1, ServeRequest DEF Serve
<1>3. IInv' /\ Others(w)
  BY <1>1, <1>2, StepApart, SafeStep DEF Apart, WorkerStep, Next, IInv
<1>4. OtherCalls(w) /\ ApiTypeOK'
  BY <1>1, <1>3, StepCalls
<1>5. CallOK(w)'
  BY <1>1, <1>2 DEF CallOK, apiVars
<1>6. StoredIsValid'
  BY <1>2, StoredStays DEF Serve
<1> QED
  BY <1>3, <1>4, <1>5, <1>6, CallsStay DEF ApiInv

\* An INSERT refused by its column.
LEMMA ApiInsertRefused ==
  ASSUME ApiInv, NEW w \in Workers, InsertRefused(w)
  PROVE  ApiInv'
<1>1. /\ IInv /\ ApiTypeOK /\ CallOK(w)
      /\ UNCHANGED <<users, coupons>> /\ UNCHANGED apiVars
      /\ req' = req /\ pc[w] \notin {"idle", "respond"}
  BY DEF InsertRefused, Inserting, ApiInv, tables, client, apiVars
<1>2. IInv' /\ Others(w)
  BY <1>1, SafeInsertRefused
<1>3. OtherCalls(w) /\ ApiTypeOK'
  BY <1>1, <1>2, StepCalls
<1>4. CallOK(w)'
  BY <1>1 DEF CallOK, apiVars
<1> QED
  BY <1>1, <1>2, <1>3, <1>4, CallsStay, StoredUnmoved DEF ApiInv

\* The answer of a service rendered.
LEMMA ApiRender ==
  ASSUME ApiInv, NEW w \in Workers, Render(w)
  PROVE  ApiInv'
<1>1. /\ IInv /\ TypeInv /\ MemoryOK(w) /\ ApiTypeOK /\ CallOK(w)
      /\ pc[w] = "respond" /\ UNCHANGED <<call, id, context>>
      /\ UNCHANGED <<users, coupons, pc, req>>
      /\ answer' = [answer EXCEPT ![w] = Rendered(w, resp[w].reason)]
  BY DEF Render, Produce, ApiInv, IInv, HeldInv, WorkerOK, vars, tables, client
<1>2. IInv'
  BY <1>1, SafeStep DEF Render
<1>3. resp[w].reason \in Reason
  BY <1>1 DEF MemoryOK, TypeInv, TypeOK, Answer
<1>4. /\ Rendered(w, resp[w].reason) \in Pages
      /\ Rendered(w, resp[w].reason).shape = "error" =>
           Rendered(w, resp[w].reason).id = context[w]
  BY <1>1, <1>3, RenderedIs DEF ApiTypeOK
<1>5. /\ ApiTypeOK' /\ OtherCalls(w)
      /\ answer'[w] = Rendered(w, resp[w].reason)
  BY <1>1, <1>4 DEF ApiTypeOK, OtherCalls
<1>6. CallOK(w)'
  BY <1>1, <1>4, <1>5 DEF CallOK
<1> QED
  BY <1>1, <1>2, <1>5, <1>6, CallsStay, StoredUnmoved DEF ApiInv

\* A call over: the worker answers, or dies.
LEMMA ApiEnds ==
  ASSUME ApiInv, NEW w \in Workers, Leave(w) \/ Kill(w)
  PROVE  ApiInv'
<1>1. /\ IInv /\ TypeInv /\ ApiTypeOK /\ CallOK(w)
      /\ call' = [call EXCEPT ![w] = None]
      /\ id' = [id EXCEPT ![w] = NoId]
      /\ answer' = [answer EXCEPT ![w] = None]
      /\ context' = [context EXCEPT ![w] = NoId]
  BY DEF Leave, Kill, Unbind, EndCall, ApiInv, IInv, HeldInv
<1>2. pc[w] \in {"idle", "respond"} \/ ~Leave(w)
  BY <1>1 DEF Leave, CallOK
<1>3. /\ Respond(w) \/ Crash(w) \/ (UNCHANGED vars /\ pc[w] = "idle")
  BY <1>2 DEF Leave, Kill
<1>4. IInv' /\ Others(w) /\ UNCHANGED <<users, coupons>> /\ pc'[w] = "idle"
  <2>1. CASE Respond(w) \/ Crash(w)
    <3>1. WorkerStep(w) /\ [Next]_vars
      BY <2>1 DEF WorkerStep, Next, LocalStep
    <3>2. UNCHANGED <<users, coupons>> /\ pc'[w] = "idle"
      BY <1>1, <2>1 DEF Respond, Crash, Clear, Goto, tables, TypeInv, TypeOK
    <3> QED
      BY <1>1, <3>1, <3>2, StepApart, SafeStep DEF Apart, IInv
  <2>2. CASE UNCHANGED vars /\ pc[w] = "idle"
    BY <1>1, <2>2, SafeStep
       DEF Others, vars, tables, client, instance
  <2> QED
    BY <1>3, <2>1, <2>2
<1>5. ApiTypeOK' /\ OtherCalls(w)
  BY <1>1, <1>4 DEF ApiTypeOK, OtherCalls, Others
<1>6. CallOK(w)'
  <2>1. /\ call'[w] = None /\ id'[w] = NoId /\ answer'[w] = None
        /\ context'[w] = NoId
    BY <1>1 DEF ApiTypeOK
  <2> QED
    BY <1>4, <2>1 DEF CallOK
<1> QED
  BY <1>4, <1>5, <1>6, CallsStay, StoredUnmoved DEF ApiInv

\* No call, and tables that hold what came through this boundary.
THEOREM ApiInitially == ApiInit => ApiInv
<1> SUFFICES ASSUME ApiInit PROVE ApiInv
  OBVIOUS
<1>1. IInv
  BY SafeInit DEF ApiInit
<1>2. ApiTypeOK /\ \A w \in Workers : CallOK(w)
  BY DEF ApiInit, Init, ApiTypeOK, CallOK
<1>3. StoredIsValid
  <2>1. ASSUME NEW c \in Codes, coupons[c] # None
        PROVE  /\ c # Blank /\ normalise_code(c) = c /\ Length[c] <= MaxLength
               /\ coupons[c].max_redemptions \in 1 .. MaxInteger
    <3>1. c \in DOMAIN SeededCoupons /\ coupons[c] = SeededCoupons[c]
      BY <2>1 DEF ApiInit, Init
    <3>2. coupons[c].max_redemptions \in Nat \ {0}
      BY <3>1, SeedAssumption DEF CouponRow
    <3> QED
      BY <3>1, <3>2, StoredAssumption, ApiAssumption DEF normalise_code
  <2> QED
    BY <2>1 DEF StoredIsValid, ApiInit, Init
<1> QED
  BY <1>1, <1>2, <1>3 DEF ApiInv

\* Every step at the boundary keeps ApiInv.
THEOREM ApiStep == ApiInv /\ [ApiNext]_httpVars => ApiInv'
<1> SUFFICES ASSUME ApiInv, [ApiNext]_httpVars PROVE ApiInv'
  OBVIOUS
<1>1. CASE UNCHANGED httpVars
  <2>1. IInv'
    BY <1>1, SafeStep DEF httpVars, ApiInv
  <2>2. StoredIsValid'
    BY <1>1, StoredUnmoved DEF httpVars, vars, tables
  <2>3. UNCHANGED <<pc, req, call, id, context, answer>>
    BY <1>1 DEF httpVars, vars, apiVars, client
  <2> QED
    BY <2>1, <2>2, <2>3 DEF ApiInv, ApiTypeOK, CallOK
<1>2. CASE ApiNext
  BY <1>2, ApiAccept, ApiHandle, ApiServe, ApiInsertRefused, ApiRender, ApiEnds
     DEF ApiNext
<1> QED
  BY <1>1, <1>2

\* The invariant of the boundary holds in every reachable state.
THEOREM BoundaryCorrect == ApiSpec => []ApiInv
BY ApiInitially, ApiStep, PTL DEF ApiSpec


-----------------------------------------------------------------------------
(* What follows from it.                                                   *)

\* Every coupon and customer stored is one that serializer and column accept.
THEOREM StoredCorrect == ApiSpec => []StoredIsValid
BY BoundaryCorrect, PTL DEF ApiInv

\* No redemption locks an order other than the one its key names.
THEOREM KeyCorrect == ApiSpec => []KeyScopesOrder
<1>1. ASSUME ApiInv, NEW w \in Workers, NEW o \in Orders, orderLock[o] = w,
             call[w].op = "redeem"
      PROVE  call[w].key \in {None, o}
  <2>1. LocksOK(w) /\ CallOK(w)
    BY <1>1 DEF ApiInv, IInv, HeldInv, WorkerOK
  <2>2. pc[w] # "idle" /\ req[w].order = o
    BY <1>1, <2>1 DEF LocksOK, Guarded, Writing
  <2>3. /\ call[w] \in Calls /\ Accepted(call[w]) /\ KeyMatches(call[w])
        /\ req[w] = Clean(call[w])
    BY <1>1, <2>1, <2>2 DEF CallOK, ApiInv, ApiTypeOK
  <2>4. req[w].order = call[w].order
    BY <1>1, <2>3, CleanFields
  <2> QED
    BY <1>1, <2>2, <2>3, <2>4 DEF KeyMatches
<1>2. ApiInv => KeyScopesOrder
  BY <1>1 DEF KeyScopesOrder
<1> QED
  BY <1>2, BoundaryCorrect, PTL

\* An error bears the id of its own call, and no id outlives its call.
THEOREM ErrorIdsCorrect == ApiSpec => []ErrorsCarryTheirId
<1>1. ASSUME ApiInv, NEW w \in Workers
      PROVE  /\ call[w] = None => context[w] = NoId
             /\ answer[w] # None /\ answer[w].shape = "error" =>
                  answer[w].id = id[w] /\ id[w] # NoId
  BY <1>1, ApiAssumption DEF ApiInv, CallOK
<1>2. ApiInv => ErrorsCarryTheirId
  BY <1>1 DEF ErrorsCarryTheirId
<1> QED
  BY <1>2, BoundaryCorrect, PTL

\* A step that tells a worker COUPON_NOT_FOUND has looked for the code of the
\* request and has seen no such row.
LEMMA LooksUp ==
  ASSUME IInv, NEW w \in Workers, WorkerStep(w),
         resp[w] = None, resp'[w] # None,
         resp'[w].reason = "COUPON_NOT_FOUND"
  PROVE  /\ pc[w] # "idle"
         /\ req[w].op \in {"query", "redeem"}
         /\ coupons[req[w].code] = None
<1>1. TypeInv /\ MemoryOK(w) /\ TransactionOK(w) /\ TablesOK
  BY DEF IInv, HeldInv, WorkerOK
<1>2. CASE (\E r \in Requests : Receive(w, r)) \/ Respond(w) \/ Crash(w)
             \/ Commit(w) \/ Rollback(w)
  BY <1>1, <1>2
     DEF Receive, Respond, Crash, Clear, Commit, Rollback, TypeInv, TypeOK
<1>3. CASE SeedingStep(w)
  <2>1. CASE InsertUser(w)
    BY <1>1, <2>1 DEF InsertUser, Reply, Error, Success, TypeInv, TypeOK
  <2>2. CASE InsertCoupon(w)
    BY <1>1, <2>2 DEF InsertCoupon, Reply, Error, Success, TypeInv, TypeOK
  <2>3. CASE CheckUser(w)
    BY <1>1, <2>3 DEF CheckUser, Reply, Error, Success, TypeInv, TypeOK
  <2>4. CASE InsertOrder(w)
    BY <1>1, <2>4 DEF InsertOrder, Reply, Error, Success, TypeInv, TypeOK
  <2> QED
    BY <1>3, <2>1, <2>2, <2>3, <2>4 DEF SeedingStep
<1>4. CASE QueryReadCoupon(w)
  BY <1>1, <1>4 DEF QueryReadCoupon, At, Reply, Success, TypeInv, TypeOK
<1>5. CASE RedeemLockOrder(w) \/ CancelLockOrder(w)
  BY <1>1, <1>5 DEF RedeemLockOrder, CancelLockOrder, Raise, Return, Error,
       Success, TypeInv, TypeOK
<1>6. CASE RedeemReplay(w)
  BY <1>1, <1>6 DEF RedeemReplay, Raise, Return, Error, Success, TypeInv, TypeOK
<1>7. CASE RedeemLockCoupon(w)
  BY <1>1, <1>7 DEF RedeemLockCoupon, At
<1>8. CASE CancelLockCoupon(w)
  <2> DEFINE o == req[w].order
             c == order[w].coupon
  <2>1. /\ pc[w] = "lockAttached" /\ req[w].op = "cancel"
        /\ req[w] \in Requests
    BY <1>1, <1>8 DEF CancelLockCoupon, At, TypeInv, TypeOK, ControlOK
  <2>2. order[w] = orders[o] /\ orders[o] # None /\ c # None /\ o \in Orders
    BY <1>1, <2>1, RequestFields
       DEF TransactionOK, OrderHeld, Guarded, InstancesOK, TypeInv
  <2>3. coupons[c] # None
    BY <1>1, <2>2 DEF TablesOK, SingleUseAgrees
  <2> QED
    BY <1>1, <1>8, <2>3
       DEF CancelLockCoupon, Return, Success, TypeInv, TypeOK
<1>9. CASE RedeemStep(w)
  <2>1. CASE RedeemEnforcePolicy(w)
    <3> DEFINE policies == for_type(coupon[w].type)
               policy   == policies[rule[w]]
    <3>1. policy \in Rules
      <4>1. pc[w] = "policies"
        BY <2>1 DEF RedeemEnforcePolicy, At
      <4>2. coupon[w] \in CouponInstance
        BY <1>1, <4>1 DEF TypeInv, TypeOK, InstancesOK
      <4>3. coupon[w].type \in CouponType
        BY <4>2 DEF CouponInstance
      <4>4. rule[w] \in 1 .. 3 /\ rule[w] <= Len(policies)
        BY <1>1, <4>1 DEF TypeInv, TypeOK, InstancesOK
      <4>5. Len(policies) \in 2 .. 3
        BY <4>3, RuleCount
      <4> QED
        BY <4>3, <4>4, <4>5, WhichRule
    <3>2. PolicyError[policy] # "COUPON_NOT_FOUND"
      BY <3>1 DEF PolicyError, Rules
    <3> HIDE DEF policy
    <3>3. \/ resp' = resp
          \/ resp' = [resp EXCEPT ![w] = Error(PolicyError[policy])]
      BY <2>1 DEF RedeemEnforcePolicy, Raise, policy
    <3> QED
      BY <1>1, <3>2, <3>3 DEF Error, TypeInv, TypeOK
  <2>2. CASE RedeemSaveCount(w) \/ RedeemAttachCoupon(w)
    BY <1>1, <2>2 DEF RedeemSaveCount, RedeemAttachCoupon, SaveRedeemedCount,
         Raise, Return, Error, Success, TypeInv, TypeOK
  <2> QED
    BY <1>9, <2>1, <2>2 DEF RedeemStep
<1>10. CASE CancelStep(w)
  BY <1>1, <1>10 DEF CancelStep, CancelSaveCount, CancelMarkCancelled,
       SaveRedeemedCount, Raise, Return, Error, Success, TypeInv, TypeOK
<1> QED
  BY <1>2, <1>3, <1>4, <1>5, <1>6, <1>7, <1>8, <1>9, <1>10
     DEF WorkerStep, LockStep, LocalStep, RedeemLock, CancelLock

\* The step that a worker of the services takes at the boundary, if any.
LEMMA ServiceSteps ==
  ASSUME ApiInv, [ApiNext]_httpVars, ~UNCHANGED resp
  PROVE  \E w \in Workers : WorkerStep(w) \/ InsertRefused(w)
<1>1. PICK w \in Workers :
        \/ Handle(w) \/ InsertRefused(w) \/ Serve(w) \/ Leave(w) \/ Kill(w)
  BY DEF ApiNext, Accept, Render, httpVars, vars
<1>2. CASE Handle(w)
  <2>1. call[w] \in Calls
    BY <1>2 DEF Handle, ApiInv, ApiTypeOK
  <2>2. Receive(w, Clean(call[w])) /\ Accepted(call[w])
    BY <1>2 DEF Handle, Refuse, vars
  <2> QED
    BY <2>1, <2>2, CleanFields DEF WorkerStep
<1>3. CASE Serve(w)
  BY <1>3, ServeRequest DEF Serve, ApiInv
<1>4. CASE Leave(w) \/ Kill(w)
  BY <1>4 DEF Leave, Kill, vars, WorkerStep, LocalStep
<1> QED
  BY <1>1, <1>2, <1>3, <1>4

\* Three code paths normalise on their own, and no lookup misses a coupon that
\* is stored in whatever spelling.
THEOREM FoundCorrect == ApiSpec => FoundInAnySpelling
<1>1. ApiInv /\ [ApiNext]_httpVars
        => [\A w \in Workers : RightlyNotFound(w)]_httpVars
  <2> SUFFICES ASSUME ApiInv, [ApiNext]_httpVars, NEW w \in Workers,
                      resp[w] = None, resp'[w] # None,
                      resp'[w].reason = "COUPON_NOT_FOUND",
                      NEW c \in Codes, coupons[c] # None
               PROVE  normalise_code(c) # normalise_code(call[w].code)
    BY DEF RightlyNotFound
  <2>1. IInv /\ TypeInv /\ CallOK(w) /\ normalise_code(c) = c
    BY DEF ApiInv, IInv, HeldInv, StoredIsValid
  <2>2. PICK v \in Workers : WorkerStep(v) \/ InsertRefused(v)
    BY ServiceSteps
  <2>3. v = w
    BY <2>1, <2>2, StepApart, SafeInsertRefused DEF Apart, Others, IInv
  <2>4. ~InsertRefused(w)
    BY <2>1 DEF InsertRefused, Reply, Error, TypeInv, TypeOK
  <2>5. /\ pc[w] # "idle" /\ req[w].op \in {"query", "redeem"}
        /\ coupons[req[w].code] = None
    BY <2>1, <2>2, <2>3, <2>4, LooksUp
  <2>6. call[w] \in Calls /\ Accepted(call[w]) /\ req[w] = Clean(call[w])
    BY <2>1, <2>5 DEF CallOK, ApiInv, ApiTypeOK
  <2>7. req[w].code = normalise_code(call[w].code)
    BY <2>5, <2>6, CleanFields
  <2> QED
    BY <2>1, <2>5, <2>7
<1> QED
  BY <1>1, BoundaryCorrect, PTL DEF ApiSpec, FoundInAnySpelling
=============================================================================
