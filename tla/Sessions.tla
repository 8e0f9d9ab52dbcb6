------------------------------ MODULE Sessions ------------------------------
(***************************************************************************)
(* The ground the services run on: worker processes, each serving one      *)
(* request at a time on its own Postgres connection, and what              *)
(* transaction.atomic, SELECT ... FOR UPDATE and save(update_fields=...)   *)
(* do to the tables.                                                       *)
(*                                                                         *)
(* orders, coupons and users are the committed rows, which is what every   *)
(* unlocked READ COMMITTED statement sees.  A row saved inside a           *)
(* transaction stays in the worker's memory, its columns named in saved,   *)
(* until Commit installs it; a rollback or a crash simply forgets it.      *)
(***************************************************************************)
EXTENDS Policies

CONSTANTS Workers,        \* gunicorn processes and threads
          Requests,       \* the requests clients may send
          MaxTime,        \* the last instant of the model
          SeededUsers,    \* what the tables hold when the service starts
          SeededOrders,
          SeededCoupons

VARIABLES users, orders, coupons,     \* committed tables
          orderLock, couponLock,      \* the worker holding each row lock
          now,                        \* the system clock
          pc,                         \* the next statement of each worker
          req,                        \* the request it serves
          arrived,                    \* when that request arrived
          order, coupon,              \* the instances it has read and locked
          rule,                       \* index of the next policy to enforce
          saved,                      \* columns saved and not yet committed
          resp                        \* the answer it has decided on

tables   == <<users, orders, coupons>>
locks    == <<orderLock, couponLock>>
client   == <<req, arrived>>
instance == <<order, coupon, rule>>
vars     == <<tables, locks, now, pc, client, instance, saved, resp>>

-----------------------------------------------------------------------------
(* Requests, as the serializers hand them to the services, and answers.    *)

RedeemRequest == [op : {"redeem"}, code : Codes, customer : Customers,
                  order : Orders]
CancelRequest == [op : {"cancel"}, order : Orders]
QueryRequest  == [op : {"query"}, code : Codes]
UserRequest   == [op : {"create_user"}, customer : Customers]
CouponRequest == [op : {"create_coupon"}, code : Codes, row : CouponRow]
OrderRequest  == [op : {"create_order"}, customer : Customers, order : Orders]

Request == RedeemRequest \cup CancelRequest \cup QueryRequest
             \cup UserRequest \cup CouponRequest \cup OrderRequest

\* errors.py; OK is success, SERVER_ERROR an exception no handler translates.
Reason == {"OK", "SERVER_ERROR", "ORDER_NOT_FOUND", "ORDER_OWNERSHIP_MISMATCH",
           "ORDER_NOT_PLACED", "ORDER_ALREADY_HAS_COUPON", "COUPON_NOT_FOUND",
           "COUPON_EXPIRED", "COUPON_EXHAUSTED", "CUSTOMER_ALREADY_REDEEMED",
           "USER_NOT_FOUND", "USER_ALREADY_EXISTS", "COUPON_ALREADY_EXISTS",
           "ORDER_ALREADY_EXISTS"}

Answer == [reason : Reason, remaining : Int \cup {None}, replayed : BOOLEAN]

Error(reason) == [reason |-> reason, remaining |-> None, replayed |-> FALSE]

Success(left, replay) ==
  [reason |-> "OK", remaining |-> left, replayed |-> replay]

ASSUME RequestsAssumption ==
  /\ Requests \subseteq Request
  /\ \A r \in Requests : r.op = "create_coupon" =>
       r.row.code = r.code /\ r.row.redeemed_count = 0

ASSUME WorkersAssumption ==
  /\ None \notin Workers
  /\ None \notin Request
  /\ None \notin Answer
  /\ None \notin Int

ASSUME TimeAssumption == MaxTime \in Nat

\* The service starts on migrated tables, empty or filled by the seeding
\* endpoints: orders are PLACED and carry no coupon, counters are 0.
ASSUME SeedAssumption ==
  /\ SeededUsers \subseteq Customers
  /\ \A o \in DOMAIN SeededOrders : SeededOrders[o] \in SeededUsers
  /\ DOMAIN SeededOrders \subseteq Orders
  /\ DOMAIN SeededCoupons \subseteq Codes
  /\ \A c \in DOMAIN SeededCoupons :
       /\ SeededCoupons[c] \in CouponRow
       /\ SeededCoupons[c].code = c
       /\ SeededCoupons[c].redeemed_count = 0

-----------------------------------------------------------------------------
(* The rows DjangoOrderRepository.create and DjangoCouponRepository.create *)
(* insert.                                                                 *)

NewOrder(customer) ==
  [user |-> customer, coupon |-> None, status |-> "PLACED",
   is_single_use |-> FALSE]

Init ==
  /\ users = SeededUsers
  /\ orders = [o \in Orders |-> IF o \in DOMAIN SeededOrders
                                THEN NewOrder(SeededOrders[o]) ELSE None]
  /\ coupons = [c \in Codes |-> IF c \in DOMAIN SeededCoupons
                                THEN SeededCoupons[c] ELSE None]
  /\ orderLock = [o \in Orders |-> None]
  /\ couponLock = [c \in Codes |-> None]
  /\ now = 0
  /\ pc = [w \in Workers |-> "idle"]
  /\ req = [w \in Workers |-> None]
  /\ arrived = [w \in Workers |-> 0]
  /\ order = [w \in Workers |-> None]
  /\ coupon = [w \in Workers |-> None]
  /\ rule = [w \in Workers |-> 1]
  /\ saved = [w \in Workers |-> {}]
  /\ resp = [w \in Workers |-> None]

-----------------------------------------------------------------------------
(* Statements.                                                             *)

At(w, op, label) == pc[w] = label /\ req[w].op = op

Goto(w, label) == pc' = [pc EXCEPT ![w] = label]

\* Raise an error inside transaction.atomic: what is left is the rollback.
Raise(w, reason) ==
  /\ Goto(w, "rollback")
  /\ resp' = [resp EXCEPT ![w] = Error(reason)]

\* Return a payload from inside transaction.atomic: what is left is COMMIT.
Return(w, payload) ==
  /\ Goto(w, "commit")
  /\ resp' = [resp EXCEPT ![w] = payload]

\* Answer from outside any transaction.
Reply(w, payload) ==
  /\ Goto(w, "respond")
  /\ resp' = [resp EXCEPT ![w] = payload]

\* Broken: lock_by_id without select_for_update.
ReadOrder(w, o) ==
  /\ order' = [order EXCEPT ![w] = orders[o]]
  /\ UNCHANGED orderLock

\* DjangoOrderRepository.lock_by_id: wait for the row lock, then read the
\* row as committed by then.  A row that does not exist locks nothing.
LockOrder(w, o) ==
  /\ orders[o] # None => orderLock[o] = None
  /\ orderLock' = IF orders[o] = None THEN orderLock
                                      ELSE [orderLock EXCEPT ![o] = w]
  /\ order' = [order EXCEPT ![w] = orders[o]]

\* Broken: lock_by_code and lock_by_id without select_for_update.
ReadCoupon(w, c) ==
  /\ coupon' = [coupon EXCEPT ![w] = coupons[c]]
  /\ UNCHANGED couponLock

\* DjangoCouponRepository.lock_by_code and lock_by_id.
LockCoupon(w, c) ==
  /\ coupons[c] # None => couponLock[c] = None
  /\ couponLock' = IF coupons[c] = None THEN couponLock
                                        ELSE [couponLock EXCEPT ![c] = w]
  /\ coupon' = [coupon EXCEPT ![w] = coupons[c]]

\* DjangoCouponRepository.save_redeemed_count: the in-memory counter, made
\* absolute.  The CHECK constraints of the table are tried at once; neither
\* service translates their violation.
SaveRedeemedCount(w, count, next) ==
  /\ coupon' = [coupon EXCEPT ![w].redeemed_count = count]
  /\ IF RedeemedWithinCap([coupon[w] EXCEPT !.redeemed_count = count])
     THEN /\ saved' = [saved EXCEPT ![w] = @ \cup {"redeemed_count"}]
          /\ Goto(w, next)
          /\ UNCHANGED resp
     ELSE Raise(w, "SERVER_ERROR") /\ UNCHANGED saved

\* The columns of a row that a worker's saves replace.
SavedOrder(w, row) ==
  [row EXCEPT
     !.coupon = IF "coupon" \in saved[w] THEN order[w].coupon ELSE @,
     !.is_single_use = IF "is_single_use" \in saved[w]
                       THEN order[w].is_single_use ELSE @,
     !.status = IF "status" \in saved[w] THEN order[w].status ELSE @]

InstallCoupon(w) ==
  coupons' = IF "redeemed_count" \in saved[w]
             THEN [coupons EXCEPT ![coupon[w].code].redeemed_count =
                                    coupon[w].redeemed_count]
             ELSE coupons

InstallOrder(w) ==
  orders' = [orders EXCEPT ![req[w].order] = SavedOrder(w, @)]

\* The end of a transaction drops its locks and its unsaved work.
ReleaseLocks(w) ==
  /\ orderLock' = [o \in Orders |-> IF orderLock[o] = w THEN None
                                                        ELSE orderLock[o]]
  /\ couponLock' = [c \in Codes |-> IF couponLock[c] = w THEN None
                                                         ELSE couponLock[c]]

Forget(w) ==
  /\ order' = [order EXCEPT ![w] = None]
  /\ coupon' = [coupon EXCEPT ![w] = None]
  /\ rule' = [rule EXCEPT ![w] = 1]
  /\ saved' = [saved EXCEPT ![w] = {}]

-----------------------------------------------------------------------------
(* Actions common to every request.                                        *)

\* The first statement of the service each view calls.
FirstStatement ==
  [redeem |-> "lockOrder", cancel |-> "lockOrder", query |-> "readCoupon",
   create_user |-> "insertUser", create_coupon |-> "insertCoupon",
   create_order |-> "checkUser"]

\* A valid request reaches an idle worker.
Receive(w, r) ==
  /\ pc[w] = "idle"
  /\ Goto(w, FirstStatement[r.op])
  /\ req' = [req EXCEPT ![w] = r]
  /\ arrived' = [arrived EXCEPT ![w] = now]
  /\ UNCHANGED <<tables, locks, now, instance, saved, resp>>

\* transaction.atomic exits without an exception.
Commit(w) ==
  /\ pc[w] = "commit"
  /\ InstallOrder(w)
  /\ InstallCoupon(w)
  /\ ReleaseLocks(w)
  /\ Forget(w)
  /\ Goto(w, "respond")
  /\ UNCHANGED <<users, now, client, resp>>

\* Broken: the connection goes back to the pool with its transaction open.
LeaveOpen(w) ==
  /\ pc[w] = "rollback"
  /\ Forget(w)
  /\ Goto(w, "respond")
  /\ UNCHANGED <<tables, locks, now, client, resp>>

\* transaction.atomic exits with an exception.
Rollback(w) ==
  /\ pc[w] = "rollback"
  /\ ReleaseLocks(w)
  /\ Forget(w)
  /\ Goto(w, "respond")
  /\ UNCHANGED <<tables, now, client, resp>>

Clear(w) ==
  /\ Goto(w, "idle")
  /\ req' = [req EXCEPT ![w] = None]
  /\ arrived' = [arrived EXCEPT ![w] = 0]
  /\ resp' = [resp EXCEPT ![w] = None]

\* The response leaves the worker, which is free for another request.
Respond(w) ==
  /\ pc[w] = "respond"
  /\ Clear(w)
  /\ UNCHANGED <<tables, locks, now, instance, saved>>

\* Broken: autocommit, without transaction.atomic, keeps the saves made so far.
CrashInAutocommit(w) ==
  /\ pc[w] # "idle"
  /\ IF order[w] = None THEN UNCHANGED orders ELSE InstallOrder(w)
  /\ InstallCoupon(w)
  /\ ReleaseLocks(w)
  /\ Forget(w)
  /\ Clear(w)
  /\ UNCHANGED <<users, now>>

\* The process is killed or its connection drops, at any statement: Postgres
\* rolls back what is not committed, and the client hears nothing.
Crash(w) ==
  /\ pc[w] # "idle"
  /\ ReleaseLocks(w)
  /\ Forget(w)
  /\ Clear(w)
  /\ UNCHANGED <<tables, now>>

Tick ==
  /\ now < MaxTime
  /\ now' = now + 1
  /\ UNCHANGED <<tables, locks, pc, client, instance, saved, resp>>
=============================================================================
