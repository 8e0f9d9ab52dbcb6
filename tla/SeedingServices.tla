-------------------------- MODULE SeedingServices ---------------------------
(***************************************************************************)
(* services/seeding.py: the endpoints that create customers, coupons and   *)
(* orders.  Each INSERT is one committed statement; a duplicate key waits  *)
(* for the row that holds it and then fails, so it always sees that row.   *)
(***************************************************************************)
EXTENDS Sessions

\* DefaultUserCreationService.create.  A customer stands for an e-mail
\* address, which the users table keeps unique.
InsertUser(w) ==
  LET u == req[w].customer
  IN  /\ At(w, "create_user", "insertUser")
      /\ users' = users \cup {u}
      /\ Reply(w, IF u \in users THEN Error("USER_ALREADY_EXISTS")
                                 ELSE Success(None, FALSE))
      /\ UNCHANGED <<orders, coupons, locks, now, client, instance, saved>>

\* Broken: save() instead of create() replaces the coupon of the same code.
UpsertCoupon(w) ==
  /\ At(w, "create_coupon", "insertCoupon")
  /\ coupons' = [coupons EXCEPT ![req[w].code] = req[w].row]
  /\ Reply(w, Success(remaining(req[w].row), FALSE))
  /\ UNCHANGED <<users, orders, locks, now, client, instance, saved>>

\* DefaultCouponCreationService.create.
InsertCoupon(w) ==
  LET c == req[w].code
  IN  /\ At(w, "create_coupon", "insertCoupon")
      /\ \/ /\ coupons[c] # None
            /\ Reply(w, Error("COUPON_ALREADY_EXISTS"))
            /\ UNCHANGED coupons
         \/ /\ coupons[c] = None
            /\ coupons' = [coupons EXCEPT ![c] = req[w].row]
            /\ Reply(w, Success(remaining(req[w].row), FALSE))
      /\ UNCHANGED <<users, orders, locks, now, client, instance, saved>>

\* DefaultOrderCreationService.create asks first whether the customer exists,
\* in a statement of its own.
CheckUser(w) ==
  /\ At(w, "create_order", "checkUser")
  /\ \/ /\ req[w].customer \notin users
        /\ Reply(w, Error("USER_NOT_FOUND"))
     \/ /\ req[w].customer \in users
        /\ Goto(w, "insertOrder")
        /\ UNCHANGED resp
  /\ UNCHANGED <<tables, locks, now, client, instance, saved>>

\* Broken: save() instead of create() replaces a row with the same key.
UpsertOrder(w) ==
  /\ At(w, "create_order", "insertOrder")
  /\ orders' = [orders EXCEPT ![req[w].order] = NewOrder(req[w].customer)]
  /\ Reply(w, Success(None, FALSE))
  /\ UNCHANGED <<users, coupons, locks, now, client, instance, saved>>

\* The INSERT: the order id is the primary key.
InsertOrder(w) ==
  LET o == req[w].order
  IN  /\ At(w, "create_order", "insertOrder")
      /\ \/ /\ orders[o] # None
            /\ Reply(w, Error("ORDER_ALREADY_EXISTS"))
            /\ UNCHANGED orders
         \/ /\ orders[o] = None
            /\ orders' = [orders EXCEPT ![o] = NewOrder(req[w].customer)]
            /\ Reply(w, Success(None, FALSE))
      /\ UNCHANGED <<users, coupons, locks, now, client, instance, saved>>

SeedingStep(w) ==
  InsertUser(w) \/ InsertCoupon(w) \/ CheckUser(w) \/ InsertOrder(w)
=============================================================================
