------------------------------ MODULE Policies ------------------------------
(***************************************************************************)
(* The redemption rules of redemption/policies: one predicate per rule,    *)
(* and the ordered rule set of each coupon type.                           *)
(***************************************************************************)
EXTENDS Schema, Sequences

Rules == {"expiry", "single_use", "capacity"}

\* Broken: the cap is checked before the per-customer rule.
CapBeforeCustomer(type) ==
  IF type = "STANDARD" THEN <<"expiry", "capacity", "single_use">>
                       ELSE <<"expiry", "capacity">>

\* Broken: the expiry rule is not registered.
WithoutExpiry(type) ==
  IF type = "STANDARD" THEN <<"single_use", "capacity">> ELSE <<"capacity">>

\* PolicyRegistry: the rules of a type in the order they are enforced; the
\* first that refuses is the one reported.
for_type(type) ==
  IF type = "STANDARD" THEN <<"expiry", "single_use", "capacity">>
                       ELSE <<"expiry", "capacity">>

\* The error each rule raises.
PolicyError == [expiry     |-> "COUPON_EXPIRED",
                single_use |-> "CUSTOMER_ALREADY_REDEEMED",
                capacity   |-> "COUPON_EXHAUSTED"]

\* ExpiryPolicy: the instant expires_at itself is still allowed.
Expired(cpn, instant) == instant > cpn.expires_at

\* SingleUsePerCustomerPolicy: the customer holds the coupon on a live order.
AlreadyUsed(cpn, customer, table) ==
  \E o \in Orders : Active(table[o], cpn.code) /\ table[o].user = customer

\* CapacityPolicy.
Exhausted(cpn) == cpn.redeemed_count >= cpn.max_redemptions

\* Does a rule refuse customer the coupon, given the orders it can see and
\* the instant it reads from the clock?
Refuses(policy, cpn, customer, table, instant) ==
  \/ policy = "expiry" /\ Expired(cpn, instant)
  \/ policy = "single_use" /\ AlreadyUsed(cpn, customer, table)
  \/ policy = "capacity" /\ Exhausted(cpn)
=============================================================================
