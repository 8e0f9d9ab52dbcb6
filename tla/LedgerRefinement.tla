-------------------------- MODULE LedgerRefinement --------------------------
(***************************************************************************)
(* The service implements the ledger: the refinement mapping reads the     *)
(* committed tables only, and drops the stored counters.                   *)
(***************************************************************************)
EXTENDS CouponSystem

\* An order row as an entry of the ledger.
EntryOf(row) ==
  IF row = None THEN None
  ELSE [user |-> row.user, coupon |-> row.coupon,
        live |-> row.status = "PLACED"]

\* A coupon row without its counter and expiry.
TermsOf(row) ==
  IF row = None THEN None
  ELSE [type |-> row.type, cap |-> row.max_redemptions]

Ledger == INSTANCE CouponLedger WITH
  customers <- users,
  ledger    <- [o \in Orders |-> EntryOf(orders[o])],
  terms     <- [c \in Codes |-> TermsOf(coupons[c])]

\* An entry or the terms of a coupon are records, and None is not one.
ASSUME LedgerAssumption ==
  None \notin Ledger!Entry /\ None \notin Ledger!Terms

\* Every step of the service is one step of the ledger or changes nothing it
\* shows: a redemption takes effect as if its checks and its writes were one
\* indivisible action, whatever other workers do meanwhile.
ImplementsLedger == Ledger!Spec
=============================================================================
