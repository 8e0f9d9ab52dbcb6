---------------------------- MODULE CouponLedger ----------------------------
(***************************************************************************)
(* What the service promises, without workers, locks, transactions or      *)
(* counters: a ledger of orders, each carrying at most one coupon, and the *)
(* terms of the coupons.  Every operation is one indivisible step, and how *)
(* many slots of a coupon are taken is counted on the ledger itself.       *)
(***************************************************************************)
EXTENDS Integers, FiniteSets

CONSTANTS Customers, Orders, Codes, None

VARIABLES customers,   \* the registered customers
          ledger,      \* each order's owner, its coupon, and if it is live
          terms        \* each coupon's type and cap

Entry == [user : Customers, coupon : Codes \cup {None}, live : BOOLEAN]
Terms == [type : {"STANDARD", "STACKABLE"}, cap : Nat \ {0}]

\* The live orders that carry coupon c.
Carriers(c) ==
  {o \in Orders : /\ ledger[o] # None
                  /\ ledger[o].coupon = c
                  /\ ledger[o].live}

Init ==
  /\ customers \subseteq Customers
  /\ \A o \in Orders : ledger[o] # None =>
       /\ ledger[o] \in Entry
       /\ ledger[o].live
       /\ ledger[o].coupon = None
  /\ \A c \in Codes : terms[c] # None => terms[c] \in Terms

\* A customer registers.
Register(u) ==
  /\ customers' = customers \cup {u}
  /\ UNCHANGED <<ledger, terms>>

\* A coupon is issued, once, on whatever terms.
Issue(c) ==
  /\ terms[c] = None
  /\ terms'[c] \in Terms
  /\ terms' = [terms EXCEPT ![c] = terms'[c]]
  /\ UNCHANGED <<customers, ledger>>

\* A registered customer places an order.
Place(o, u) ==
  /\ u \in customers
  /\ ledger[o] = None
  /\ ledger' = [ledger EXCEPT ![o] = [user |-> u, coupon |-> None,
                                      live |-> TRUE]]
  /\ UNCHANGED <<customers, terms>>

\* A live order takes a coupon with a slot left, which its customer does not
\* already hold if it is STANDARD.
Redeem(o, c) ==
  /\ ledger[o] # None
  /\ ledger[o].live
  /\ ledger[o].coupon = None
  /\ terms[c] # None
  /\ Cardinality(Carriers(c)) < terms[c].cap
  /\ terms[c].type = "STANDARD" =>
       \A p \in Carriers(c) : ledger[p].user # ledger[o].user
  /\ ledger' = [ledger EXCEPT ![o].coupon = c]
  /\ UNCHANGED <<customers, terms>>

\* A live order is cancelled for good, which frees its slot.
Cancel(o) ==
  /\ ledger[o] # None
  /\ ledger[o].live
  /\ ledger' = [ledger EXCEPT ![o].live = FALSE]
  /\ UNCHANGED <<customers, terms>>

Next ==
  \/ \E u \in Customers : Register(u)
  \/ \E c \in Codes : Issue(c)
  \/ \E o \in Orders, u \in Customers : Place(o, u)
  \/ \E o \in Orders, c \in Codes : Redeem(o, c)
  \/ \E o \in Orders : Cancel(o)

Spec == Init /\ [][Next]_<<customers, ledger, terms>>
=============================================================================
