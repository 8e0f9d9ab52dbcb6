-------------------------------- MODULE MCApi ---------------------------------
(***************************************************************************)
(* Instance of Api for TLC: a code in two spellings, a code that only its  *)
(* upper-case spelling makes too long, and the blank code; caps at and     *)
(* past both ends of their column; one order with every kind of key.       *)
(***************************************************************************)
EXTENDS Api, MCCoupons

CONSTANTS lower1, long2, short2, blank, id1, id2

Strings   == {c1, lower1, long2, short2, blank}
UpperCase == c1 :> c1 @@ lower1 :> c1 @@ long2 :> long2 @@ short2 :> long2
               @@ blank :> blank
Lengths   == c1 :> 2 @@ lower1 :> 2 @@ long2 :> 3 @@ short2 :> 2 @@ blank :> 0

OneCustomer == {u1}
Created     == o1 :> u1
TwoIds      == {id1, id2}
LongAddress == {u2}
NoAddress   == {}

BodyOK(cl) == cl.body = "valid"

\* A body that is not valid is tried once per endpoint that reads one.
MixedCalls ==
  {cl \in RedeemCall : BodyOK(cl) /\ cl.customer = u1 /\ cl.order = o1}
    \cup {[op |-> "redeem", body |-> b, code |-> c1, customer |-> u1,
           order |-> o1, key |-> None] : b \in Bodies}
    \cup {cl \in QueryCall : cl.code # blank} \cup {[op |-> "cancel",
           body |-> "valid", order |-> o1]}
    \cup [op : {"create_coupon"}, body : {"valid"}, code : Codes,
          type : {"STANDARD"}, max : {0, 1, 3}, expires : {0}]
    \cup [op : {"create_user"}, body : {"valid", "invalid"},
          customer : Customers]
    \cup [op : {"create_order"}, body : {"valid"}, customer : {u1},
          order : {o2}]

CleanRequests == {Clean(cl) : cl \in {k \in Calls : Accepted(k)}}
=============================================================================
