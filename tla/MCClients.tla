------------------------------ MODULE MCClients -------------------------------
(***************************************************************************)
(* Instance of Clients for TLC: two clients want different coupons on one  *)
(* order, and a third wants that order cancelled.                          *)
(***************************************************************************)
EXTENDS Clients, MCCoupons

CONSTANTS k1, k2, k3

Redeem(c, o) == [op |-> "redeem", code |-> c, customer |-> Owner[o], order |-> o]

Wishes == k1 :> Redeem(c1, o1) @@ k2 :> Redeem(c2, o1)
            @@ k3 :> [op |-> "cancel", order |-> o1]

WishedRequests == {Wishes[c] : c \in Clients}
ThreeClients   == {k1, k2, k3}
=============================================================================
