------------------------------ MODULE MCLoadTest ------------------------------
(***************************************************************************)
(* Instance of LoadTest for TLC: three contenders for one slot, from two   *)
(* threads, against three workers.                                         *)
(***************************************************************************)
EXTENDS LoadTest, MCCoupons

CONSTANT u3

ThreeCustomers == {u1, u2, u3}
MadeCustomers  == <<u1, u2, u3>>
MadeOrders     == <<o1, o2, o3>>
=============================================================================
