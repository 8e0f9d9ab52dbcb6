----------------------------- MODULE MCPricing ------------------------------
(***************************************************************************)
(* Instance of Pricing for TLC: every amount up to 13 cents in tenths of a *)
(* cent and some dearer ones around a rounding boundary, against whole,    *)
(* fractional and extreme percentages, among them exact halves of a cent.  *)
(***************************************************************************)
EXTENDS Pricing

SmallAmounts == 0 .. 130 \cup 990 .. 1010 \cup 99985 .. 99995
SomePercents ==
  {1, 49, 50, 51, 750, 1500, 2500, 3333, 5000, 6667, 7500, 9999, 10000}
=============================================================================
