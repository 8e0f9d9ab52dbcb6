------------------------------- MODULE Pricing --------------------------------
(***************************************************************************)
(* redemption/pricing.py: the discount of an order, in exact decimal       *)
(* arithmetic.  A Decimal is the integer it denotes in its own smallest    *)
(* unit: an amount handed to the calculator is in tenths of a cent, so     *)
(* that its own rounding to the cent is not the identity; what it returns  *)
(* is in cents; a percentage is in hundredths, its column's two places.    *)
(*                                                                         *)
(* The machine below is a calculator that quotes one order after another.  *)
(***************************************************************************)
EXTENDS Integers

CONSTANTS Amounts,    \* the amounts callers may pass
          Percents,   \* the percentages coupons may have
          NoQuote

\* A hundred per cent; also the ten-thousandths of a cent in a cent.
Whole == 10000

\* order_amount_non_negative and coupon_discount_percent_range.
ASSUME PricingAssumption ==
  /\ Amounts \subseteq Nat
  /\ Percents \subseteq 1 .. Whole
  /\ NoQuote \notin Int

VARIABLES amount, percent, breakdown

pricingVars == <<amount, percent, breakdown>>

\* Broken: round half to even, Decimal's default.
HalfEven(n, d) ==
  LET q == n \div d
      r == 2 * (n % d)
  IN  IF r > d \/ (r = d /\ q % 2 = 1) THEN q + 1 ELSE q

\* Decimal.quantize with ROUND_HALF_UP of n/d, for n >= 0.
HalfUp(n, d) == (2 * n + d) \div (2 * d)

\* Broken: the percentage taken for a fraction.
FractionOff(amt, pct) ==
  LET original == HalfUp(amt, 10)
      discount == HalfUp(original * pct, 100)
  IN  [original_amount |-> original, discount_percent |-> pct,
       discount_amount |-> discount, final_amount |-> original - discount]

\* Broken: the discount rounded to ten cents.
CoarseOff(amt, pct) ==
  LET original == HalfUp(amt, 10)
      discount == 10 * HalfUp(original * pct, 10 * Whole)
  IN  [original_amount |-> original, discount_percent |-> pct,
       discount_amount |-> discount, final_amount |-> original - discount]

\* PercentageDiscountCalculator.apply.
apply(amt, pct) ==
  LET original == HalfUp(amt, 10)
      discount == HalfUp(original * pct, Whole)
  IN  [original_amount |-> original, discount_percent |-> pct,
       discount_amount |-> discount, final_amount |-> original - discount]

PricingInit ==
  /\ amount = NoQuote
  /\ percent = NoQuote
  /\ breakdown = NoQuote

\* _success asks for the breakdown of an order and its coupon.
Quote(amt, pct) ==
  /\ amount = NoQuote
  /\ amount' = amt
  /\ percent' = pct
  /\ breakdown' = apply(amt, pct)

\* The payload is built, and the next redemption asks.
Hand ==
  /\ amount # NoQuote
  /\ amount' = NoQuote
  /\ percent' = NoQuote
  /\ breakdown' = NoQuote

PricingNext ==
  \/ \E amt \in Amounts, pct \in Percents : Quote(amt, pct)
  \/ Hand

PricingSpec == PricingInit /\ [][PricingNext]_pricingVars

-----------------------------------------------------------------------------
\* What is paid and what is taken off are amounts of money: neither is
\* negative, together they are the order's amount, and a full discount leaves
\* nothing to pay (test_discount.py).
QuoteLegal ==
  breakdown # NoQuote =>
    /\ breakdown.discount_amount \in 0 .. breakdown.original_amount
    /\ breakdown.final_amount
         = breakdown.original_amount - breakdown.discount_amount
    /\ percent = Whole => breakdown.final_amount = 0

\* README "rounded ROUND_HALF_UP to two places", against the definition of
\* rounding instead of a way to do it: the discount is the whole number of
\* cents nearest to the exact one, and the larger of two equally near.
RoundsHalfUp ==
  breakdown # NoQuote =>
    LET exact == breakdown.original_amount * percent   \* 10000ths of a cent
        cents == Whole * breakdown.discount_amount
    IN  2 * (exact - cents) < Whole /\ 2 * (cents - exact) <= Whole

\* Rounding is fair across orders and coupons: a dearer order is never the
\* cheaper one to pay, and a better coupon never takes off less.
FairQuotes ==
  breakdown # NoQuote =>
    /\ \A amt \in Amounts : amt >= amount =>
         apply(amt, percent).final_amount >= breakdown.final_amount
    /\ \A pct \in Percents : pct >= percent =>
         apply(amount, pct).discount_amount >= breakdown.discount_amount
=============================================================================
