---------------------------- MODULE PricingProofs -----------------------------
(***************************************************************************)
(* What a quote promises, for every amount and every percentage.           *)
(***************************************************************************)
EXTENDS Pricing, TLAPS

\* Rounding to the cent an amount in tenths of a cent: the nearest cent, the
\* upper one of two.
LEMMA RoundAmount ==
  ASSUME NEW n \in Nat
  PROVE  /\ HalfUp(n, 10) \in Nat
         /\ 20 * HalfUp(n, 10) <= 2 * n + 10
         /\ 2 * n + 10 < 20 * HalfUp(n, 10) + 20
  BY DEF HalfUp

\* Rounding a discount in ten-thousandths of a cent.
Nearest(n, c) ==
  /\ c \in Nat
  /\ 20000 * c <= 2 * n + 10000
  /\ 2 * n + 10000 < 20000 * c + 20000

\* quantize returns the nearest cent, the upper one of two.
LEMMA RoundDiscount ==
  ASSUME NEW n \in Nat
  PROVE  Nearest(n, HalfUp(n, Whole))
  BY DEF HalfUp, Nearest, Whole

\* A product of naturals is one, and grows with its factors.
LEMMA ProductMonotone ==
  ASSUME NEW a \in Nat, NEW b \in Nat, NEW c \in Nat, a <= b
  PROVE  a * c <= b * c /\ c * a <= c * b
  OBVIOUS

\* The prover is told so where it keeps a product folded.
LEMMA ProductNat ==
  ASSUME NEW a \in Nat, NEW b \in Nat
  PROVE  a * b \in Nat
  OBVIOUS

-----------------------------------------------------------------------------
\* The parts of a quote.
Original(amt) == HalfUp(amt, 10)
Exact(amt, pct) == Original(amt) * pct
Discount(amt, pct) == HalfUp(Exact(amt, pct), Whole)

\* What rounding says of the parts, with the product kept as a whole.
Rounded(amt, pct) ==
  /\ Original(amt) \in Nat
  /\ Exact(amt, pct) \in Nat
  /\ Exact(amt, pct) <= Whole * Original(amt)
  /\ Nearest(Exact(amt, pct), Discount(amt, pct))

\* The breakdown's fields are its parts.
LEMMA Parts ==
  ASSUME NEW amt \in Nat, NEW pct \in 1 .. Whole
  PROVE  /\ apply(amt, pct).original_amount = Original(amt)
         /\ apply(amt, pct).discount_amount = Discount(amt, pct)
         /\ apply(amt, pct).final_amount
              = Original(amt) - Discount(amt, pct)
  BY DEF apply, Original, Exact, Discount

\* Every quote is rounded like that.
LEMMA PartsRounded ==
  ASSUME NEW amt \in Nat, NEW pct \in 1 .. Whole
  PROVE  Rounded(amt, pct)
<1>1. Original(amt) \in Nat
  BY RoundAmount DEF Original
<1>2. pct \in Nat /\ Whole \in Nat /\ pct <= Whole
  BY DEF Whole
<1>3. Original(amt) * pct \in Nat /\ Original(amt) * pct <= Original(amt) * Whole
  <2> DEFINE x == Original(amt)
  <2>1. x \in Nat
    BY <1>1
  <2> HIDE DEF x
  <2>2. x * pct \in Nat
    BY <2>1, <1>2, ProductNat
  <2>3. x * pct <= x * Whole
    BY <2>1, <1>2, ProductMonotone
  <2> QED
    BY <2>2, <2>3 DEF x
<1>4. Exact(amt, pct) \in Nat /\ Exact(amt, pct) <= Whole * Original(amt)
  BY <1>1, <1>3 DEF Exact, Whole
<1>5. Nearest(Exact(amt, pct), HalfUp(Exact(amt, pct), Whole))
  BY <1>4, RoundDiscount, Zenon
<1> QED
  BY <1>1, <1>4, <1>5, Zenon DEF Discount, Rounded

\* No discount exceeds its order, and a full one equals it.
LEMMA DiscountWithin ==
  ASSUME NEW amt \in Nat, NEW pct \in 1 .. Whole
  PROVE  /\ Discount(amt, pct) \in 0 .. Original(amt)
         /\ pct = Whole => Discount(amt, pct) = Original(amt)
<1>0. Rounded(amt, pct)
  BY PartsRounded, Zenon
<1>1. Discount(amt, pct) <= Original(amt)
  BY <1>0 DEF Rounded, Nearest, Whole
<1>2. ASSUME pct = Whole
      PROVE  Discount(amt, pct) = Original(amt)
  <2>1. Exact(amt, pct) = Whole * Original(amt)
    BY <1>0, <1>2 DEF Exact, Rounded, Whole
  <2> QED
    BY <1>0, <2>1 DEF Rounded, Nearest, Whole
<1> QED
  BY <1>0, <1>1, <1>2 DEF Rounded, Nearest

\* A dearer order is rounded to no fewer cents, and its discount grows by no
\* more than the order does.
LEMMA DearerPays ==
  ASSUME NEW a \in Nat, NEW b \in Nat, NEW pct \in 1 .. Whole, a <= b
  PROVE  Original(a) - Discount(a, pct) <= Original(b) - Discount(b, pct)
<1>1. Original(a) \in Nat /\ Original(b) \in Nat /\ Original(a) <= Original(b)
  <2>1. Original(a) \in Nat /\ Original(b) \in Nat
    BY RoundAmount DEF Original
  <2>2. Original(a) <= Original(b)
    BY DEF Original, HalfUp
  <2> QED
    BY <2>1, <2>2
<1>2. Exact(b, pct) - Exact(a, pct) <= Whole * (Original(b) - Original(a))
  <2> DEFINE x == Original(a)
             y == Original(b)
             d == y - x
  <2>1. x \in Nat /\ y \in Nat /\ d \in Nat /\ pct \in Nat /\ pct <= Whole
    BY <1>1 DEF Whole
  <2>2. d * pct <= d * Whole
    <3> HIDE DEF d
    <3> QED
      BY <2>1, ProductMonotone DEF Whole
  <2>3. d * pct = y * pct - x * pct
    <3> HIDE DEF x, y
    <3> QED
      BY <2>1
  <2> QED
    BY <2>1, <2>2, <2>3 DEF Exact, Whole
<1>3. Rounded(a, pct) /\ Rounded(b, pct)
  BY PartsRounded, Zenon
<1>4. Discount(b, pct) - Discount(a, pct) <= Original(b) - Original(a)
  BY <1>1, <1>2, <1>3 DEF Rounded, Nearest, Whole
<1> QED
  BY <1>1, <1>3, <1>4 DEF Rounded, Nearest

\* A better coupon takes off no less.
LEMMA BetterSaves ==
  ASSUME NEW amt \in Nat, NEW p \in 1 .. Whole, NEW q \in 1 .. Whole, p <= q
  PROVE  Discount(amt, p) <= Discount(amt, q)
<1>0. Rounded(amt, p) /\ Rounded(amt, q)
  BY PartsRounded, Zenon
<1>1. Exact(amt, p) <= Exact(amt, q)
  <2> DEFINE x == Original(amt)
  <2>1. x \in Nat /\ p \in Nat /\ q \in Nat
    BY <1>0 DEF Rounded, Whole
  <2>2. x * p <= x * q
    <3> HIDE DEF x
    <3> QED
      BY <2>1, ProductMonotone
  <2> QED
    BY <2>2 DEF Exact
<1> QED
  BY <1>0, <1>1 DEF Rounded, Nearest

-----------------------------------------------------------------------------
\* The calculator holds no quote, or the one of its amount and percentage.
QuoteOK ==
  \/ amount = NoQuote /\ breakdown = NoQuote
  \/ /\ amount \in Amounts
     /\ percent \in Percents
     /\ breakdown = apply(amount, percent)

\* Every quote handed out is that of its order and its coupon.
LEMMA QuotesRight == PricingSpec => []QuoteOK
<1>1. PricingInit => QuoteOK
  BY DEF PricingInit, QuoteOK
<1>2. QuoteOK /\ [PricingNext]_pricingVars => QuoteOK'
  <2> SUFFICES ASSUME QuoteOK, [PricingNext]_pricingVars
               PROVE  QuoteOK'
    OBVIOUS
  <2>1. ASSUME NEW amt \in Amounts, NEW pct \in Percents, Quote(amt, pct)
        PROVE  QuoteOK'
    BY <2>1 DEF Quote, QuoteOK
  <2>2. CASE Hand
    BY <2>2 DEF Hand, QuoteOK
  <2>3. CASE UNCHANGED pricingVars
    BY <2>3 DEF pricingVars, QuoteOK
  <2> QED
    BY <2>1, <2>2, <2>3 DEF PricingNext
<1> QED
  BY <1>1, <1>2, PTL DEF PricingSpec

\* The parts of the quote in hand.
QuotedParts ==
  /\ amount \in Nat
  /\ percent \in 1 .. Whole
  /\ breakdown.original_amount = Original(amount)
  /\ breakdown.discount_amount = Discount(amount, percent)
  /\ breakdown.final_amount = Original(amount) - Discount(amount, percent)

\* A quote in hand has those parts.
LEMMA Quoted ==
  ASSUME QuoteOK, breakdown # NoQuote
  PROVE  QuotedParts
<1>1. /\ amount \in Amounts
      /\ percent \in Percents
      /\ breakdown = apply(amount, percent)
  BY DEF QuoteOK
<1>2. amount \in Nat /\ percent \in 1 .. Whole
  BY <1>1, PricingAssumption
<1>3. /\ apply(amount, percent).original_amount = Original(amount)
      /\ apply(amount, percent).discount_amount = Discount(amount, percent)
      /\ apply(amount, percent).final_amount
           = Original(amount) - Discount(amount, percent)
  BY <1>2, Parts, Zenon
<1> QED
  BY <1>1, <1>2, <1>3, Zenon DEF QuotedParts

\* Neither part of a quote is negative and they add up to the order's amount
\* (DiscountBreakdown in pricing.py), for any amount and percentage.
THEOREM LegalQuotes == PricingSpec => []QuoteLegal
<1>1. QuoteOK => QuoteLegal
  <2> SUFFICES ASSUME QuoteOK, breakdown # NoQuote
               PROVE  /\ breakdown.discount_amount
                           \in 0 .. breakdown.original_amount
                      /\ breakdown.final_amount
                           = breakdown.original_amount
                               - breakdown.discount_amount
                      /\ percent = Whole => breakdown.final_amount = 0
    BY DEF QuoteLegal
  <2>1. QuotedParts
    BY Quoted, Zenon
  <2>2. /\ Discount(amount, percent) \in 0 .. Original(amount)
        /\ percent = Whole => Discount(amount, percent) = Original(amount)
    BY <2>1, DiscountWithin, Zenon DEF QuotedParts
  <2>3. Rounded(amount, percent)
    BY <2>1, PartsRounded, Zenon DEF QuotedParts
  <2> QED
    BY <2>1, <2>2, <2>3 DEF QuotedParts, Rounded, Nearest
<1> QED
  BY <1>1, QuotesRight, PTL

\* The discount is the exact one rounded half up to the cent (quantize with
\* ROUND_HALF_UP in pricing.py), for any amount and percentage.
THEOREM RoundedQuotes == PricingSpec => []RoundsHalfUp
<1>1. QuoteOK => RoundsHalfUp
  <2> SUFFICES ASSUME QuoteOK, breakdown # NoQuote
               PROVE  LET exact == breakdown.original_amount * percent
                          cents == Whole * breakdown.discount_amount
                      IN  /\ 2 * (exact - cents) < Whole
                          /\ 2 * (cents - exact) <= Whole
    BY DEF RoundsHalfUp
  <2>1. QuotedParts
    BY Quoted, Zenon
  <2>2. breakdown.original_amount * percent = Exact(amount, percent)
    BY <2>1, Zenon DEF Exact, QuotedParts
  <2>4. Rounded(amount, percent)
    BY <2>1, PartsRounded, Zenon DEF QuotedParts
  <2>3. /\ 2 * (Exact(amount, percent) - Whole * Discount(amount, percent))
             < Whole
        /\ 2 * (Whole * Discount(amount, percent) - Exact(amount, percent))
             <= Whole
    BY <2>4 DEF Rounded, Nearest, Whole
  <2>5. breakdown.discount_amount = Discount(amount, percent)
    BY <2>1, Zenon DEF QuotedParts
  <2> QED
    BY <2>2, <2>3, <2>5, Zenon
<1> QED
  BY <1>1, QuotesRight, PTL

\* Rounding never makes a dearer order cheaper to pay nor a better coupon worth
\* less, for any two amounts and percentages.
THEOREM QuotesFair == PricingSpec => []FairQuotes
<1>1. QuoteOK => FairQuotes
  <2> SUFFICES ASSUME QuoteOK, breakdown # NoQuote
               PROVE  /\ \A amt \in Amounts : amt >= amount =>
                           apply(amt, percent).final_amount
                             >= breakdown.final_amount
                      /\ \A pct \in Percents : pct >= percent =>
                           apply(amount, pct).discount_amount
                             >= breakdown.discount_amount
    BY DEF FairQuotes
  <2>1. QuotedParts
    BY Quoted, Zenon
  <2>2. ASSUME NEW amt \in Amounts, amt >= amount
        PROVE  apply(amt, percent).final_amount >= breakdown.final_amount
    <3>1. amt \in Nat /\ amount <= amt /\ percent \in 1 .. Whole
      BY <2>1, <2>2, PricingAssumption DEF QuotedParts
    <3>2. Original(amount) - Discount(amount, percent)
            <= Original(amt) - Discount(amt, percent)
      BY <2>1, <3>1, DearerPays, Zenon DEF QuotedParts
    <3>3. apply(amt, percent).final_amount
            = Original(amt) - Discount(amt, percent)
      BY <3>1, Parts, Zenon
    <3>4. Rounded(amt, percent) /\ Rounded(amount, percent)
      BY <2>1, <3>1, PartsRounded, Zenon DEF QuotedParts
    <3> QED
      BY <2>1, <3>2, <3>3, <3>4 DEF QuotedParts, Rounded, Nearest
  <2>3. ASSUME NEW pct \in Percents, pct >= percent
        PROVE  apply(amount, pct).discount_amount >= breakdown.discount_amount
    <3>1. pct \in 1 .. Whole /\ percent <= pct
      BY <2>1, <2>3, PricingAssumption DEF QuotedParts
    <3>2. Discount(amount, percent) <= Discount(amount, pct)
      BY <2>1, <3>1, BetterSaves, Zenon DEF QuotedParts
    <3>3. apply(amount, pct).discount_amount = Discount(amount, pct)
      BY <2>1, <3>1, Parts, Zenon DEF QuotedParts
    <3>4. Rounded(amount, percent) /\ Rounded(amount, pct)
      BY <2>1, <3>1, PartsRounded, Zenon DEF QuotedParts
    <3> QED
      BY <2>1, <3>2, <3>3, <3>4 DEF QuotedParts, Rounded, Nearest
  <2> QED
    BY <2>2, <2>3
<1> QED
  BY <1>1, QuotesRight, PTL
=============================================================================
