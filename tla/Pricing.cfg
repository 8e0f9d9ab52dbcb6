SPECIFICATION PricingSpec
CONSTANTS
  NoQuote = NoQuote
  Amounts <- SmallAmounts
  Percents <- SomePercents
INVARIANTS
  QuoteLegal
  RoundsHalfUp
  FairQuotes
