SPECIFICATION FairSpec
CONSTANTS
  Published <- ThreeTickers
  Durations = {1, 2}
  Prices <- TwoPrices
  Stored <- SamePrices
  MaxFaults = 1
INVARIANTS
  ReceivedInOrder
  NothingSkipped
  CopyNotStale
PROPERTIES
  ImplementsCandles
  StreamGoesOn
