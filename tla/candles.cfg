SPECIFICATION Spec
CONSTANTS
  Durations = {2, 4}
  Prices <- HalfPrices
  Stored <- RoundedPrices
  MaxTime = 5
  MaxTicks = 4
  MaxFaults = 1
INVARIANTS
  TypeOK
  NothingInvented
  ExactWithoutLoss
PROPERTIES
  FinishedCandlesKept
