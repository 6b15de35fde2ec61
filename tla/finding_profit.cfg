SPECIFICATION Spec
CONSTANTS
  Continue = TRUE
  Prices = {1, 3}
  Bands = {2}
  Gap = 1
  Minute = 1
  Period = 2
  Hour = 4
  ExpirePolls = 2
  MaxTime = 7
  MaxFaults = 0
  MaxCrashes = 0
PROPERTIES
  NoReOpeningAfterProfit
