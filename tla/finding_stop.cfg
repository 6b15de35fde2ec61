SPECIFICATION Spec
CONSTANTS
  Continue = TRUE
  Prices = {1, 3}
  Bands = {2}
  Gap = 1
  Minute = 2
  Period = 4
  Hour = 4
  ExpirePolls = 2
  MaxTime = 12
  MaxFaults = 0
  MaxCrashes = 0
PROPERTIES
  NoReOpenAfterStopLimit
