SPECIFICATION PaperSpec
CONSTANTS
  Continue = FALSE
  Prices = {1, 3}
  Bands = {2}
  Gap = 1
  Minute = 2
  Period = 4
  Hour = 4
  ExpirePolls = 2
  MaxTime = 13
  MaxFaults = 1
  MaxCrashes = 1
INVARIANTS
  PaperRoundTrips
