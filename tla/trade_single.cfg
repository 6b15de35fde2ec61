SPECIFICATION FairSpec
CONSTANTS
  Continue = FALSE
  Prices = {1, 5}
  Bands = {3}
  Gap = 1
  Minute = 1
  Period = 2
  Hour = 2
  ExpirePolls = 2
  MaxTime = 4
  MaxFaults = 1
  MaxCrashes = 1
INVARIANTS
  TypeOK
  FlagsMatchLedger
  LevelsInOrder
  NeverRefused
  NoPhantomRecord
PROPERTIES
  TradeReturns
