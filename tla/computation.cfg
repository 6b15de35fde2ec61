SPECIFICATION Spec
CONSTANTS
  Strategies <- AllStrategies
  Readings <- AllReadings
  Period <- SmallPeriods
  BuyThread = 30
  SellThread = 70
  MaxCandles = 6
  Markets <- AllMarkets
  NumRankings <- Configured
  Nil = Nil
  MaxOptimizers = 1
  TenkanN = 2
  KijunN = 3
  SenkouN = 5
  PastPeriod = 7
  MaxPrice = 3
  Step = 4
  MinSize = 8
  Collaterals <- Accounts
  UsePercent = 1
  Asks <- Quotes
  MaxPos = 60
  MaxFaults = 3
INVARIANTS
  GateNeverRefuses
  OneTradePerCandle
  ProfitIsRealized
  ChoiceIsBest
  LinesAsDefined
  OrderIsCovered
  PositionIsTradable
PROPERTIES
  PastKept
  ClosedFlat
