SPECIFICATION FairSpec
CONSTANTS
  Sub = 3
  Seconds = 3
  Minutes = 2
  Hours = 4
  ClosedHour <- Maintenance
  UploadSecond = 2
  Latency = 1
  CallTimes = {4, 12}
  MaxFaults = 2
INVARIANTS
  TwiceOnlyIfLate
  ClosedHourOnlyCloses
PROPERTIES
  MinuteServed
  OpeningsKeepComing
