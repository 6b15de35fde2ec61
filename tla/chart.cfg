SPECIFICATION FairSpec
CONSTANTS
  Durations = {1, 2}
  Buttons = {1}
  Visits <- MCVisits
  Period <- MCPeriod
  Limit = 2
  Nil = Nil
INVARIANTS
  AnswerIsCoherent
  MarkersInPlace
PROPERTIES
  ChartSettles
