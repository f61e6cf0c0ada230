SPECIFICATION FairSpec
CONSTANTS
  s1 = s1
  s2 = s2
  a = a
  b = b
  NoRow = NoRow
  NoLog = NoLog
  NoVintage = NoVintage
  Series = {s1, s2}
  Values = {a, b}
  Periods = {1, 2}
  Vintages = {1}
  RunDates = {1}
  Runs = {r1, r2}
  Members <- TwoMembers
  SeriesOf <- OneSeriesEach
  Attempts <- AllAttempts
  ActiveSets <- AnyActive
  Outcomes <- LiveOutcomes
INVARIANTS
  NoCircularWait
PROPERTIES
  EveryRunEnds
CHECK_DEADLOCK FALSE
