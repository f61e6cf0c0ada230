SPECIFICATION HistorySpec
CONSTANTS
  s1 = s1
  s2 = s2
  a = a
  b = b
  NoRow = NoRow
  NoLog = NoLog
  NoVintage = NoVintage
  Series = {s1, s2}
  Values = {a, b}
  Periods = {1, 2}
  Vintages = {1, 2, 3}
  RunDates = {1, 2, 3}
  Runs = {r1, r2, r3}
  Members <- TwoMembers
  SeriesOf <- OneSeriesEach
  Attempts <- AllAttempts
  ActiveSets <- OneActive
  Outcomes <- SerialOutcomes
INVARIANTS
  PointInTime
  OnlyRevisionsStored
PROPERTIES
  RevisionsAppend
SYMMETRY RunSymmetry
CHECK_DEADLOCK FALSE
