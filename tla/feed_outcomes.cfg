SPECIFICATION HistorySpec
CONSTANTS
  s1 = s1
  s2 = s2
  a = a
  b = b
  NoRow = NoRow
  NoLog = NoLog
  NoVintage = NoVintage
  Series = {s1}
  Values = {a, b}
  Periods = {1, 2}
  Vintages = {1, 2}
  RunDates = {1, 2}
  Runs = {r1, r2}
  Members <- TwoMembers
  SeriesOf <- SharedSeries
  Attempts <- AllAttempts
  ActiveSets <- AnyActive
  Outcomes <- MixedOutcomes
INVARIANTS
  ProvenanceSound
  AuditComplete
PROPERTIES
  ImplementsAuditedStore
  CountsAreReal
  UncontendedRunIsLatest
SYMMETRY RunSymmetry
CHECK_DEADLOCK FALSE
