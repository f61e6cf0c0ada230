SPECIFICATION FairPresetSpec
CONSTANTS
  i1 = i1
  i2 = i2
  t1 = t1
  a = a
  b = b
  s = s
  Series = {s}
  Periods = {1, 2, 3}
  Vintages = {1, 2}
  Values = {a, b}
  Attempts <- MCAttempts
  NoRow = NoRow
  NoLane = NoLane
  Imports = {i1, i2}
  Triggers = {t1}
  DayOf <- MCDayOf
  Earlier = {i1}
  NotServed = NotServed
  Default = Default
  Overlap = 1
  Overrides = {2}
  Posts <- MCPosts
  MaxReleases = 1
  MaxWrites = 1
CHECK_DEADLOCK FALSE
INVARIANTS
  TypeOK
  CurrentUnlessBehind
PROPERTIES
  ResetIsAllOrNothing
  ResetEnds
