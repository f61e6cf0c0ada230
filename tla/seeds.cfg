SPECIFICATION Spec
CONSTANTS
  Runs = {r1, r2}
  Modes <- MCModes
  Before = Before
  NoRow = NoRow
  MaxRoutes = 2
INVARIANTS
  SharedTargetSerializes
PROPERTIES
  NoTargetEmptied
  EveryRunEnds
CHECK_DEADLOCK FALSE
