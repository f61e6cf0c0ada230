SPECIFICATION FairSpec
CONSTANTS
  MaxAttempts = 2
  MaxTurns = 5
INVARIANTS
  BouncesBounded
  ConflictOutlivesOnlyGivenUp
PROPERTIES
  EveryMessageAnswered
CHECK_DEADLOCK FALSE
