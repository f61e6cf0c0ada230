SPECIFICATION FairOnboardingSpec
CONSTANTS
  Providers = {p1}
  EnumPaths = {e1}
  EnumSeams = TRUE
  UniqueChecker = TRUE
  RuntimeDir = TRUE
  ReviewCap = 2
  RecursionLimit = 15
  CostCap = 3
  MaxMessages = 2
  MaxDrafts = 2
  Aborted = aborted
CHECK_DEADLOCK FALSE
INVARIANTS
  ReviewedAsApproved
  PackagesHaveARun
PROPERTIES
  ImplementsGatedApproval
  EveryMessageEnds
