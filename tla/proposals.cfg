SPECIFICATION Spec
CONSTANTS
  Nothing = Nothing
  Proposals = {p1, p2}
  Codes = {c1, c2}
  Items = {1, 2, 3}
  Executors = {e1, e2}
  Operators = {o1}
INVARIANTS
  AppliedAsAWhole
PROPERTIES
  RegisteredOnce
  SeriesComeWithTheirProposal
SYMMETRY ItemSymmetry
CHECK_DEADLOCK FALSE
