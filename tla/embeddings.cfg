SPECIFICATION Spec
CONSTANTS
  series = series
  concept = concept
  geography = geography
  subdomain = subdomain
  None = None
  Keep = Keep
  Current = new
  OldModels = {old}
  Names = {x, y}
  Jobs = {j1, j2}
  Rows = {series, concept}
  TableOf <- OneOfEach
  Contexts = {geography, subdomain}
  ContextOf <- TheirContexts
  MaxEdits = 2
INVARIANTS
  StalenessDetectableUnlessBlind
PROPERTIES
  BackfillRepairs
SYMMETRY EmbeddingSymmetry
CHECK_DEADLOCK FALSE
