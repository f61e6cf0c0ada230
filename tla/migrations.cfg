SPECIFICATION MigrationSpec
CONSTANTS
  Feeds = {f1}
  Sources = {s1, s2}
  Codes = {c1}
  Runs = {r1}
  None = None
  Written <- Values
  MaxStores = 2
INVARIANTS
  SchemaOfRevision
  ProvenanceNeverWrong
  BlockedOnlyByRows
