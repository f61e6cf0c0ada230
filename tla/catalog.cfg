SPECIFICATION FairTreeSpec
CONSTANTS
  t = t
  u = u
  c1 = c1
  c2 = c2
  s1 = s1
  s2 = s2
  Nodes = {t, u, c1, c2}
  Series = {s1, s2}
  NoNode = NoNode
  Seeds <- MCSeeds
  Specs <- MCSpecs
  Bootstraps = {b1, b2}
  Requests = {r1}
  MaxWrites = 3
CHECK_DEADLOCK FALSE
INVARIANTS
  TopicSeriesOnlyByDemotion
PROPERTIES
  DeletionTakesOnlyTheNode
  MintedWithItsSeries
  BootstrapsCloseNoCycle
  EveryBootstrapEnds
