SPECIFICATION FairSpec
CONSTANTS
  r1 = r1
  r2 = r2
  e1 = e1
  Results = {r1, r2}
  Workers = {w1, w2}
  Origin <- MCOrigin
  Grains = {"m1", "h1"}
  Width <- MCWidth
  WRITE_ATTEMPTS = 2
  BATCH_XIDS = 1
  MAX_FAULTS = 1
  MAX_STOPS = 1
INVARIANTS
  AggregatesExact
PROPERTIES
  EveryResultFolded ImplementsAggregate
