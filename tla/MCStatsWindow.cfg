SPECIFICATION Spec
CONSTANTS
  NULL = NULL
  HOUR = 2
  DAY = 4
  MONTH = 8
  LAST = 12
  Probes = {0, 3, 4, 6, 9, 11}
  Latency <- MCLatency
  Edges <- MCEdges
  MAX_PASSED = 1
INVARIANTS
  PlanAsNeeded PercentilesSound
PROPERTIES
  AnswerExact
