SPECIFICATION Spec
CONSTANTS
  Endpoints = {e1}
  Workers = {w1, w2}
  Intervals = {2}
  NULL = NULL
  LEASE = 2
  LOAD_BUDGET = 0
  PROBE_MAX = 1
  LEASE_SLACK = 1
  GRACE = 1
  JITTER_MAX = 0
  BATCH_SIZE = 1
  CONCURRENCY = 1
  WRITE_ATTEMPTS = 2
  BACKOFF = 1
  MAX_TIME = 4
  MAX_FAULTS = 1
  MAX_STOPS = 1
  MAX_EDITS = 0
SYMMETRY Symmetric
INVARIANTS
  LeaseCoversProbe NoConcurrentProbes OneResultPerSlot PoolWithinConcurrency StopComplete
PROPERTIES
  ObservedOnlyWithResult NoClaimAfterStop ImplementsLedger
CHECK_DEADLOCK FALSE
