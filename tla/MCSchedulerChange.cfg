SPECIFICATION FairSpec
CONSTANTS
  Endpoints = {e1}
  Workers = {w1}
  Intervals = {1, 2}
  NULL = NULL
  LEASE = 2
  LOAD_BUDGET = 0
  PROBE_MAX = 1
  LEASE_SLACK = 0
  GRACE = 1
  JITTER_MAX = 1
  BATCH_SIZE = 1
  CONCURRENCY = 1
  WRITE_ATTEMPTS = 1
  BACKOFF = 0
  MAX_TIME = 3
  MAX_FAULTS = 1
  MAX_STOPS = 1
  MAX_EDITS = 1
PROPERTIES
  DueSlotClaimed IntervalTakesEffect
INVARIANTS
  BacklogNotReplayed
