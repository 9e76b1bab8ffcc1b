SPECIFICATION FairSpec
CONSTANTS
  Results = {r1}
  Workers = {w1}
  NoWorker = NoWorker
  w1 = w1
  w2 = w2
  Order <- DaysAndMonths
  Kind <- MCKind
  Guard <- MCGuard
  Start <- WorkDays
  Keep <- WorkKeep
  LAST = 4
  AHEAD_DAYS = 3
  AHEAD_MONTHS = 1
  INTERVAL = 1
  LATE = 1
  PASS_TIME = 0
  MAX_TIME = 9
  MAX_MISSED = 1
  MAX_FAULTS = 1
  MAX_STOPS = 1
INVARIANTS
  PartitionAtHand
PROPERTIES
  ExpiredRetired
