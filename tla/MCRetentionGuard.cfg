SPECIFICATION Spec
CONSTANTS
  Results = {r1}
  Workers = {w1, w2}
  NoWorker = NoWorker
  w1 = w1
  w2 = w2
  Order <- RawAndMinutes
  Kind <- MCKind
  Guard <- MCGuard
  Start <- ShortDays
  Keep <- ShortKeep
  LAST = 4
  AHEAD_DAYS = 4
  AHEAD_MONTHS = 1
  INTERVAL = 2
  LATE = 1
  PASS_TIME = 1
  MAX_TIME = 4
  MAX_MISSED = 0
  MAX_FAULTS = 1
  MAX_STOPS = 1
SYMMETRY Symmetric
INVARIANTS
  RetentionInv
PROPERTIES
  RetentionHonoured RetiredUnderLock
