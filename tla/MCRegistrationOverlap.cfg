SPECIFICATION Spec
CONSTANTS
  Requests = {r1, r2, r3}
  Seed = Seed
  NULL = NULL
  o1 = o1
  o2 = o2
  p1 = p1
  p2 = p2
  n1 = n1
  n2 = n2
  SEED_ORIGIN = o1
  SEED_PATH = p1
  SEED_NAME = n1
  Origins = {o1, o2}
  Paths = {p1, p2}
  Names = {n1, n2}
  Calls <- AllCalls
  Intervals = {2, 3}
  Timeouts = {1, 2}
  DEFAULT_INTERVAL = 3
  DEFAULT_TIMEOUT = 1
  QUOTA = 2
SYMMETRY Symmetric
INVARIANTS
  BoundsKept StoredWhole DeadlocksKnown
PROPERTIES
  KeptSecretCurrent OnlyAskedFields
