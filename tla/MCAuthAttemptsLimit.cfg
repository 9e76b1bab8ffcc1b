SPECIFICATION Spec
CONSTANTS
  Requests = {r1, r2, r3, r4}
  Ips = {i1, i2}
  Emails = {e1}
  NULL = NULL
  WINDOW = 1
  RETENTION = 2
  MAX_PER_IP = 2
  MAX_REGISTRATIONS = 1
  MAX_FAILURES = 1
  DELAY = 1
  MAX_TIME = 3
SYMMETRY Symmetric
INVARIANTS
  WithinLimits
