SPECIFICATION Spec
CONSTANTS
  r1 = r1
  r2 = r2
  r3 = r3
  f1 = f1
  f2 = f2
  home = home
  other = other
  google = google
  github = github
  Addresses = {home, other}
  Home = home
  Identities = {google, github}
  ProviderOf <- MCProviderOf
  Requests = {r1, r2, r3}
  FirstSessions = {s0}
  Flows = {f1, f2}
  NULL = NULL
  MAX_SESSIONS = 2
  MAX_CHANGES = 1
  MAX_FAULTS = 1
SYMMETRY Symmetric
INVARIANTS
  AccountsInv LinkedSessionRevoked SessionsCapped
PROPERTIES
  NotTakenByOneself IdentityRowsKept
