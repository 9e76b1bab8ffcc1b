SPECIFICATION Spec
CONSTANTS
  NULL = NULL
  INVALID = INVALID
  Literal <- MCLiteral
  BLOCKED_PORTS = {25}
  Json <- MCJson
  JsonValues <- MCJsonValues
  Urls <- MCUrls
  Origin <- MCOrigin
  Methods = {"POST", "HEAD"}
  TIMEOUT = 2
  FLOOR = 1
  MAX_REDIRECTS = 1
  CAP = 2
  Answers <- MCAnswers
  Statuses = {200, 302, 303}
  Expected <- MCExpected
  Assertions <- MCAssertions
  Bodies <- MCBodies
  SocketCodes <- MCSocketCodes
  VerifyCodes = {"CERT_HAS_EXPIRED"}
  MAX_TIME = 4
INVARIANTS
  EarlierPhaseNotReadAsLater
CHECK_DEADLOCK FALSE
