SPECIFICATION Spec
CONSTANTS
  NULL = NULL
  INVALID = INVALID
  Literal <- MCLiteral
  BLOCKED_PORTS = {25}
  Json <- MCJson
  JsonValues <- MCJsonValues
  Urls <- MCUrls
  Origin <- MCOrigin
  Methods = {"POST", "DELETE", "HEAD"}
  TIMEOUT = 2
  FLOOR = 1
  MAX_REDIRECTS = 2
  CAP = 2
  Answers <- MCAnswers
  Statuses = {200, 302, 303}
  Expected <- MCExpected
  Assertions <- MCAssertions
  Bodies <- MCBodies
  SocketCodes <- MCSocketCodes
  VerifyCodes = {"CERT_HAS_EXPIRED"}
  MAX_TIME = 4
INVARIANTS
  OnlyValidatedPeers ChainKeepsRules SocketsEndWithProbe ReportOfFinalHop VerdictOfBody OutagesCounted
PROPERTIES
  EveryProbeEnds
CHECK_DEADLOCK FALSE
