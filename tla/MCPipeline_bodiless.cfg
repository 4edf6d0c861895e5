\* One connection: a request without a body.
CONSTANTS
  Connections = {c1}
  Ips = {ip1}
  Bodies <- MCBodies
  Scores <- MCScores
  EnabledCategories <- MCCategories
  CustomPatterns = {1}
  MaxHeadersCount = 128
  HighHeaderCount = 2
  PerIpLimit = 1
  BurstMultiplier = 2
  Global = Global
  MaxEscalation = 4
  Threshold = 1
  Window = 1
  BlockSeconds = 3
  Lag = 0
  MaxRecent = 1
  MaxNow = 1
  Paths = {p1}
  MaxSequence = 1
  MaxHistory = 1
  Drained = 1
  NoPath = NoPath
  MaxRequests = 3
  NoBucket = NoBucket
  NoState = NoState
  NotBlocked = NotBlocked
  NoRequest = NoRequest
SPECIFICATION PipelineSpec
PROPERTIES
  BodilessNotMalformed
CHECK_DEADLOCK FALSE
