\* Two connections of one client, three requests: enough for a block imposed by
\* one request to meet the other one in flight, and for the bucket to run dry.
\* A threshold of 1 lets three distinct reasons block.
CONSTANTS
  Connections = {c1, c2}
  Ips = {ip1}
  Bodies <- MCBodies
  Scores <- MCScores
  EnabledCategories <- MCCategories
  CustomPatterns = {1}
  MaxHeadersCount = 128
  HighHeaderCount = 2
  PerIpLimit = 1
  BurstMultiplier = 2
  Global = Global
  MaxEscalation = 4
  Threshold = 1
  Window = 1
  BlockSeconds = 3
  Lag = 0
  MaxRecent = 1
  MaxNow = 1
  Paths = {p1}
  MaxSequence = 1
  MaxHistory = 1
  Drained = 1
  NoPath = NoPath
  MaxRequests = 3
  NoBucket = NoBucket
  NoState = NoState
  NotBlocked = NotBlocked
  NoRequest = NoRequest
SPECIFICATION PipelineSpec
INVARIANTS
  ServedWithinRate
PROPERTIES
  BlockReachesAll
  AnsweredOrAborted
\* It stops when the process has aborted or the requests are used up.
CHECK_DEADLOCK FALSE
