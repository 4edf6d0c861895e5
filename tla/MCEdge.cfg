\* ProtocolValidator, DpiEngine, IngressFilter, DistributedRateLimiter and
\* BotDetector, one at a time.  Limits are 1 or 2, so that three packets or three
\* requests go past them; a second is two ticks; times of a bot are in 10 ms.
CONSTANTS
  t1 = t1
  t2 = t2
  a = a
  a1 = a1
  a2 = a2
  c1 = c1
  c2 = c2
  ipKey = ipKey
  globKey = globKey
  scopedKey = scopedKey
  MaxHeadersCount = 128
  HighHeaderCount = 2
  EnabledCategories = {}
  CustomPatterns = {}
  Heads <- MCHeads
  TextsSent <- MCTexts
  Tasks = {t1, t2}
  Ips = {a}
  Keys = {a1, a2}
  Source <- MCSource
  HostRange <- MCHostRange
  BlockRanges = {}
  Packets <- MCPackets
  SynThreshold = 1
  SynWindow = 2
  ConnectionLimit = 1
  Expiry = 2
  CleanupInterval = 2
  IngressHorizon = 2
  MaxPackets = 3
  MaxBlocks = 1
  MaxRegisters = 1
  NoConnection = NoConnection
  NoStats = NoStats
  NoPacket = NoPacket
  Callers = {c1, c2}
  Requests <- MCRequests
  BucketKeys = {ipKey, globKey, scopedKey}
  KeyPrefix <- MCKeyPrefix
  ScopedKeys = {scopedKey}
  PerIpLimit = 2
  PerSessionLimit = 1
  PerEndpointLimit = 1
  DefaultRps = 1
  Thresholds = {2}
  TicksPerSecond = 2
  EvictAfter = 2
  SweepInterval = 2
  LimiterHorizon = 2
  MaxRequests = 3
  MaxGifts = 1
  NoBucket = NoBucket
  NoCall = NoCall
  UserAgents <- MCUserAgents
  HeaderSets <- MCHeaderSets
  Sessions = {1}
  Cookies = {1, 2, 3}
  CookieLimit = 2
  CookieDrain = 1
  Questions <- MCQuestions
  WordSize = 256
  ChallengeTtl = 8
  VelocityWindow = 1000
  ManySamples = 3
  SomeSamples = 50
  FewSamples = 20
  Pauses = {8, 9}
  BotHorizon = 17
  MaxScored = 3
  MaxChallenges = 1
  Recorders = {t1, t2}
  Samples <- MCSamples
  Probes = {0, 10, 11, 33, 40}
  WindowSize = 6
  Alpha = 1
  AlphaUnit = 2
  AnomalyThreshold = 85
  MaxRecorded = 7
  NoSample = NoSample
SYMMETRY MCSymmetry
SPECIFICATION EdgeSpec
INVARIANTS
  AcceptedFraming
  EntryPointsAgree
  DecodesWhatWasSent
  SynBudget
  TableWithinLimit
  BucketBudget
  NamedBotsFound
  ChallengeAnswered
  OutliersReported
PROPERTIES
  CreditConserved
\* Packets, requests and time are used up in the end.
CHECK_DEADLOCK FALSE
