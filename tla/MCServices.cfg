\* QuicHandler, ThreatIntel, SecretManager and AuditLogger, one at a time: two
\* handshakes at once of three connections, two workers for two checks, a task that
\* changes the feeds and an update, two threads that call four times, two loggers
\* over two days, of which the fourth event can be given a number a second time.
CONSTANTS
  k1 = k1
  k2 = k2
  v1 = v1
  v2 = v2
  s1 = s1
  d1 = d1
  p1 = p1
  f1 = f1
  n1 = n1
  n2 = n2
  MaxIncoming = 3
  MaxHandshakes = 2
  MaxTracked = 2
  Addresses = {v1, v2}
  Feeds = {f1}
  Subjects = {s1, d1}
  Parent <- MCParent
  Documents <- MCDocuments
  UrlScheme <- MCUrlScheme
  Checkers = {k1, k2}
  Writers = {v1}
  Workers = 2
  CacheTtl = 1
  RuleThreshold = 60
  MaxRules = 1
  RulesDrained = 1
  ThreatHorizon = 2
  MaxChecks = 2
  MaxUpdates = 2
  MaxFeedChanges = 2
  NoFeed = NoFeed
  NoScore = NoScore
  NoCheck = NoCheck
  NoWrite = NoWrite
  NoEntry = NoEntry
  Unparsed = Unparsed
  Threads = {k1, k2}
  Names = {n1, n2}
  InEnvironment = {n1}
  MaxCalls = 4
  NoSecret = NoSecret
  l1 = l1
  l2 = l2
  Loggers = {l1, l2}
  RetentionDays = 1
  MaxLines = 1
  MaxDay = 1
  MaxEvents = 4
  MaxFailures = 2
  NoFile = NoFile
SPECIFICATION ServicesSpec
INVARIANTS
  EventsKept
  NumbersUnique
  HandshakesCounted
  AnswersFresh
  SecretsReadable
  MasterIsLatest
PROPERTIES
  CloseDrains
  UpdateEnds
  CallsEnd
\* Connections, checks, calls and days are used up in the end.
CHECK_DEADLOCK FALSE
