\* One request at a time; a session that may make fewer requests than the server
\* takes, as in the defaults of 100 and 1000, and the code's burst of five.
CONSTANTS
  Tasks = {t1}
  Ips = {ip1}
  Sessions = {s1}
  Endpoints = {}
  Global = Global
  Operated = {}
  DefaultRps = 4
  PerIpLimit = 4
  PerSessionLimit = 1
  PerEndpointLimit = 1
  BurstMultiplier = 5
  TicksPerSecond = 1
  MaxClock = 2
  MaxGift = 0
  None = None
  NoBucket = NoBucket
SPECIFICATION Spec
PROPERTIES
  RefundNeverTakes
