\* Two checks at once over one IP, one session and one endpoint.  The burst cap
\* of twice the capacity is reached within the two seconds of the clock, and the
\* IP has a limit an adaptive threshold can lower.  The pipeline calls the
\* operations on one bucket for IPs only.
CONSTANTS
  Tasks = {t1, t2}
  Ips = {ip1}
  Sessions = {s1}
  Endpoints = {e1}
  Global = Global
  Operated = {ip1}
  DefaultRps = 1
  PerIpLimit = 2
  PerSessionLimit = 1
  PerEndpointLimit = 1
  BurstMultiplier = 2
  TicksPerSecond = 1
  MaxClock = 2
  MaxGift = 1
  None = None
  NoBucket = NoBucket
SPECIFICATION Spec
INVARIANTS
  TypeOK
  AdmittedWithinBudget
