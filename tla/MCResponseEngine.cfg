\* The code's threshold of 3; a window of one tick and a block of three keep the
\* order of 300 s and 3600 s, and the clock lets a block end and a second begin.
CONSTANTS
  Ips = {ip1}
  Contexts <- MCContexts
  MaxEscalation = 4
  Threshold = 3
  Window = 1
  BlockSeconds = 3
  Lag = 1
  MaxRecent = 2
  MaxNow = 7
  NoState = NoState
  NotBlocked = NotBlocked
SPECIFICATION Spec
INVARIANTS
  TypeOK
  BlockAtTopLevel
  SpentViolations
  ViolationsRaiseLevel
PROPERTIES
  BlockStands
  BlocksAreEarned
