\* Two requests at once are enough, after a first one.
CONSTANTS
  Requests = {r1, r2, r3}
  Paths = {p1}
  MaxSequence = 2
  MaxHistory = 2
  Drained = 1
  NoRequest = NoRequest
  NoPath = NoPath
SPECIFICATION Spec
PROPERTIES
  RequestsAnswered
CHECK_DEADLOCK FALSE
