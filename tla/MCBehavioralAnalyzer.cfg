\* Four requests over two paths: the sequence overflows at the third path, the
\* history at the third transition.
CONSTANTS
  Requests = {r1, r2, r3, r4}
  Paths = {p1, p2}
  MaxSequence = 2
  MaxHistory = 2
  Drained = 1
  NoRequest = NoRequest
  NoPath = NoPath
SPECIFICATION Spec
INVARIANTS
  TypeOK
  StepsAreCounted
  HistoryFollows
PROPERTIES
  RequestsPass
\* It stops when every request is done, and when the locks are held crosswise.
CHECK_DEADLOCK FALSE
