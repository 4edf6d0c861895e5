\* Three tasks over three 5-tuples and a limit of two: two tasks can pass the
\* unlocked check for the last slot, and a tuple can come back while its first
\* task has still to call remove.
CONSTANTS
  Tasks = {t1, t2, t3}
  Tuples = {c1, c2, c3}
  MaxConnections = 2
  NoTask = NoTask
  NoTuple = NoTuple
SPECIFICATION ServerSpec
INVARIANTS
  ServerTypeOK
  CountMatchesActive
  NoLeakedSlot
PROPERTIES
  ImplementsAdmission
  TasksEnd
\* A server whose tasks are all blocked for ever takes no step but the loop's;
\* the loop itself never stops.
CHECK_DEADLOCK FALSE
