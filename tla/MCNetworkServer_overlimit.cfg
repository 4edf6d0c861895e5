\* Two tasks compete for the last slot.
CONSTANTS
  Tasks = {t1, t2}
  Tuples = {c1, c2}
  MaxConnections = 1
  NoTask = NoTask
  NoTuple = NoTuple
SPECIFICATION ServerSpec
PROPERTIES
  OverLimitAnswered
CHECK_DEADLOCK FALSE
