\* The server as it is, with the drain its loop would enter if it were woken.
CONSTANTS
  Tasks = {t1, t2}
  Tuples = {c1, c2}
  MaxConnections = 2
  NoTask = NoTask
  NoTuple = NoTuple
SPECIFICATION DrainSpec
PROPERTIES
  SignalStartsDrain
CHECK_DEADLOCK FALSE
