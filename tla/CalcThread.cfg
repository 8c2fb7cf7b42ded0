SPECIFICATION FairSpec
CONSTANTS
  Client = {c1}
  Udp = TRUE
  CALLS = 3
  OPS = {0, 3}
  ARGS1 = {6}
  ARGS2 = {2}
INVARIANTS
  DataOutlivesThread
  PrintsItsAnswer
PROPERTIES
  RoutineReturns
