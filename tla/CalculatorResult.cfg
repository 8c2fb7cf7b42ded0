SPECIFICATION Spec
CONSTANTS
  Client = {1, 2}
  NUM_THREADS = 2
  CALLS = 1
  Udp = TRUE
  OPS = {0, 1, 2, 3}
  ARGS1 = {6}
  ARGS2 = {2}
INVARIANTS
  ResultIsOwn
