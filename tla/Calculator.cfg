SPECIFICATION FairSpec
CONSTANTS
  Client = {1, 2}
  NUM_THREADS = 2
  CALLS = 2
  Udp = TRUE
  OPS = {0, 3}
  ARGS1 = {6}
  ARGS2 = {2}
INVARIANTS
  LastWriterDecides
  AnswersFit
PROPERTIES
  ClientEnds
