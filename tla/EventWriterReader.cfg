SPECIFICATION FairSpec
CONSTANTS
  ThreadCount = 3
  LETTERS = 1
  CHARS = 1
  LONG_MAX = 1
  ROUNDS = 2
  Watch = FALSE
INVARIANTS
  NobodyStalls
PROPERTIES
  FlagStops
