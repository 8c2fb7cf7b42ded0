SPECIFICATION Spec
CONSTANTS
  ThreadCount = 3
  LETTERS = 2
  CHARS = 3
  LONG_MAX = 1
  ROUNDS = 2
  Watch = TRUE
INVARIANTS
  AlphabetLeftByOverlap
  SignalInHand
