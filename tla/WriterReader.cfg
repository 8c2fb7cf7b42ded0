SPECIFICATION Spec
CONSTANTS
  IpcObjects = {"sem", "shm"}
  ChildCount = 4
  LETTERS = 3
INVARIANTS
  WriterExcludesAll
  CountersCount
  QueuesNeverHold
PROPERTIES
  KilledHolderShutsOut
  ImplementsLetterRegister
