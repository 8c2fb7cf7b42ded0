SPECIFICATION FairSpec
CONSTANTS
  IpcObjects = {"sem", "shm"}
  ChildCount = 3
  ELEMENTS = 2
  LETTERS = 3
INVARIANTS
  TypeOK
  MutualExclusion
  SlotAccounting
  PointersInBounds
  OnlyDeathsBlock
  IpcOutlivesChildren
PROPERTIES
  KilledHolderFreezesBuffer
  ImplementsLetterQueue
  EventuallyCleanedUp
