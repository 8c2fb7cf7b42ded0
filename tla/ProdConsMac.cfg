SPECIFICATION MacSpec
CONSTANTS
  IpcObjects = {"sem", "shm"}
  ChildCount = 3
  ELEMENTS = 2
  LETTERS = 3
INVARIANTS
  MacSlotAccounting
  MacOnlyDeathsBlock
  NamesFollowTheRun
PROPERTIES
  MacImplementsLetterQueue
