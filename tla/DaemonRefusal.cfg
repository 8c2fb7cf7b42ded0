SPECIFICATION Spec
CONSTANTS
  Copies = {d1, d2}
  Absent = Absent
  Empty = Empty
  MaxSignals = 3
PROPERTIES
  RefusalIsTruthful
