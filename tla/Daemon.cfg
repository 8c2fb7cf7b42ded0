SPECIFICATION FairSpec
CONSTANTS
  Copies = {d1, d2, d3}
  Absent = Absent
  Empty = Empty
  MaxSignals = 2
INVARIANTS
  AtMostOneDaemon
  PidFileNamesTheDaemon
PROPERTIES
  OneDaemonEver
  DeafAfterTerm
  SomebodyServes
  TermStopsTheThread
