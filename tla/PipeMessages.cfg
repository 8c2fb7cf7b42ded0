SPECIFICATION FairSpec
CONSTANTS
  FIRST = 6
  SECOND = 12
  GARBAGE = 13
INVARIANTS
  WholeUnlessOvertaken
  TwoReadsTakeAll
PROPERTIES
  EverybodyEnds
