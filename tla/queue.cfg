SPECIFICATION NotingFairSpec
CONSTANTS
  j1 = j1
  j2 = j2
  j3 = j3
  w1 = w1
  w2 = w2
  Jobs = {j1, j2, j3}
  Workers = {w1, w2}
  NONE = NONE
INVARIANTS
  TypeOK
  ClaimedOnce
  BoundedOvertaking
  EmptyIsExplained
PROPERTIES
  QueuedIsClaimed
