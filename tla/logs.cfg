SPECIFICATION FairSpec
CONSTANTS
  MaxLines = 4
  DbFaults = TRUE
INVARIANTS
  TypeOK
  ShownInOrder
  OnlyUnconfirmedIsSkipped
  ReplayIsComplete
PROPERTIES
  StreamEnds
