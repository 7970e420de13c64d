SPECIFICATION Spec
CONSTANTS
  MaxLines = 4
  DbFaults = FALSE
INVARIANTS
  DoneIsComplete
