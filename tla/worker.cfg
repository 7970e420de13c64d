SPECIFICATION Spec
CONSTANTS
  j1 = j1
  j2 = j2
  j3 = j3
  w1 = w1
  w2 = w2
  t1 = t1
  t2 = t2
  Jobs = {j1, j2, j3}
  Workers = {w1, w2}
  Targets = {t1, t2}
  TargetOf <- MCTargetOf
  Attestable = {t1}
  MaxBuilds = 2
  DbFaults = TRUE
  Crashes = TRUE
  NONE = NONE
SYMMETRY MCSymmetry
INVARIANTS
  TypeOK
  TaskOwnsJob
  RecordAgreesWithJob
  StatusAgreesWithPublished
  AttestedWasPublished
  PermitsBalance
  NoOrphan
PROPERTIES
  TerminalIsFinal
  RecordPassesToPublisher
  ImplementsVerificationSpec
