SPECIFICATION Spec
CONSTANTS
  j1 = j1
  j2 = j2
  j3 = j3
  w1 = w1
  w2 = w2
  t1 = t1
  t2 = t2
  Jobs = {j1, j2}
  Workers = {w1, w2}
  Targets = {t1}
  TargetOf <- MCTargetOf
  Attestable = {t1}
  MaxBuilds = 1
  DbFaults = FALSE
  Crashes = FALSE
  NONE = NONE
INVARIANTS
  AttestationNamesItsRow
