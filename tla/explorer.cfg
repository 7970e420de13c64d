SPECIFICATION Spec
CONSTANTS
  c1 = c1
  c2 = c2
  c3 = c3
  Contracts = {c1, c2, c3}
  MAX_PER_PAGE = 2
  Asked = {0, 3}
  Filters = {"all", "verified", "mismatch"}
  MaxUpserts = 5
  Publishers = 2
  NONE = NONE
SYMMETRY MCSymmetry
INVARIANTS
  TypeOK
  WalkMissesNothing
  QuietWalkIsExact
  WalkIsBounded
PROPERTIES
  TotalCoversPage
CHECK_DEADLOCK FALSE
