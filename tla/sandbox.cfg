SPECIFICATION FairSpec
CONSTANTS
  j1 = j1
  j2 = j2
  Jobs = {j1, j2}
  MaxBuilds = 1
  Capacity = 1
  PipeSize = 1
  MaxLines <- MCMaxLines
  Committed <- MCCommitted
  Products <- MCProducts
  Package <- MCPackage
  NONE = NONE
INVARIANTS
  TypeOK
  StepsDoNotOverlap
  OnlyWarnedIsMissing
  GivenUpOnlyWhenGarbled
  NoForeignArtifact
PROPERTIES
  StreamIsDrained
  WriterResumes
CHECK_DEADLOCK FALSE
