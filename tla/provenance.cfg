SPECIFICATION Spec
CONSTANTS
  j1 = j1
  j2 = j2
  w1 = w1
  w2 = w2
  Jobs = {j1, j2}
  Wasms = {w1, w2}
  Metadata <- MCMetadata
  Requests <- MCRequests
  Registries = {"stellar", "vendor"}
  Digests = {"sdf", "other"}
  Tags = {"latest"}
  TrustedDigests = {"sdf"}
  AuditableRegistries = {"stellar"}
  DefaultImage <- MCDefaultImage
  NONE = NONE
SYMMETRY MCSymmetry
INVARIANTS
  TypeOK
  TrustedIsEarned
  RecordedHashWasLive
  FlagIsAboutLiveWasm
  ImageIsNamedOrEmbedded
PROPERTIES
  ImplementsVerificationSpec
