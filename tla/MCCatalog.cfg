SPECIFICATION FairSpec
CONSTANTS
  e1 = e1
  e2 = e2
  d1 = d1
  d2 = d2
  a1 = a1
  a2 = a2
  EServices <- TwoEServices
  Descriptors <- TwoDescriptors
  Agreements <- TwoAgreements
  RiskAnalyses = {"r1"}
  TenantKinds = {"PA", "PRIVATE"}
  StaleReads = FALSE
  OneChangeLag = TRUE
INVARIANTS
  VersionsUnique
  DraftIsNewest
  PublishedIsNewest
  NewestIsOffered
  UsedNotArchived
  OfferedIsComplete
PROPERTIES
  PublicationIsFinal
  UnusedArchived
CHECK_DEADLOCK FALSE
