SPECIFICATION Spec
CONSTANTS
  e1 = e1
  e2 = e2
  d1 = d1
  d2 = d2
  a1 = a1
  a2 = a2
  EServices <- OneEService
  Descriptors <- TwoDescriptors
  Agreements <- OneAgreement
  RiskAnalyses = {}
  TenantKinds = {"PA"}
  StaleReads = FALSE
  OneChangeLag = TRUE
INVARIANTS
  DelegatedEServiceExists
CHECK_DEADLOCK FALSE
