SPECIFICATION FairSpec
CONSTANTS
  a1 = a1
  Agreements <- MCAgreements
  Consumer = "consumer"
  Producer = "producer"
  Delegate = "producer"
  Verifiers = {"producer"}
  MaxDescriptor = 1
  Requires <- MCRequires
  Automatic = {}
  StaleReads = TRUE
  OneChangeLag = TRUE
  MaxTime = 2
  MaxVersion = 3
  MaxEvents = 2
PROPERTIES
  ImplementsAgreements
  RevocationsEnforced
CHECK_DEADLOCK FALSE
