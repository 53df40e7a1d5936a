SPECIFICATION Spec
CONSTANTS
  a1 = a1
  a2 = a2
  Agreements <- MCAgreements
  Consumer = "consumer"
  Producer = "producer"
  Delegate = "delegate"
  MaxDescriptor = 2
  Requires <- MCRequires
  Automatic = {2}
  StaleReads = FALSE
  OneChangeLag = TRUE
  MaxMessages = 1
SYMMETRY Symmetry
INVARIANTS
  OneInForce
  RevocationWaits
  OnePending
  PlatformFlagTracksCertified
  StampForFlag
PROPERTIES
  ActiveNeedsAttributes
  TerminalStates
  ArchivedForSuccessor
CHECK_DEADLOCK FALSE
