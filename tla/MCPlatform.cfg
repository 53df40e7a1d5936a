SPECIFICATION FairSpec
CONSTANTS
  MaxAgreement = 2
  MaxDescriptor = 3
  Keys = {"k"}
  MaxSteps = 7
INVARIANTS
  Settled
PROPERTIES
  LatestKept
  Settles
CHECK_DEADLOCK FALSE
