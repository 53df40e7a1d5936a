SPECIFICATION Spec
CONSTANTS
  MaxAgreement = 2
  MaxDescriptor = 3
  Keys = {"k"}
  MaxSteps = 7
INVARIANTS LifespanReaches
CHECK_DEADLOCK FALSE
