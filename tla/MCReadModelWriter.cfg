\* Two documents, two consumers, three events and two faults (a lost partition and a crash, or a replay).
SPECIFICATION FairSpec
CONSTANTS
  Docs = {k1, k2}
  Consumers = {c1, c2}
  MaxEvents = 3
  MaxFaults = 2
INVARIANTS
  ReadsAPastState
PROPERTIES
  NewestKept
  Converges
CHECK_DEADLOCK FALSE
