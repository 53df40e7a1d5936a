SPECIFICATION FairSpec
CONSTANTS
  c1 = c1
  c2 = c2
  k1 = k1
  Clients <- MCClients
  Keychains <- MCKeychains
  Existing <- MCExisting
  Users = {"u1", "u2"}
  Kids = {"x1", "x2"}
  MaxKeys = 1
  MaxRequests = 3
  MaxFailures = 1
INVARIANTS
  EventsTellTheChange
  KeysWithinThreshold
  UnlinkedOnceHandled
PROPERTIES
  ArchivalHandled
CHECK_DEADLOCK FALSE
