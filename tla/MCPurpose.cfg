SPECIFICATION Spec
CONSTANTS
  Purposes = {"p1", "p2"}
  Owner <- MCOwner
  Producer = "producer"
  Delegate = "delegate"
  Quota <- MCQuota
  MaxCalls = 2
  MaxVersions <- MCMaxVersions
INVARIANTS
  OneVersionInUse
  SuspendedBySomebody
PROPERTIES
  ResumedWithoutFlags
  QuotaKept
  EndedIsFinal
