SPECIFICATION Spec
CONSTANTS
  f1 = f1  f2 = f2  z1 = z1  h1 = h1  g1 = g1  g2 = g2
  Request = {f1, f2, z1}
  Group = {g1}
  GroupOf <- MCGroupOf
  StatusOf <- MCStatusOf
  SeverityOf <- MCSeverityOf
  CapabilityOf <- MCCapabilityOf
  NoCapability = NoCapability
  RetryOf <- MCNoRetry
  NoRequest = NoRequest
  RecommentMinInterval = 1
  MaxClock = 1
  MaxCrashes = 1
  Faults = {"http_5xx", "late"}
INVARIANTS TypeOK OneOpenIssue ClosedIsExplained CommentsInPlace
PROPERTIES OKMeansDone ResolvedClears
CHECK_DEADLOCK FALSE
SYMMETRY MCFirings
