SPECIFICATION LiveSpec
CONSTANTS
  f1 = f1  f2 = f2  z1 = z1  h1 = h1  g1 = g1  g2 = g2
  Request = {f1, h1}
  Group = {g1, g2}
  GroupOf <- MCGroupOf
  StatusOf <- MCStatusOf
  SeverityOf <- MCSeverityOf
  CapabilityOf <- MCCapabilityOf
  NoCapability = NoCapability
  RetryOf <- MCRetryOf
  NoRequest = NoRequest
  RecommentMinInterval = 1
  MaxClock = 0
  MaxCrashes = 0
  Faults = {"http_4xx", "lost", "hangup"}
INVARIANTS LabelsExist
PROPERTIES Answered
CHECK_DEADLOCK FALSE
