SPECIFICATION Spec
CONSTANTS
  a = a  b = b  c = c  k1 = k1
  Request = {a, b, c}
  Key = {k1}
  NoKey = NoKey
  KeyOf <- MCKeyOf
  Capability <- MCCapability
  CapOf <- MCCapOf
  Registry <- MCCapability
  Wired = {"shell.exec@v1"}
  Budget <- MCBudget
  DefaultTimeout <- MCDefaultTimeout
  MaxTimeout = 0
  MaxConcurrent = 2
  MaxCrashes = 0
  MaxExpiries = 1
  Faults = {}
  RawOutcome = {"success", "aborted"}
  CallerErr = {"canceled"}
INVARIANTS LimiterExact ReplayHonoured
PROPERTY ImplementsAuditedRuntime
\* Every call is made once: an instance ends when all are answered.
CHECK_DEADLOCK FALSE
