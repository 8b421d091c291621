SPECIFICATION LiveSpec
CONSTANTS
  a = a  b = b  c = c  k1 = k1
  Request = {a, b}
  Key = {k1}
  NoKey = NoKey
  KeyOf <- MCKeyOf
  Capability <- MCCapability
  CapOf <- MCCapOfGhost
  Registry <- MCCapability
  Wired = {"shell.exec@v1"}
  Budget <- MCBudget
  DefaultTimeout <- MCDefaultTimeout
  MaxTimeout = 0
  MaxConcurrent = 2
  MaxCrashes = 1
  MaxExpiries = 0
  Faults = {"normalizer", "lookup_panic", "save_error"}
  RawOutcome = {"success", "failure", "partial", "invalid", "aborted", "panic", "structural"}
  CallerErr = {"canceled", "deadline"}
INVARIANT ReceiptTruthful
PROPERTY Answered
\* Every call is made once: an instance ends when all are answered.
CHECK_DEADLOCK FALSE
