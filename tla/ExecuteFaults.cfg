SPECIFICATION Spec
CONSTANTS
  a = a  b = b  c = c  k1 = k1
  Request = {a, b}
  Key = {k1}
  NoKey = NoKey
  KeyOf <- MCKeyOf
  Capability <- MCCapability
  CapOf <- MCCapOf
  Registry <- MCCapability
  Wired = {"shell.exec@v1"}
  Budget <- MCBudget
  DefaultTimeout <- MCDefaultTimeout
  MaxTimeout = 0
  MaxConcurrent = 2
  MaxCrashes = 1
  MaxExpiries = 1
  Faults = {"lookup_error", "lookup_panic", "find_error", "idgen", "normalizer", "save_error",
            "save_ack_lost", "record_error"}
  RawOutcome = {"success", "aborted", "panic"}
  CallerErr = {"canceled"}
INVARIANTS TypeOK AnswerAudited EffectAccounted KeyRowSound RefusalMeansNotRun MetricsExact
PROPERTY Immutable
\* Every call is made once: an instance ends when all are answered.
CHECK_DEADLOCK FALSE
