\* Three requests over two connections, a start that may fail anywhere, a signal
\* at any time and a database that may hang.
SPECIFICATION Spec
CONSTANTS
  Requests = {r1, r2, r3}
  PoolSize = 2
\* The process exits.
CHECK_DEADLOCK FALSE
INVARIANTS
  NothingLeftOpen
  LostOnlyAfterGrace
PROPERTIES
  SignalEndsProcess
