SPECIFICATION Spec
CONSTANTS
  t1 = t1
  t2 = t2
  i1 = i1
  i2 = i2
  b1 = b1
  b2 = b2
  None = None
  Gone = Gone
  Refused = Refused
  Waiting = Waiting
  Threads = {t1, t2}
  Ids = {i1, i2}
  Bodies = {b1}
  Owner = t1
  MaxRetries = 1
  MaxCalls <- MCMaxCalls
INVARIANTS
  TypeOK
  CacheHoldsServerRows
PROPERTIES
  ServiceSpec
  CallsEnd
CHECK_DEADLOCK FALSE
CONSTRAINT Focus
