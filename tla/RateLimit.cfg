\* Two connections, a limit of two hits in a window of two seconds of two ticks
\* each; three hits are what it takes for some to be cleaned up while others are
\* counted.
CONSTANTS
  Workers = {w1, w2}
  Limit = 2
  Second = 2
  Seconds = 2
  MaxHits = 3
  MaxTime = 6
  None = None

SPECIFICATION Spec
SYMMETRY Symmetry
CHECK_DEADLOCK FALSE

INVARIANTS
  TypeOK
  WithinLimit
  RetryLongEnough

PROPERTIES
  OneStep
