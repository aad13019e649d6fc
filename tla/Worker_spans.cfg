CONSTANTS
  j = j
  k = k
  None = None
  Jobs = {j, k}
  SpansOf <- MCSpansOf
  BatchSize = 2
SPECIFICATION Spec
INVARIANT TraceIsWhole
PROPERTY EveryJobStops
CHECK_DEADLOCK FALSE
