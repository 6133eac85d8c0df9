SPECIFICATION Spec
CONSTANTS
  c1 = c1
  c2 = c2
  Callers = {c1, c2}
  FailureThreshold = 2
  RecoveryTimeout = 2
  SuccessThreshold = 2
  CallTimeout = 1
  CounterCap = 2
PROPERTIES
  OpenTotalCountsTransitions
