SPECIFICATION LiveSpec
CONSTANTS
  c1 = c1
  c2 = c2
  c3 = c3
  Callers = {c1, c2, c3}
  FailureThreshold = 3
  RecoveryTimeout = 3
  SuccessThreshold = 2
  CallTimeout = 2
  CounterCap = 1
INVARIANTS
  TypeOK
  RecordConsistent
  StreakTrips
  CooldownBounded
  ObserversAgree
PROPERTIES
  TripsOnStreak
  ClosesOnTrials
  FailFast
  ContractRefined
  RecoversOnceHealthy
