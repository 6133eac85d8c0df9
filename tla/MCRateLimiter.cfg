SPECIFICATION Spec
CONSTANTS
  k1 = k1
  k2 = k2
  Clients = {k1, k2}
  Rate = 1
  Burst = 7
  Cost = 3
  TicksPerSecond = 2
  MaxClock = 6
  CounterCap = 1
SYMMETRY ClientSymmetry
INVARIANTS
  TypeOK
  WindowBound
  RetryAfterHonest
PROPERTIES
  LazyRefillExact
