SPECIFICATION WorkerSpec
CONSTANTS
  r1 = r1
  t1 = t1
  t2 = t2
  Requests = {r1}
  Tasks = {t1, t2}
  Latencies = {0, 1}
  Rates = {0, 5, 6}
  Whole = 6
  Eps = 1
  Sizes = {0, 1, 2}
  MemoryMax = 3
  MaxDecisions = 3
INVARIANTS
  TypeOK
  GaugesFollowState
  NoPhantomWork
  ErrorsEvenlySpread
  JobsCountedOnce
PROPERTIES
  WorkloadsEnd
  ShutdownEnds
  JobsKeepComing
