SPECIFICATION Spec
CONSTANTS
  r1 = r1
  t1 = t1
  t2 = t2
  Requests = {r1}
  Tasks = {t1, t2}
  Latencies = {0, 1, 2}
  Rates = {0}
  Whole = 4
  Eps = 0
  Sizes = {1, 2}
  MemoryMax = 3
  MaxDecisions = 1
INVARIANTS
  MemoryCapped
