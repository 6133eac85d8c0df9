SPECIFICATION Spec
CONSTANTS
  r1 = r1
  r2 = r2
  t1 = t1
  Requests = {r1, r2}
  Tasks = {t1}
  Headers <- BroughtHeaders
  Rate = 1
  Burst = 1
SYMMETRY RequestSymmetry
INVARIANTS
  MetricsTruthful
  AnswersTraceable
  ControlPlaneOpen
PROPERTIES
  FailsOnlyDegraded
