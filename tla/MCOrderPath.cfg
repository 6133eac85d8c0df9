SPECIFICATION LiveSpec
CONSTANTS
  o1 = o1
  o2 = o2
  k1 = k1
  k2 = k2
  Orders = {o1, o2}
  Clients = {k1, k2}
  Rate = 1
  Burst = 1
  FailureThreshold = 2
  RecoveryTimeout = 2
  SuccessThreshold = 2
  CallTimeout = 1
INVARIANTS
  ShedStaysOut
  AnswersFollowAuth
PROPERTIES
  CallsFollowContract
  EveryOrderAnswered
