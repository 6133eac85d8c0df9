SPECIFICATION LiveSpec
CONSTANTS
  r1 = r1
  r2 = r2
  Requests = {r1, r2}
  ReadTimeout = 3
  AuthTimeout = 1
  WorkTicks = 1
  RequestTimeout = 6
  ShutdownTimeout = 2
CHECK_DEADLOCK FALSE
INVARIANTS
  NeverTimesOut
  ExitCodeHonest
PROPERTIES
  ServerStops
