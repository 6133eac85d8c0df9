SPECIFICATION Spec
CONSTANTS
  Sources = {"chaos", "worker"}
  Limits <- AskedLimits
  MaxEvents = 6
INVARIANTS
  ReadInOrder
  LossBounded
  LimitTakesNewest
