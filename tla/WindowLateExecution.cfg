SPECIFICATION Spec
CONSTANTS
  a = a
  b = b
  NumSlots = 2
  Observers = {a, b}
  ObserverOf <- TwoObservers
  DueAt <- SameMinute
  StartAt = 0
  EndAt = 2
  Tolerance = 1
  Lifetime = 2
  MaxClock = 4
  MaxStops = 0
PROPERTY ExecutedInTolerance
CHECK_DEADLOCK FALSE
