SPECIFICATION Spec
CONSTANTS
  a = a
  b = b
  NumSlots = 1
  Observers = {a}
  ObserverOf <- SameObserver
  DueAt <- MinuteApart
  StartAt = 0
  EndAt = 2
  Tolerance = 1
  Lifetime = 2
  MaxClock = 4
  MaxStops = 0
INVARIANT MissingWasNotSubmitted
CHECK_DEADLOCK FALSE
