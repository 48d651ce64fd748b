SPECIFICATION FairSpec
CONSTANTS
  a = a
  b = b
  NumSlots = 2
  Observers = {a}
  ObserverOf <- SameObserver
  DueAt <- MinuteApart
  StartAt = 0
  EndAt = 2
  Tolerance = 1
  Lifetime = 2
  MaxClock = 4
  MaxStops = 1
INVARIANTS
  TypeOK
  UnitsCountOnce
  CoordinatorGoesOn
PROPERTIES
  ImplementsWindow
  TerminalIsFinal
  EventuallyAccounted
CHECK_DEADLOCK FALSE
