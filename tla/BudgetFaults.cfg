SPECIFICATION FairSpec
CONSTANTS
  Callers = {1, 2}
  TotalCalls = 3
  Burst = 2
  Window = 2
  FaultBudget <- MCFaultBudget
  Crashes = 1
  Poisonings = 1
  Unlocks = 1
INVARIANTS
  TypeOK
  JournalCoversCalls
  RateBound
PROPERTIES
  PoisonStopsCalls
  WaitsEnd
CHECK_DEADLOCK FALSE
