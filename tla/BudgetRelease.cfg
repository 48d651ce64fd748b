SPECIFICATION Spec
CONSTANTS
  Callers = {1, 2}
  TotalCalls = 3
  Burst = 2
  Window = 2
  FaultBudget <- MCFaultBudget
  Crashes = 0
  Poisonings = 0
  Unlocks = 0
INVARIANT InFlightNeedsReconciliation
CHECK_DEADLOCK FALSE
