SPECIFICATION Spec
CONSTANTS
  a = a
  b = b
  r1 = r1
  r2 = r2
  r3 = r3
  r4 = r4
  r5 = r5
  r6 = r6
  None = None
  Observers <- OneObserver
  Clients <- OneObserver
  Results <- OneUnit
  SpoolFiles <- OneUnit
  SpoolOf <- MCSpoolOf
  NameRank <- MCNameRank
  ResultId <- MCResultId
  IdempotencyKey <- MCIdempotencyKey
  ObserverSequence <- MCObserverSequence
  Admissible <- OneUnit
  Unsendable = {}
  Unreadable = {}
  Leftover = {}
  MaxPending = 2
  FaultBudget <- MCFaultBudget
  Timeouts = 0
  CollectorFaults = 0
  CollectorDisk = 0
  ObserverFaults = 1
  ObserverDisk = 1
  SpoolReads = 0
  KeyExpiry = 0
INVARIANT DeliveryLogReopens
CHECK_DEADLOCK FALSE
