SPECIFICATION FairSpec
CONSTANTS
  a = a
  b = b
  r1 = r1
  r2 = r2
  r3 = r3
  r4 = r4
  r5 = r5
  r6 = r6
  None = None
  Observers <- TwoObservers
  Clients <- TwoObservers
  Results <- TwoSpools
  SpoolFiles <- TwoSpools
  SpoolOf <- MCSpoolOf
  NameRank <- MCNameRank
  ResultId <- MCResultId
  IdempotencyKey <- MCIdempotencyKey
  ObserverSequence <- MCObserverSequence
  Admissible <- TwoSpools
  Unsendable = {r4}
  Unreadable = {r5, r6}
  Leftover = {r4, r6}
  MaxPending = 2
  FaultBudget <- MCFaultBudget
  Timeouts = 1
  CollectorFaults = 1
  CollectorDisk = 0
  ObserverFaults = 1
  ObserverDisk = 0
  SpoolReads = 0
  KeyExpiry = 0
INVARIANTS
  ObserversAgree
PROPERTIES
  EventuallySettled
CHECK_DEADLOCK FALSE
