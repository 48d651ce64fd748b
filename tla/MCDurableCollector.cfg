SPECIFICATION FairCollectorSpec
CONSTANTS
  r1 = r1
  r2 = r2
  r3 = r3
  r4 = r4
  None = None
  Clients = {a, b}
  Results <- MCResults
  ResultId <- MCResultId
  IdempotencyKey <- MCIdempotencyKey
  ObserverSequence <- MCObserverSequence
  Admissible <- MCAdmissible
  MaxPending = 2
INVARIANTS
  CollectorTypeOK
  AcceptedOnce
  MemoryMatchesDisk
  AcknowledgedIsDurable
PROPERTIES
  LogOnlyGrows
  EveryCallAnswered
CHECK_DEADLOCK FALSE
