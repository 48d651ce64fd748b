SPECIFICATION PartsSpec
CONSTANTS
  Routes = {r1}
  Pollers = {p, q}
  Classifications = {"HEALTHY", "ASYMMETRIC"}
  AvoidAfter = 2
  RestoreAfter = 1
  Ttl = 2
  SourceLag = 1
  SourceMaxAge = 1
  KeyUntil = 4
  MaxVersion = 3
  FeedEnd = 2
  Disturbances = 1
  ConfiguredRoutes <- RoutesInOrder
  Readers = {n1, n2, n3}
  LyingReaders = {n3}
  Stranger = nx
  RouteTimeout = 1
  ObservationTimeout = 1
  HookTimeout = 1
  Deadline = 2
  LyingWorkerReaders = {3}
  LedgerLevels = {0}
  IssuedAt = 1
  ExpiresAt = 2
  ObservationDeadlineMs = 1
  WorkerMishaps = 1
  WorkerEnd = 3
  FailuresBeforeCritical = 2
  ReminderAfter = 3
  MonitorTroubles = 3
  HostChanges = 3
  LyingTelemetry = {2, 3}
  ObservationDeadline = 1
  Levels = {0, 1, 3}
  Outages = 1
  EvidenceFiles <- FilesInOrder
  EvidenceFaults = 2
INVARIANTS
  LivePartsTypeOK
  FeedIsSound
PROPERTIES
  FeedGoesOn
  RouterIsSound
  OperatorIsInformed
  EvidenceIsSound
  EveryRunEnds
CHECK_DEADLOCK FALSE
