SPECIFICATION PartsSpec
CONSTANTS
  LyingWorkerReaders = {3}
  LedgerLevels = {0, 2, 3}
  IssuedAt = 1
  ExpiresAt = 2
  ObservationDeadlineMs = 1
  WorkerMishaps = 1
  WorkerEnd = 3
  RehearsalSlots = {s1, s2}
  Runs = {a, b}
  Lateness = 1
  Validity = 1
  Failures = 2
  RehearsalEnd = 2
  SlotDue <- TwoSlots
  SlotTolerance = 1
  ScheduleEnd = 3
  Starts = {0, 1}
  Invocations = {c1, c2}
  ClockEnd = 4
  DryRunFaults = 1
  PlannedUnits = {u1, u2}
  Finished = {u1}
  AssignmentLifetime = 1
  WorkerDeadline = 1
  CampaignEnd = 2
  CampaignTroubles = 1
  SoakInterval = 1
  SoakDuration = 5
  SoakTimeout = 1
  CoveragePercent = 30
  ReadyPercent = 70
  SoakEnd = 5
  SoakTroubles = 1
  ProxyRequests = {q1, q2, q3}
  MaxConcurrentRequests = 2
  MaxAuditEvents = 1
  WindowRoutes = {ra, rb}
  ProbeCount = 2
  MinimumComplete = 1
  StrongComplete = 2
  MaxInconclusive = 50
  HealthyRate = 90
  DegradedRate = 39
  AsymmetricRate = 20
  HealthyGap = 10
  DegradedGap = 20
  AsymmetricGap = 60
  Attempts = {a, b}
  Processes = 2
  Polls = 1
  LyingTelemetry = {3}
  ObservationDeadline = 1
  Levels = {0, 1, 3}
  Outages = 1
INVARIANTS
  SafePartsTypeOK
  ObservationIsSound
  RehearsalIsSound
  ScheduleIsAccounted
  AcceptanceIsEarned
  AdmissionIsEarned
  AuditIsSound
  ClassificationIsSound
  TimelineStandsOnTheLog
  TimelineIsSound
CHECK_DEADLOCK FALSE
