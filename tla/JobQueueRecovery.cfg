\* Crashes, a database fault and a retry, over both partitions.
SPECIFICATION Spec
CONSTANTS
  MaxJobs = 2
  Modules = {m1}
  ScanTypes = {scan}
  PlainTypes = {}
  MediaSync = media_sync
  Webhook = webhook
  WebhookThreads = {w1}
  BackgroundThreads = {b1, b2}
  Clients = {}
  Priorities = {0}
  MaxAttempts = 2
  MaxRetries = 1
  MaxCancels = 0
  MaxFaults = 1
  MaxCrashes = 1
  NoThread = NoThread
  NoKind = NoKind
CHECK_DEADLOCK FALSE
SYMMETRY Symmetry
INVARIANTS
  SingleOwner
  OwnedRowIsActive
  StrandedOnlyByFaults
  AttemptBudget
  DedupeHolds
  LockIsBackstop
