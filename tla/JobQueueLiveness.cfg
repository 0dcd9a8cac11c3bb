\* Fair threads, clock and restarts: jobs settle and locks are released, through a
\* failed database write and a crash.
SPECIFICATION FairSpec
CONSTANTS
  MaxJobs = 2
  Modules = {m1}
  ScanTypes = {}
  PlainTypes = {}
  MediaSync = media_sync
  Webhook = webhook
  WebhookThreads = {w1}
  BackgroundThreads = {b1}
  Clients = {}
  Priorities = {0}
  MaxAttempts = 2
  MaxRetries = 0
  MaxCancels = 0
  MaxFaults = 1
  MaxCrashes = 1
  NoThread = NoThread
  NoKind = NoKind
CHECK_DEADLOCK FALSE
PROPERTIES
  LocksReleased
  JobsSettle
