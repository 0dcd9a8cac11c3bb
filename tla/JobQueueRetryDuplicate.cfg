\* A retry beside a newer run of the same module.
SPECIFICATION Spec
CONSTANTS
  MaxJobs = 2
  Modules = {m1}
  ScanTypes = {}
  PlainTypes = {}
  MediaSync = media_sync
  Webhook = webhook
  WebhookThreads = {}
  BackgroundThreads = {b1}
  Clients = {}
  Priorities = {0}
  MaxAttempts = 2
  MaxRetries = 1
  MaxCancels = 0
  MaxFaults = 0
  MaxCrashes = 0
  NoThread = NoThread
  NoKind = NoKind
CHECK_DEADLOCK FALSE
INVARIANTS
  OneInFlight
