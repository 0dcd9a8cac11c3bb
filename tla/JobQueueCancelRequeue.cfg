\* A cancelled run whose body raises.
SPECIFICATION FairSpec
CONSTANTS
  MaxJobs = 2
  Modules = {m1}
  ScanTypes = {}
  PlainTypes = {}
  MediaSync = media_sync
  Webhook = webhook
  WebhookThreads = {w1}
  BackgroundThreads = {b1}
  Clients = {c1}
  Priorities = {0}
  MaxAttempts = 2
  MaxRetries = 0
  MaxCancels = 1
  MaxFaults = 0
  MaxCrashes = 0
  NoThread = NoThread
  NoKind = NoKind
CHECK_DEADLOCK FALSE
PROPERTIES
  CancelledStaysOut
