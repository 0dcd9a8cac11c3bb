\* Two cancel requests race the handler of a module run, which may lose a database write.
SPECIFICATION Spec
CONSTANTS
  MaxJobs = 2
  Modules = {m1}
  ScanTypes = {}
  PlainTypes = {}
  MediaSync = media_sync
  Webhook = webhook
  WebhookThreads = {}
  BackgroundThreads = {b1, b2}
  Clients = {c1, c2}
  Priorities = {0}
  MaxAttempts = 2
  MaxRetries = 0
  MaxCancels = 2
  MaxFaults = 1
  MaxCrashes = 0
  NoThread = NoThread
  NoKind = NoKind
CHECK_DEADLOCK FALSE
SYMMETRY Symmetry
INVARIANTS
  TypeOK
  BodiesExclusive
  RunStateIsCurrent
  CancelIsHeard
PROPERTIES
  ImplementsLedger
