\* Deliveries, redeliveries and expiry against a failed enqueue or rollback, and a crash.
SPECIFICATION FairSpec
CONSTANTS
  Items = {i1}
  TTL = 1
  MaxAttempts = 2
  WebhookThreads = {w1}
  BackgroundThreads = {b1}
  MaxTime = 4
  MaxEvents = 2
  MaxJobs = 3
  MaxUpsets = 2
  NoItem = NoItem
  NoThread = NoThread
CHECK_DEADLOCK FALSE
INVARIANTS
  TypeOK
  WorkedOnce
  OnlyFaultsLoseEvents
PROPERTY
  EventsAreWorked
