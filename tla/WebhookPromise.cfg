\* The queue refuses the upload retry of a webhook job.
SPECIFICATION Spec
CONSTANTS
  Items = {i1, i2}
  TTL = 1
  MaxAttempts = 2
  WebhookThreads = {w1, w2}
  BackgroundThreads = {b1}
  MaxTime = 2
  MaxEvents = 2
  MaxJobs = 2
  MaxUpsets = 1
  NoItem = NoItem
  NoThread = NoThread
CHECK_DEADLOCK FALSE
INVARIANT
  PromisedRetryExists
