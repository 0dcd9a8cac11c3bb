SPECIFICATION Spec
CONSTANTS
  Handlers = {h1, h2}
  Restorers = {r1}
  Outsiders = {s1}
  Watcher = watcher
  Casts = {{h1, h2, s1}, {h1, r1, s1}, {h1, h2, watcher}, {h1, s1, watcher}, {h1, h2, r1}}
  DebounceInterval = 1
  MaxTime = 4
  MaxHandEdits = 1
  MaxSaveFaults = 1
  NoProc = NoProc
  NoEntry = NoEntry
CHECK_DEADLOCK FALSE
INVARIANTS
  TypeOK
  LockGuardsEdits
  LoadIsCurrent
PROPERTY
  ReloadFollowsSave
