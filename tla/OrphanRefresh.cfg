\* An unattended Poster Renamerr run sweeps after a sync that failed.
SPECIFICATION SyncSpec
CONSTANTS
  Films = {f1, f2}
  Refreshes = {}
  Cleanarrs = {}
  Renamerrs = {sweep}
  MaxFilmChanges = 1
  MaxSyncFaults = 0
  None = None
CHECK_DEADLOCK FALSE
INVARIANTS
  OrphansAreOrphans
