SPECIFICATION ServicesSpec
CONSTANTS
  MaxSignals = 2
  MaxTicks = 2
  Films = {"f1", "f2"}
  Refreshes = {"refresh"}
  Cleanarrs = {"cleanarr"}
  Renamerrs = {"renamerr"}
  MaxFilmChanges = 2
  MaxSyncFaults = 0
  None = "none"
  Movies = {"f1", "f2"}
  Keys = {1, 2}
  Jobs = {"a"}
  MaxItemChanges = 2
  MaxMapFaults = 1
  NoMovie = "none"
  Gone = "gone"
  Names = {"a", "x"}
  NewName <- MCNewName
  Requests = {"api"}
  AutoApply = TRUE
  MaxDismissals = 1
  MaxSaves = 1
  MaxHealFaults = 1
CHECK_DEADLOCK FALSE
INVARIANTS
  ServicesTypeOK
  CleanExits
  CachesAreTrue
  RenamesAreSafe
PROPERTIES
  ProcessDecides
  JobsAreStarted
  TablesSettle
