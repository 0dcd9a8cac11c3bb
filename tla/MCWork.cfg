\* Ranges between the edges of three months around New Year and leap days, day by
\* day over two years and the first days of a third.
SPECIFICATION WorkSpec
CONSTANTS
  FirstYear = 2023
  LastYear = 2024
  EdgeMonths = {1, 2, 12}
  EdgeDays = {1, 28, 29, 31}
  Modules = {"module", "upgradinatorr"}
  Upgradinatorr = "upgradinatorr"
  MediaSync = "media_sync"
  Profiles = {"profile"}
  Blocks = {"block"}
  Configs <- MCConfigs
  SyncMinutes = {0}
  Workers = {"worker"}
  Callers = {"caller"}
  MaxMinute = 1
  MaxRows = 2
  MaxUpsets = 1
  Nobody = "nobody"
  Media = {"m1", "m2"}
  Place <- MCPlace
  FolderNames = {"a", "b", "c"}
  FirstFolder <- MCFirstFolder
  WantedFolder <- MCWantedFolder
  BatchSize = 2
  Batching = FALSE
  RefreshFirst = FALSE
  MaxRefreshes = 1
  MaxMoves = 1
  MaxNamingFaults = 1
  Lost = "lost"
  Images = {"i1", "i2"}
  Columns = {"thumb", "art"}
  MaxPicks = 1
  MaxPassFaults = 1
  NoImage = "none"
CHECK_DEADLOCK FALSE
INVARIANTS
  WorkTypeOK
  RangeIsWindow
  ScheduleIsKept
  VerdictIsTrue
  FilesAreSafe
  ImagesAreSafe
