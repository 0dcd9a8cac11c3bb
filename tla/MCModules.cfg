SPECIFICATION ModulesSpec
CONSTANTS
  Folders = {"old", "new"}
  FirstFolder = "old"
  MaxMoves = 1
  MaxNameFaults = 1
  MaxIntrusions = 0
  Instances = 2
  CopiesOf <- MCCopiesOf
  LibraryOf <- MCLibraryOf
  Runners = {"run"}
  MaxVersions = 2
  MaxFaults = 2
  Items <- MCItems
  AlbumsOf <- MCAlbumsOf
  Budget = 2
  Grabs = {"g1"}
  MaxUpsets = 1
  None = "none"
CHECK_DEADLOCK FALSE
INVARIANTS
  ModulesTypeOK
  DiskIsSound
  SkippedOnlyIfShown
  RotationIsSound
PROPERTIES
  PostersAllArrive
  RotationsGoOn
