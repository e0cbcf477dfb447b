CONSTANTS
  Scenarios = {"boards", "library", "systems", "daedalus", "windows", "settings file"}
  p1 = p1
  p2 = p2
  Processes = {p1, p2}
  ImportSources <- MCImportSources
  ImportBound <- MCImportBound
  MaxImports = 3
  MaxLost = 1
  Dirs <- MCDirs
  Home = "home"
  Parent <- MCParent
  Files <- MCFiles
  Folders <- MCFolders
  Libraries = {"l1", "l2"}
  MaxSessions = 2
  Keys <- MCKeys
  Own <- MCOwn
  Programs <- MCPrograms
  Values = {"default", "a"}
  DefaultValue = "default"
  MaxStarts = 3
SPECIFICATION Spec
INVARIANTS
  ImportRoundTrip ReportIsTrue
  EveryFileIsAccountedFor StopStops UserHasAWindow ChoicesAreKept
PROPERTIES SaveIsKept ScanComesBack
CHECK_DEADLOCK FALSE
