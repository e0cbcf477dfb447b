CONSTANTS
  Scenarios = {"daedalus"}
  p1 = p1
  Processes = {p1}
  ImportSources <- MCImportSources
  ImportBound <- MCImportBound
  MaxImports = 3
  MaxLost = 1
  Dirs <- MCDirs
  Home = "home"
  Parent <- MCParent
  Files <- MCFiles
  Folders <- MCFolders
  Libraries = {"l1", "l2"}
  MaxSessions = 2
  Keys <- MCKeys
  Own <- MCOwn
  Programs <- MCPrograms
  Values = {"default", "a"}
  DefaultValue = "default"
  MaxStarts = 3
SPECIFICATION Spec
INVARIANT ImportedGameIsThere
CHECK_DEADLOCK FALSE
