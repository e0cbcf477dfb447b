CONSTANTS
  Packs = {"Song"}
  NoPack = "none"
  Archive <- MCArchive
  Stems <- MCStems
  SlotStems <- MCSlotStems
  BootStems <- MCBootStems
  ProgramStems <- MCProgramStems
  DataStems <- MCDataStems
  NoPath = ""
  Missing = {}
  Truncated = {}
  Prefix <- MCPrefix
  OutputNames = {"", "Song"}
  RomPaths = {}
  Images = {"good"}
  NoImage = "noimage"
  PatchSource <- MCPatchSource
  SourcePrefix <- MCSourcePrefix
  LongEnough <- MCLongEnough
  HasIcarus = TRUE
  HasDaedalus = TRUE
  Boards <- MCBoards
  NoBoard = NoBoard
  RenameReplaces = FALSE
  w1 = w1
  Workers = {w1}
  MaxExports = 2
CONSTRAINT MCWithinRules
SPECIFICATION Spec
CHECK_DEADLOCK FALSE
INVARIANT ExportIsComplete
 
