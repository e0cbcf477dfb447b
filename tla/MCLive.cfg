CONSTANTS
  Packs = {"Home"}
  NoPack = "none"
  Archive <- MCArchive
  Stems <- MCStems
  SlotStems <- MCSlotStems
  BootStems <- MCBootStems
  ProgramStems <- MCProgramStems
  DataStems <- MCDataStems
  NoPath = ""
  Missing = {}
  Truncated = {}
  Prefix <- MCPrefix
  OutputNames = {"", "Home"}
  RomPaths = {}
  Images = {"good"}
  NoImage = "noimage"
  PatchSource <- MCPatchSource
  SourcePrefix <- MCSourcePrefix
  LongEnough <- MCLongEnough
  HasIcarus = FALSE
  HasDaedalus = FALSE
  Boards = {{}}
  NoBoard = NoBoard
  RenameReplaces = TRUE
  w1 = w1
  Workers = {w1}
  MaxExports = 1
SPECIFICATION FairSpec
CHECK_DEADLOCK FALSE
PROPERTIES ControlsComeBack ImplementsFairJob
