CONSTANTS
  Packs = {"Mini", "NoData", "NotZip"}
  NoPack = "none"
  Archive <- MCArchive
  Stems <- MCStems
  SlotStems <- MCSlotStems
  BootStems <- MCBootStems
  ProgramStems <- MCProgramStems
  DataStems <- MCDataStems
  NoPath = ""
  Missing = {}
  Truncated = {"truncated"}
  Prefix <- MCPrefix
  OutputNames = {"", "Game"}
  RomPaths = {"rom"}
  Images = {"good"}
  NoImage = "noimage"
  PatchSource <- MCPatchSource
  SourcePrefix <- MCSourcePrefix
  LongEnough <- MCLongEnough
  HasIcarus = TRUE
  HasDaedalus = FALSE
  Boards = {{}}
  NoBoard = NoBoard
  RenameReplaces = TRUE
  w1 = w1
  Workers = {w1}
  MaxExports = 1
SPECIFICATION Spec
CHECK_DEADLOCK FALSE
INVARIANT ExportNeedsPackOrROM
