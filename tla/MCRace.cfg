CONSTANTS
  Packs = {"Mini"}
  NoPack = "none"
  Archive <- MCArchive
  Stems <- MCStems
  SlotStems <- MCSlotStems
  BootStems <- MCBootStems
  ProgramStems <- MCProgramStems
  DataStems <- MCDataStems
  NoPath = ""
  Missing = {}
  Truncated = {}
  Prefix <- MCPrefix
  OutputNames = {"", "Mini"}
  RomPaths = {}
  Images = {"good"}
  NoImage = "noimage"
  PatchSource <- MCPatchSource
  SourcePrefix <- MCSourcePrefix
  LongEnough <- MCLongEnough
  HasIcarus = FALSE
  HasDaedalus = FALSE
  Boards = {{}}
  NoBoard = NoBoard
  RenameReplaces = TRUE
  w1 = w1
  w2 = w2
  Workers = {w1, w2}
  MaxExports = 2
SPECIFICATION Spec
CHECK_DEADLOCK FALSE
INVARIANT ControlsAreLocked
PROPERTIES OverlapNeedsResetTail SettingsAreFrozen OnlyOwnFiles ImplementsJob
