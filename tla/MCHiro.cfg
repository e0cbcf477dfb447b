CONSTANTS
  Scenarios = {"layouts", "table", "menus", "selection", "dialog", "widgets", "ranges", "choices", "radios"}
  Lists <- MCLists
  Slots <- MCSlots
  NoObject = "none"
  LayoutKind <- MCLayouts
  TableKind <- MCTable
  MenuKind <- MCMenus
  Items = {"a", "b", "c"}
  Actions = {"openFile", "openFiles", "openFolder", "saveFile", "selectFolder"}
  Names = {"rom", "sub"}
  Folders = {"sub"}
  Top = "/"
  Sub <- MCSub
  Places = {"/", "/sub/"}
  Filters <- MCFilters
  NoName = "none"
  MaxAnswers = 1
  Controls <- MCControls
  MaxUsed = 2
  MaxLength = 3
SPECIFICATION MCSpec
INVARIANTS
  TreeIsWellFormed NativeShowsState SelectionAgrees OverwriteIsConfirmed
PROPERTIES OneIsChecked ChangesAreTold AnswerEnds
CHECK_DEADLOCK FALSE
