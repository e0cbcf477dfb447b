CONSTANTS
  Scenarios = {"patch", "file", "posix", "windows"}
  Base = 3
  Patches <- MCPatches
  Uses <- MCUses
  Creators = {"linear", "delta"}
  Bytes = {1, 2}
  Zero = 0
  NoByte = 255
  Page = 2
  MaxLength = 5
  Seeks <- MCSeeks
  ChildPrograms <- MCPrograms
  PipeSize = 2
  PosixBuffer = 2
  WindowsBuffer = 1
SPECIFICATION MCSpec
INVARIANTS PatchRoundTrip AppliesRightly OutputIsComplete
PROPERTIES IsPlainFile Returns
CHECK_DEADLOCK FALSE
