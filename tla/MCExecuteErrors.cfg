CONSTANTS
  Scenarios = {"posix, any program"}
  Base = 3
  Patches <- MCPatches
  Uses <- MCUses
  Creators = {"linear", "delta"}
  Bytes = {1, 2}
  Zero = 0
  NoByte = 255
  Page = 2
  MaxLength = 5
  Seeks <- MCSeeks
  ChildPrograms <- MCPrograms
  PipeSize = 2
  PosixBuffer = 2
  WindowsBuffer = 1
SPECIFICATION MCSpec
PROPERTY Returns
CHECK_DEADLOCK FALSE
