CONSTANTS
  Scenarios = {"vector", "pointers", "strings", "set", "hash set"}
  Value = {"a", "b"}
  Operations = {"prepend", "append", "resizeLeft", "resizeRight", "remove", "reset", "operator="}
  MaxElements = 5
  MaxMemory = 11
  Variables = {s1, s2}
  Characters = {c1, c2}
  MaxText = 4
  SSO = 2
  Blocks = {1, 2}
  NoBlock = 0
  Items = {"a", "b", "c", "d", "e", "f"}
  Nothing = "nothing"
  Hash <- MCHash
  Lengths = {1, 2, 8}
  Managers = {m1, m2, m3}
  Null = Null
  Strong = {a, b}
  Weak = {w, x}
  Temporary = t
  MaxCopied = 1
  MaxWeak = 1
SPECIFICATION MCSpec
SYMMETRY Symmetry
VIEW view
INVARIANTS
  NothingUsedAfterDelete LivesIffKnown
  Balanced SearchFindsMembers
PROPERTIES ConstructedExactly ImplementsList ImplementsStrings ImplementsSet
CHECK_DEADLOCK FALSE
