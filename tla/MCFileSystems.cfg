SPECIFICATION Spec
CONSTANTS
  Layouts = {"tree", "unix"}
  NInodes = 2
  Data = {1, 2}
  TreeR = 2
  TreeBlocks = 8
  TreeOffsets = {0, 1, 2}
  Damage = {0, 1, 5, 8}
  UnixR = 5
  UnixBlocks = 26
  UnixOffsets = {0, 2, 7}
  NDirect = 1
  UnixCalls = 5
  MaxStops = 1
INVARIANTS FilesIntact BlocksAccounted CheckerAgrees
CHECK_DEADLOCK FALSE
