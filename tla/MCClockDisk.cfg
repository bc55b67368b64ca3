SPECIFICATION Spec
CONSTANTS
  Inos = {0, 1}
  MaxSize <- MaxSizeOf
  Data = {a, b}
  NBlocks = 2
  SyncInos = {0, 1}
  Faulty = {"read", "evict", "setsize", "sync"}
  MaxFaults = 1
SYMMETRY Symmetry
VIEW View
INVARIANTS CacheInv WriteThrough
PROPERTIES IsBlockStore
