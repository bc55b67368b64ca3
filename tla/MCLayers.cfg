SPECIFICATION MCSpec
CONSTANTS
  Setups <- EverySetup
  PartSizes <- TwoPartitions
  MapIno = 1
  ProtIno <- AskedFor
  Inos = {0, 1}
  MaxOffset = 4
  MaxSize <- FourAndTwo
  Null = Null
  Data = {Null, a}
  MaxFaults = 1
INVARIANTS MirrorsAgree
PROPERTIES IsBlockStore
CHECK_DEADLOCK FALSE
