CONSTANTS
  c1 = c1
  c2 = c2
  Clients = {c1, c2}
  Uid <- UidOf
  Ops <- OpsOf
  NFcbs = 2
  FcbsPerBlock = 2
  BlockSize = 2
  Modes <- MCModes
  Texts <- MCTexts
  Zero = 0
  MaxSize = 3
  MaxFaults = 1
  MaxQueue = 2
  All = all
  None = none
  Unknown = unknown
SPECIFICATION FairSpec
INVARIANTS CacheIsSaved ReadIsWritten
PROPERTIES Answered
