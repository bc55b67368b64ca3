CONSTANTS
  c1 = c1
  c2 = c2
  Clients = {c1, c2}
  Uid <- UidOf
  Calls <- CallsOf
  MaxCalls = 5
  Killable = {c1}
  Names = {"a", "long"}
  DirNames = {"h.dir", "d.dir"}
  TooLong = {"long"}
  PageEntries = 2
  DefaultMode <- MCMode
  MaxFiles = 5
  Root = 1
  RootUid = 0
  Homes <- Home
  Garbage = garbage
  None = none
SPECIFICATION FairSpec
INVARIANTS EntriesAreFiles
PROPERTIES RefusalsAreTrue RefinesNameSpace CallsReturn
CHECK_DEADLOCK FALSE
