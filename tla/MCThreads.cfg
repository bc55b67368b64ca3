CONSTANTS
  Groups <- GroupsOf
  NThreads = 7
  NSLOTS = 3
  NSeats = 4
  NRounds = 2
  NCalls = 3
  None = None
SPECIFICATION Spec
INVARIANTS ThreadsPlaced SharedIntact
PROPERTIES TestsPass
CHECK_DEADLOCK FALSE
