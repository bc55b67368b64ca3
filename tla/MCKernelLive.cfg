SPECIFICATION FairSpec
CONSTANTS
  MaxProcs = 2
  Levels = 2
  Quantum <- QuantumOf
  Uids = {0}
  Kinds = {"kernel", "job"}
  MaxPid = 2
  MaxMsgs = 1
PROPERTIES ShutdownCompletes QuantumEnds
