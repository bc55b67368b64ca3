SPECIFICATION Spec
CONSTANTS
  MaxProcs = 3
  Levels = 1
  Quantum <- QuantumOf
  Uids = {0}
  Kinds = {"job"}
  MaxPid = 4
  MaxMsgs = 1
VIEW View
INVARIANTS TypeOK Accounting QueuedOnce WaitingInv ReplyInv ClientHasServer ShutdownDrains
PROPERTIES RpcEnds
