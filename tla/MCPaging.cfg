CONSTANTS
  p1 = p1
  p2 = p2
  Server = server
  Procs <- MCProcs
  NPages = 2
  InExec <- MCInExec
  Stack = 2
  NFrames = 2
  TlbSize = 2
  Values = {0, 1}
  Zero = 0
  Program <- MCProgram
SPECIFICATION Spec
SYMMETRY Symmetry
INVARIANTS MemoryKept FramesOwned
\* the machine stops when it runs out of frames
CHECK_DEADLOCK FALSE
