SPECIFICATION FairSpec
CONSTANTS
  Table <- SmallTable
  Parent <- SmallParent
  Directories = {"etc", "bin"}
  Pwds = {a, b}
  Initial = a
  Master = b
  Empty = Empty
  Jobs = {j1, j2}
  ShellPids = {s1, s2}
INVARIANTS Installed EchoRestored
PROPERTIES PasswordKept PromptsReturn
CHECK_DEADLOCK FALSE
