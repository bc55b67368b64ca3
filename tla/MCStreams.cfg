CONSTANTS
  c1 = c1
  c2 = c2
  reader = reader
  writer = writer
  Clients = {c1, c2, reader, writer}
  Groups = {{c1}, {c2}, {reader, writer}}
  Uid <- UidOf
  InitFiles <- FilesOf
  Standard <- StandardOf
  Opens <- OpensOf
  Ops <- OpsOf
  Texts <- TextsOf
  Items <- ItemsOf
  Seeks <- SeeksOf
  Modes = {"none"}
  NFds = 3
  NFptrs <- NFptrsOf
  BufSize = 2
  MaxSize = 3
  MaxFiles = 4
  Garbage = "?"
  NL = "n"
  None = none
SPECIFICATION Spec
INVARIANTS CountsAgree InputIsFile LogIsFile
