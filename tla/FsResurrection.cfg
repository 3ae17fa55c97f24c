SPECIFICATION Spec
CONSTANTS
  Blocks = 8
  BlockSize = 2
  EntriesPerBlock = 4
  FileNames = {f, g}
  DirNames = {}
  Slash = Slash
  ParentNames = {Slash}
  NoName = NoName
  Closed = Closed
  Absent = Absent
  MaxOpen = 1
  DirEnd = 4
  WriteSizes = {1, 2}
  Bytes = {x}
  EOF = EOF
  Junk = Junk
  Offsets = {0, 1}
  WriteByWrite = TRUE
  Careful = TRUE
PROPERTIES RemovedStaysRemoved
CHECK_DEADLOCK FALSE
