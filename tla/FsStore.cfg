SPECIFICATION Spec
CONSTANTS
  Blocks = 8
  BlockSize = 2
  EntriesPerBlock = 4
  FileNames = {f, g}
  DirNames = {d}
  Slash = Slash
  ParentNames = {Slash, d}
  NoName = NoName
  Closed = Closed
  Absent = Absent
  MaxOpen = 2
  DirEnd = 4
  WriteSizes = {3}
  Bytes = {x}
  EOF = EOF
  Junk = Junk
  Offsets = {0, 1}
  WriteByWrite = TRUE
  Careful = TRUE
SYMMETRY Symmetry
INVARIANTS TypeOK TableMatchesFiles FreeCount MemoryIsSaved OnePlacePerName
PROPERTIES OthersUntouched CloseChangesNothing ImplementsStore
CHECK_DEADLOCK FALSE
