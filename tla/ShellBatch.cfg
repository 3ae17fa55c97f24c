SPECIFICATION Spec
CONSTANTS
  Words = {"echo", "echoecho"}
  NULL = NULL
  Programs = {}
  Glued = "echoecho"
  TerminalScripts = {}
  BatchFiles <- EchoFile
  BufferLines = 3
  MaxLines = 4
  MaxProcs = 5
  MaxTokens = 1
INVARIANTS LinesAsWritten
CHECK_DEADLOCK FALSE
