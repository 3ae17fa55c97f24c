SPECIFICATION FairSpec
CONSTANTS
  Words = {"ls", "cd", "quit", "echo", "pause", "none", "x", "f", "lsls"}
  NULL = NULL
  Programs = {"ls"}
  Glued = "lsls"
  TerminalScripts <- MCTerminalScripts
  BatchFiles <- MCBatchFiles
  BufferLines = 2
  MaxLines = 4
  MaxProcs = 9
  MaxTokens = 4
INVARIANTS TypeOK InsideLine PipesArePaired DocumentedLinesParse AcceptedIsSound OneChildAtATime NoStrayEnds RunsOnce FileInOrder
PROPERTIES NobodyIsLeft LineEnds
CHECK_DEADLOCK FALSE
