SPECIFICATION Spec
CONSTANTS
  Workers = {w1, w2}
  Fds = {f1, f2}
  Main = Main
  Logger = Logger
  NoThread = NoThread
  NoFd = NoFd
  NoWord = NoWord
  NoEntry = NoEntry
  SIZE = 2
  Words = {"cat", "quit"}
  Dictionary <- MCDictionary
  AfterPing <- MCAfterPing
  ReadsAs <- MCReadsAs
  Quit = "quit"
  Polite = TRUE
  AbortiveClose = FALSE
  MaxRequests = 2
  AcceptFails = FALSE
  Spurious = FALSE
SYMMETRY Symmetry
INVARIANTS LoggedOnce LogKeepsOrder NoWordSwallowed
PROPERTY ImplementsService
