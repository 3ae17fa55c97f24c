SPECIFICATION Spec
CONSTANTS
  Workers = {w1, w2}
  Fds = {f1, f2, f3}
  Main = Main
  Logger = Logger
  NoThread = NoThread
  NoFd = NoFd
  NoWord = NoWord
  NoEntry = NoEntry
  SIZE = 2
  Words <- MCWords
  Dictionary <- MCDictionary
  AfterPing <- MCAfterPing
  ReadsAs <- MCReadsAs
  Quit = "quit"
  Polite = TRUE
  AbortiveClose = TRUE
  MaxRequests = 0
  AcceptFails = TRUE
  Spurious = TRUE
SYMMETRY Symmetry
INVARIANTS TypeOK LockDiscipline NoLostWakeup SoleOwner
