SPECIFICATION Spec
CONSTANTS
  Workers = {w1, w2}
  Fds = {f1}
  Main = Main
  Logger = Logger
  NoThread = NoThread
  NoFd = NoFd
  NoWord = NoWord
  NoEntry = NoEntry
  SIZE = 1
  Words <- MCWords
  Dictionary <- MCDictionary
  AfterPing <- MCAfterPing
  ReadsAs <- MCReadsAs
  Quit = "quit"
  Polite = TRUE
  AbortiveClose = TRUE
  MaxRequests = 1
  AcceptFails = FALSE
  Spurious = FALSE
INVARIANT StaysUp
