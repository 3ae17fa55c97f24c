SPECIFICATION FairLogging
CONSTANTS
  Workers = {w1, w2}
  Fds = {f1, f2}
  Main = Main
  Logger = Logger
  NoThread = NoThread
  NoFd = NoFd
  NoWord = NoWord
  NoEntry = NoEntry
  SIZE = 1
  Words = {"cat"}
  Dictionary <- MCDictionary
  AfterPing <- MCAfterPing
  ReadsAs <- MCReadsAs
  Quit = "quit"
  Polite = TRUE
  AbortiveClose = FALSE
  MaxRequests = 3
  AcceptFails = FALSE
  Spurious = FALSE
PROPERTIES LogMovesOn
