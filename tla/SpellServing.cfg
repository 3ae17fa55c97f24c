SPECIFICATION FairSpec
CONSTANTS
  Workers = {w1}
  Fds = {f1, f2, f3}
  Main = Main
  Logger = Logger
  NoThread = NoThread
  NoFd = NoFd
  NoWord = NoWord
  NoEntry = NoEntry
  SIZE = 1
  Words <- MCWords
  Dictionary <- MCDictionary
  AfterPing <- MCAfterPing
  ReadsAs <- MCReadsAs
  Quit = "quit"
  Polite = TRUE
  AbortiveClose = FALSE
  MaxRequests = 0
  AcceptFails = TRUE
  Spurious = FALSE
PROPERTIES QueuedIsServed EveryConnectionCloses
