\* Two instances of the bot, an old one and the one that replaces it.
CONSTANTS
  p1 = p1
  p2 = p2
  Process = {p1, p2}
  NoProcess = NoProcess
  Ghost = Ghost
  MaxUpdates = 4
  MaxBatch = 2
  FaultKinds = {"call", "store", "session", "crash"}
  MaxFaults = 3
SPECIFICATION FairSpec
INVARIANTS
  TypeOK
  NothingForgotten
  CursorTruthful
PROPERTIES
  KeepsFeed
  EveryUpdateStored
