\* Two workers that may meet at a job, in a pool without a connection to spare.
CONSTANTS
  w1 = w1
  w2 = w2
  j1 = j1
  j2 = j2
  Worker = {w1, w2}
  Job = {j1, j2}
  DsnConns = 4
  MinConns = 5
SPECIFICATION FairSpec
INVARIANTS
  TypeOK
  NobodyWaits
  CleanSessions
PROPERTIES
  ShutdownEnds
