\* Two bots and a "bot migrate", of releases with one and three migrations.
CONSTANTS
  b1 = b1
  b2 = b2
  c1 = c1
  Bot = {b1, b2}
  Cli = {c1}
  Release = {1, 3}
  FaultKinds = {"statement", "crash"}
  MaxStarts = 4
  MaxFaults = 2
SPECIFICATION FairSpec
INVARIANTS
  SchemaTruthful
PROPERTIES
  EveryoneServes
