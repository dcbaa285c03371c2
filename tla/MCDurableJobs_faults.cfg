\* One job, two loop iterations at a time, every kind of fault.
CONSTANTS
  c1 = c1
  w1 = w1
  w2 = w2
  Job = {1}
  Chat = {c1}
  ChatOf <- MCChatOf
  TextRunes <- MCTextRunes
  MaxMsgRunes = 2
  Lecture = {}
  Rejected = {}
  Worker = {w1, w2}
  NoWorker = NoWorker
  FaultKinds = {"call", "store", "crash", "loss", "forget", "delete"}
  MaxFaults = 4
SPECIFICATION Spec
SYMMETRY WorkerSymmetry
INVARIANTS
  TypeOK
  AckAfterDurable
  ResultTruthful
  DoneIsComplete
  PartsInOrder
  TranscriptComplete
  OwnersDoNoHarm
PROPERTIES
  KeepsContract
  NothingStale
