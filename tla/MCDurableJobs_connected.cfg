\* One job, two loop iterations at a time, every fault but a lost connection.
CONSTANTS
  c1 = c1
  w1 = w1
  w2 = w2
  Job = {1}
  Chat = {c1}
  ChatOf <- MCChatOf
  TextRunes <- MCTextRunes
  MaxMsgRunes = 2
  Lecture = {1}
  Rejected = {}
  Worker = {w1, w2}
  NoWorker = NoWorker
  FaultKinds = {"call", "store", "crash", "forget", "delete"}
  MaxFaults = 4
SPECIFICATION Spec
SYMMETRY WorkerSymmetry
INVARIANTS
  ResultStaysVisible
PROPERTIES
  ConfirmedNotResent
