\* One job, two loop iterations at a time, one of which loses its connection.
CONSTANTS
  c1 = c1
  w1 = w1
  w2 = w2
  Job = {1}
  Chat = {c1}
  ChatOf <- MCChatOf
  TextRunes <- MCTextRunes
  MaxMsgRunes = 2
  Lecture = {}
  Rejected = {}
  Worker = {w1, w2}
  NoWorker = NoWorker
  FaultKinds = {"loss"}
  MaxFaults = 1
SPECIFICATION Spec
INVARIANTS
  ResultStaysVisible
