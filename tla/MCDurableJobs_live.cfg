\* Two jobs of one chat, the backend refuses the media of the first.
CONSTANTS
  c1 = c1
  w1 = w1
  w2 = w2
  Job = {1, 2}
  Chat = {c1}
  ChatOf <- MCChatOf
  TextRunes <- MCOneMessage
  MaxMsgRunes = 2
  Lecture = {}
  Rejected = {1}
  Worker = {w1, w2}
  NoWorker = NoWorker
  FaultKinds = {"call", "loss"}
  MaxFaults = 1
SPECIFICATION FairSpec
PROPERTIES
  AcceptedEventuallyDone
  CancelReachesBackend
