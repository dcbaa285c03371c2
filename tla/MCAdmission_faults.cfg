\* Three updates, two loops and two faults of any kind.
CONSTANTS
  member = member
  group = group
  private = private
  Root = Root
  User = {Root, member}
  Group = {group}
  Chat = {group, private}
  Content <- MCContent
  Loop = {l1, l2}
  NoLoop = NoLoop
  FaultKinds = {"store", "crash", "loss"}
  MaxUpdates = 3
  MaxFaults = 2
SPECIFICATION FairSpec
INVARIANTS
  TypeOK
  SerialUnlessLost
  HandledInOrder
  CancelNotLost
PROPERTIES
  JobsStand
  AppliesInOrder
  EveryUpdateHandled
