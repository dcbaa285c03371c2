\* Three updates and two loops, one of which loses its connection.
CONSTANTS
  member = member
  group = group
  private = private
  Root = Root
  User = {Root, member}
  Group = {group}
  Chat = {group, private}
  Content <- MCContent
  Loop = {l1, l2}
  NoLoop = NoLoop
  FaultKinds = {"loss"}
  MaxUpdates = 3
  MaxFaults = 1
SPECIFICATION Spec
INVARIANTS
  SerialAdmission
