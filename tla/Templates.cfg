SPECIFICATION Spec
CONSTANTS
  None = None
  Bad = Bad
  UID = "u"
  Half = 8
  LabelLimit = 4
  Words <- AllWords
  Heads <- AllHeads
  PortSettings <- Ports
  IngressLists <- SomeIngresses
  MemorySettings <- Memories
  Counts <- AllCounts
  Hpas <- AllHpas
  OwnerLists <- Owners
  Environments <- SomeEnvironments
  MaxEdits = 2
INVARIANTS TypeOK RegisteredAsServed PortsExposed BackendsServed IngressesApart MemoryFits CountsAlike HPAAccepted MonitorDeleted OwnersUnion VersionOrder
CHECK_DEADLOCK FALSE
