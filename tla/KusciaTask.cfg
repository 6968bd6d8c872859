SPECIFICATION FairSpec
CONSTANTS
  a = a
  b = b
  p1 = p1
  Parties <- OwnParty
  Outer <- OtherParty
  Pods <- OnePod
  Owner <- OwnerOf
  MinReservedPods <- MinPods
  MinReservedMembers = 1
  maxBackoffLimit = 0
  MaxFaults = 1
  TaskLag = 2
  PodLag = 1
INVARIANTS SucceededLeavesNothing
PROPERTIES ImplementsTaskLife SucceededForReal PartyVerdictKept 
CHECK_DEADLOCK FALSE
