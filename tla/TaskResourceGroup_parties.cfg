SPECIFICATION Spec
CONSTANTS
  Parties = {p1, p2}
  MinReservedMembers = 2
  maxRetries = 1
  MaxFaults = 0
  GroupLag = 1
  ResourceLag = 1
SYMMETRY Symmetry
INVARIANTS SchedulableNeedsQuorum
PROPERTIES NoResetAfterGrant ImplementsGroupLife
CHECK_DEADLOCK FALSE
